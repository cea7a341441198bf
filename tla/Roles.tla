------------------------------- MODULE Roles -------------------------------
(***************************************************************************)
(* Roles and their permissions (backend/internal/roles), and what a request*)
(* on roles or users keeps while it runs.  Editing and deleting a role     *)
(* begin with SELECT ... FOR UPDATE of its row; giving it to a user locks  *)
(* the row FOR KEY SHARE, in the foreign key check of user_roles.role_id,  *)
(* whose ON DELETE CASCADE would take the assignments of a deleted role    *)
(* along.                                                                  *)
(*                                                                         *)
(*   roles     the committed rows of roles and role_permissions            *)
(*   users     the committed rows of users and user_roles                  *)
(*   roleLock  the transaction that has a role's row to itself             *)
(*   sharers   the transactions that keep a role from being deleted        *)
(*   userLock, linkLock   who has a user's row, and its rows in user_roles *)
(*   req, pc   what each session asks for, and its next statement          *)
(*   work      what its transaction has found and written so far           *)
(*   view      the user each session has loaded, with its version          *)
(***************************************************************************)
EXTENDS Naturals

CONSTANTS
  Sessions, RoleIds, UserIds,
  Names, Permissions, Emails,
  Asks,        (* what clients ask                                         *)
  AdminRole, Admin, AdminEmail,   (* the role, user and email of the start *)
  MaxVersion,  (* bound: no author starts an update of a newer version     *)
  Super,       (* the name SUPER_ADMIN                                     *)
  None         (* no session, identifier, name or email                    *)

ASSUME AccountsAssumption ==
  /\ MaxVersion \in Nat \ {0} /\ Super \in Names
  /\ AdminRole \in RoleIds /\ Admin \in UserIds /\ AdminEmail \in Emails
  /\ None \notin Sessions \cup RoleIds \cup UserIds \cup Names \cup Emails

VARIABLES roles, users, roleLock, sharers, userLock, linkLock, req, pc, work, view

tables == <<roles, users>>
locks  == <<roleLock, sharers, userLock, linkLock>>
vars   == <<tables, locks, req, pc, work, view>>

RoleOps == {"role.create", "role.update", "role.delete"}
UserOps == {"user.create", "user.update", "user.delete"}

(* id is the role or user asked about; name its new name or email; set the *)
(* permissions of a role, or the names of the roles of a user; actor the   *)
(* user who asks.                                                          *)
Request(op, id, name, set, actor) ==
  [op |-> op, id |-> id, name |-> name, set |-> set, actor |-> actor]
NoRequest == Request("none", None, None, {}, None)
RoleRequests == [op : RoleOps, id : RoleIds \cup {None}, name : Names \cup {None},
                 set : SUBSET Permissions, actor : UserIds]
UserRequests == [op : UserOps, id : UserIds \cup {None}, name : Emails \cup {None},
                 set : SUBSET Names, actor : UserIds]

(* A user without an email is refused (validateUser).                      *)
ASSUME AsksAssumption ==
  /\ Asks \subseteq RoleRequests \cup UserRequests
  /\ \A q \in Asks : /\ q.op \in {"role.update", "role.delete"} => q.id \in RoleIds
                     /\ q.op \in {"user.update", "user.delete"} => q.id \in UserIds
                     /\ q.op \in {"user.create", "user.update"} => q.name \in Emails

(* Rows.  An identifier comes from a sequence, and is not used twice.      *)
RoleRow(state, name, perms) == [state |-> state, name |-> name, perms |-> perms]
UnusedRole  == RoleRow("unused", None, {})
DeletedRole == RoleRow("deleted", None, {})
UserRow(version, email, held) == [version |-> version, email |-> email, roles |-> held]
UnusedUser  == UserRow(0, None, {})
DeletedUser == UserRow(MaxVersion + 1, None, {})

LiveRole(r) == roles[r].state = "live"
LiveUser(u) == users[u].email # None
Holders(r)  == {u \in UserIds : r \in users[u].roles}

NoWork == [todo |-> {}, role |-> None, got |-> {}, dropped |-> {}]
NoView == [user |-> None, version |-> 0, roles |-> {}]

(* Migration 0002 adds SUPER_ADMIN, bootstrap-admin its first user.        *)
Init ==
  /\ roles = [r \in RoleIds |-> IF r = AdminRole
                  THEN RoleRow("live", Super, Permissions) ELSE UnusedRole]
  /\ users = [u \in UserIds |-> IF u = Admin
                  THEN UserRow(1, AdminEmail, {AdminRole}) ELSE UnusedUser]
  /\ roleLock = [r \in RoleIds |-> None]
  /\ sharers  = [r \in RoleIds |-> {}]
  /\ userLock = [u \in UserIds |-> None]
  /\ linkLock = [u \in UserIds |-> None]
  /\ req  = [s \in Sessions |-> NoRequest]
  /\ pc   = [s \in Sessions |-> "idle"]
  /\ work = [s \in Sessions |-> NoWork]
  /\ view = [s \in Sessions |-> NoView]

-----------------------------------------------------------------------------
Goto(s, label) == pc' = [pc EXCEPT ![s] = label]

(* RequirePermission lets nobody through who has no role.                  *)
Ask(s, q, label) ==
  /\ pc[s] = "idle" /\ q \in Asks /\ users[q.actor].roles # {}
  /\ req' = [req EXCEPT ![s] = q]
  /\ Goto(s, label)
  /\ UNCHANGED <<tables, locks, work, view>>

(* COMMIT or ROLLBACK.                                                     *)
End(s) ==
  /\ Goto(s, "idle")
  /\ req'  = [req EXCEPT ![s] = NoRequest]
  /\ work' = [work EXCEPT ![s] = NoWork]
  /\ roleLock' = [r \in RoleIds |-> IF roleLock[r] = s THEN None ELSE roleLock[r]]
  /\ sharers'  = [r \in RoleIds |-> sharers[r] \ {s}]
  /\ userLock' = [u \in UserIds |-> IF userLock[u] = s THEN None ELSE userLock[u]]
  /\ linkLock' = [u \in UserIds |-> IF linkLock[u] = s THEN None ELSE linkLock[u]]
  /\ UNCHANGED view

(* An answer other than success, with ROLLBACK.                            *)
Refuse(s) == End(s) /\ UNCHANGED tables

(* FOR UPDATE, UPDATE and DELETE of a role: nobody else may hold its row.  *)
LockRole(s, r) ==
  /\ roleLock[r] \in {s, None} /\ sharers[r] \subseteq {s}
  /\ roleLock' = [roleLock EXCEPT ![r] = s]
  /\ UNCHANGED <<sharers, userLock, linkLock>>

-----------------------------------------------------------------------------
BeginRole(s, q) ==
  /\ q.op \in RoleOps
  /\ Ask(s, q, IF q.op = "role.create" THEN "insert_role" ELSE "find_role")

(* ErrRoleNotFound, ErrProtectedRole.                                      *)
Refused(r) == ~LiveRole(r) \/ roles[r].name = Super

AfterFound(s) == IF req[s].op = "role.update" THEN "write_role" ELSE "count"

\* Plain SELECT: the row is read and not locked.
Fault_FindForUpdate(s) ==
  /\ pc[s] = "find_role"
  /\ IF Refused(req[s].id) THEN Goto(s, "refused") ELSE Goto(s, AfterFound(s))
  /\ UNCHANGED <<tables, locks, req, work, view>>

(* SELECT name FROM roles WHERE id = $1 FOR UPDATE                         *)
FindForUpdate(s) ==
  /\ pc[s] = "find_role"
  /\ LockRole(s, req[s].id)
  /\ IF Refused(req[s].id) THEN Goto(s, "refused") ELSE Goto(s, AfterFound(s))
  /\ UNCHANGED <<tables, req, work, view>>

(* INSERT INTO roles takes an identifier; the row is nobody else's yet.    *)
InsertRole(s, r) ==
  /\ pc[s] = "insert_role"
  /\ roles[r] = UnusedRole
  /\ LockRole(s, r)
  /\ req' = [req EXCEPT ![s].id = r]
  /\ Goto(s, "role_name")
  /\ UNCHANGED <<tables, work, view>>

(* UPDATE roles replaces the row, and then enters its name in the index.   *)
WriteRole(s) ==
  /\ pc[s] = "write_role"
  /\ LockRole(s, req[s].id)
  /\ Goto(s, "role_name")
  /\ UNCHANGED <<tables, req, work, view>>

RoleNameTaken(s) == \E r \in RoleIds \ {req[s].id} : roles[r].name = req[s].name

(* s meets in the index a row that t is replacing or removing, or a name   *)
(* that t has entered.                                                     *)
ContendsForName(s, t) ==
  /\ t # s
  /\ \/ pc[t] \in {"role_name", "permissions", "commit_role", "commit_removal"}
        /\ roles[req[t].id].name = req[s].name
     \/ pc[t] \in {"permissions", "commit_role"} /\ req[t].name = req[s].name

(* The unique index on roles.name: a duplicate fails the statement.        *)
EnterName(s) ==
  /\ pc[s] = "role_name"
  /\ \A t \in Sessions : ~ContendsForName(s, t)
  /\ Goto(s, IF RoleNameTaken(s) THEN "refused" ELSE "permissions")
  /\ UNCHANGED <<tables, locks, req, work, view>>

(* replacePermissions: DELETE removes the rows its snapshot shows, then one*)
(* INSERT per permission.                                                  *)
ReplacePermissions(s) ==
  /\ pc[s] = "permissions"
  /\ work' = [work EXCEPT ![s].dropped = roles[req[s].id].perms]
  /\ Goto(s, "commit_role")
  /\ UNCHANGED <<tables, locks, req, view>>

(* The row of audit_logs refers to the user who asks.  Its foreign key     *)
(* check locks that user FOR KEY SHARE, and waits for t if t deletes the   *)
(* user or changes the email, which is a key.                              *)
ContendsForActor(s, t) ==
  /\ t # s /\ req[t].id = req[s].actor /\ userLock[req[t].id] = t
  /\ \/ req[t].op = "user.delete"
     \/ req[t].op = "user.update" /\ req[t].name # users[req[t].id].email

(* recordAudit, the statement before COMMIT; it fails (Abort) if the user  *)
(* is gone.  Who has the share waits for nothing more and is about to end, *)
(* so the statement is one step with COMMIT.                               *)
Audited(s) ==
  LiveUser(req[s].actor) /\ \A t \in Sessions : ~ContendsForActor(s, t)

CommitRole(s) ==
  /\ pc[s] = "commit_role" /\ Audited(s)
  /\ roles' = [roles EXCEPT ![req[s].id] =
       RoleRow("live", req[s].name, (@.perms \ work[s].dropped) \cup req[s].set)]
  /\ End(s)
  /\ UNCHANGED users

-----------------------------------------------------------------------------
(* SELECT COUNT( * ) FROM user_roles; ErrRoleHasUsers.                     *)
CountHolders(s) ==
  /\ pc[s] = "count"
  /\ Goto(s, IF Holders(req[s].id) # {} THEN "refused" ELSE "remove_role")
  /\ UNCHANGED <<tables, locks, req, work, view>>

RemoveRole(s) ==
  /\ pc[s] = "remove_role"
  /\ LockRole(s, req[s].id)
  /\ Goto(s, "commit_removal")
  /\ UNCHANGED <<tables, req, work, view>>

(* ON DELETE CASCADE of user_roles and role_permissions.                   *)
CommitRemoval(s) ==
  /\ pc[s] = "commit_removal" /\ Audited(s)
  /\ roles' = [roles EXCEPT ![req[s].id] = DeletedRole]
  /\ users' = [u \in UserIds |-> [users[u] EXCEPT !.roles = @ \ {req[s].id}]]
  /\ End(s)

(* The role is not there, is protected or in use, or its name is taken.    *)
AnswerRefused(s) == pc[s] = "refused" /\ Refuse(s)

RoleStep(s) ==
  \/ \E q \in Asks : BeginRole(s, q)
  \/ \E r \in RoleIds : InsertRole(s, r)
  \/ FindForUpdate(s) \/ WriteRole(s) \/ EnterName(s)
  \/ ReplacePermissions(s) \/ CommitRole(s)
  \/ CountHolders(s) \/ RemoveRole(s) \/ CommitRemoval(s)
  \/ AnswerRefused(s)
=============================================================================
