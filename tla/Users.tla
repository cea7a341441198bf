------------------------------- MODULE Users -------------------------------
(***************************************************************************)
(* Users and the roles they hold (backend/internal/users).  A user is read *)
(* by three SELECTs and written back, with all its roles, under            *)
(* expected_version.  The branches of a user are deleted and inserted again*)
(* in the same way after its roles, and are left out.                      *)
(***************************************************************************)
EXTENDS Roles

IsSuper(u)  == \E r \in users[u].roles : roles[r].name = Super

(* A user's row, and the rows of user_roles that point to it.              *)
LockUser(s, u) ==
  /\ userLock[u] \in {s, None}
  /\ userLock' = [userLock EXCEPT ![u] = s]

LockLinks(s, u) ==
  IF users[u].roles = {} THEN UNCHANGED linkLock
  ELSE /\ linkLock[u] \in {s, None}
       /\ linkLock' = [linkLock EXCEPT ![u] = s]

-----------------------------------------------------------------------------
(* GetByID: SELECT of the row, then GetRoleNames, which may fail.          *)
ReadUser(s, u) ==
  /\ pc[s] = "idle" /\ LiveUser(u)
  /\ view' = [view EXCEPT ![s] = [user |-> u, version |-> users[u].version, roles |-> {}]]
  /\ Goto(s, "read_roles")
  /\ UNCHANGED <<tables, locks, req, work>>

ReadRoles(s) ==
  /\ pc[s] = "read_roles"
  /\ \/ view' = [view EXCEPT ![s].roles = users[view[s].user].roles]
     \/ view' = [view EXCEPT ![s] = NoView]
  /\ Goto(s, "idle")
  /\ UNCHANGED <<tables, locks, req, work>>

-----------------------------------------------------------------------------
(* Update as far as its first statement: what was loaded is sent back, once*)
(* or again, and GetByID finds the email changed or not.                   *)
BeginUpdate(s, q) ==
  /\ q.op = "user.update" /\ q.id = view[s].user
  /\ view[s].version < MaxVersion
  /\ LiveUser(q.id)
  /\ Ask(s, q, IF users[q.id].email = q.name THEN "write_user" ELSE "check_email")

BeginCreate(s, q) == q.op = "user.create" /\ Ask(s, q, "check_email")

AfterCheck(s) == IF req[s].op = "user.create" THEN "insert_user" ELSE "write_user"
EmailTaken(s) == \E u \in UserIds \ {req[s].id} : users[u].email = req[s].name

\* The check before the transaction left out, since there is an index.
Fault_CheckEmail(s) ==
  /\ pc[s] = "check_email"
  /\ Goto(s, AfterCheck(s))
  /\ UNCHANGED <<tables, locks, req, work, view>>

(* GetByEmail, before the transaction.                                     *)
CheckEmail(s) ==
  /\ pc[s] = "check_email"
  /\ Goto(s, IF EmailTaken(s) THEN "refused" ELSE AfterCheck(s))
  /\ UNCHANGED <<tables, locks, req, work, view>>

\* The condition on the version is missing.
Fault_Matches(s) == LiveUser(req[s].id)
(* WHERE id = $4 AND version = $5                                          *)
Matches(s) == LiveUser(req[s].id) /\ users[req[s].id].version = view[s].version

(* UpdateWithTx waits for the row and evaluates its condition again.       *)
WriteUser(s) ==
  /\ pc[s] = "write_user" /\ Matches(s)
  /\ LockUser(s, req[s].id)
  /\ Goto(s, "email")
  /\ UNCHANGED <<tables, roleLock, sharers, linkLock, req, work, view>>

(* No row matches; GetVersionStateWithTx finds out why, and ROLLBACK.      *)
WriteMissed(s) ==
  /\ pc[s] = "write_user" /\ ~Matches(s)
  /\ userLock[req[s].id] = None
  /\ Refuse(s)

(* INSERT INTO users takes an identifier.                                  *)
InsertUser(s, u) ==
  /\ pc[s] = "insert_user" /\ users[u] = UnusedUser
  /\ LockUser(s, u)
  /\ req' = [req EXCEPT ![s].id = u]
  /\ Goto(s, "email")
  /\ UNCHANGED <<tables, roleLock, sharers, linkLock, work, view>>

UserWriters ==
  {t \in Sessions : pc[t] \in {"email", "drop", "lookup", "assign", "commit_user",
                               "leaked_create", "cascade", "commit_deletion"}}

(* As for role names.  A deletion that has not removed the row yet, or has *)
(* found none, is in nobody's way.                                         *)
ContendsForEmail(s, t) ==
  /\ t \in UserWriters \ {s} /\ userLock[req[t].id] = t
  /\ \/ users[req[t].id].email = req[s].name
     \/ req[t].op # "user.delete" /\ pc[t] # "email" /\ req[t].name = req[s].name

(* The unique index on users.email.                                        *)
EnterEmail(s) ==
  /\ pc[s] = "email"
  /\ \A t \in Sessions : ~ContendsForEmail(s, t)
  /\ IF EmailTaken(s) THEN Goto(s, "refused") /\ UNCHANGED work
     ELSE /\ Goto(s, IF req[s].op = "user.create" THEN "lookup" ELSE "drop")
          /\ work' = [work EXCEPT ![s].todo = req[s].set]
  /\ UNCHANGED <<tables, locks, req, view>>

-----------------------------------------------------------------------------
\* The DELETE left out: ON CONFLICT DO NOTHING hides what is there.
Fault_DropRoles(s) ==
  /\ pc[s] = "drop"
  /\ Goto(s, IF req[s].op = "user.delete" THEN "remove_user" ELSE "lookup")
  /\ UNCHANGED <<tables, locks, req, work, view>>

(* DeleteRolesWithTx: the rows of user_roles that its snapshot shows.      *)
DropRoles(s) ==
  /\ pc[s] = "drop"
  /\ LockLinks(s, req[s].id)
  /\ work' = [work EXCEPT ![s].dropped = users[req[s].id].roles]
  /\ Goto(s, IF req[s].op = "user.delete" THEN "remove_user" ELSE "lookup")
  /\ UNCHANGED <<tables, roleLock, sharers, userLock, req, view>>

(* Update rolls back what fails among the roles.  In Create `role, err :=` *)
(* and `if err :=` hide the error from the deferred function: nothing is   *)
(* rolled back before the request's context ends.                          *)
Failed(s) == IF req[s].op = "user.create" THEN "leaked_create" ELSE "refused"

(* GetByNameTx reads the role and does not lock it.                        *)
LookUpRole(s, n) ==
  /\ pc[s] = "lookup" /\ n \in work[s].todo
  /\ \/ \E r \in RoleIds :
          /\ LiveRole(r) /\ roles[r].name = n
          /\ work' = [work EXCEPT ![s].role = r, ![s].todo = @ \ {n}]
          /\ Goto(s, "assign")
     \/ /\ \A r \in RoleIds : roles[r].name # n
        /\ Goto(s, Failed(s)) /\ UNCHANGED work
  /\ UNCHANGED <<tables, locks, req, view>>

\* user_roles.role_id without its foreign key.
Fault_AddRole(s) ==
  /\ pc[s] = "assign"
  /\ work' = [work EXCEPT ![s].got = @ \cup {work[s].role}, ![s].role = None]
  /\ Goto(s, "lookup")
  /\ UNCHANGED <<tables, locks, req, view>>

(* AddRoleWithTx: the foreign key check waits for whoever has the role's   *)
(* row, and fails if the role is gone.                                     *)
AddRole(s) ==
  LET r == work[s].role IN
  /\ pc[s] = "assign"
  /\ roleLock[r] = None
  /\ IF LiveRole(r)
     THEN /\ sharers' = [sharers EXCEPT ![r] = @ \cup {s}]
          /\ work' = [work EXCEPT ![s].got = @ \cup {r}, ![s].role = None]
          /\ Goto(s, "lookup")
     ELSE Goto(s, Failed(s)) /\ UNCHANGED <<sharers, work>>
  /\ UNCHANGED <<tables, roleLock, userLock, linkLock, req, view>>

RolesDone(s) ==
  /\ pc[s] = "lookup" /\ work[s].todo = {}
  /\ Goto(s, "commit_user")
  /\ UNCHANGED <<tables, locks, req, work, view>>

CommitUser(s) ==
  /\ pc[s] = "commit_user" /\ Audited(s)
  /\ users' = [users EXCEPT ![req[s].id] =
       UserRow(@.version + 1, req[s].name, (@.roles \ work[s].dropped) \cup work[s].got)]
  /\ End(s)
  /\ UNCHANGED roles

-----------------------------------------------------------------------------
(* Delete: GetByID, ErrUserSelfDelete, then GetRoleNames, all before the   *)
(* transaction.                                                            *)
BeginDelete(s, q) ==
  /\ q.op = "user.delete" /\ LiveUser(q.id) /\ q.id # q.actor
  /\ Ask(s, q, "protect")

CheckProtected(s) ==
  /\ pc[s] = "protect"
  /\ Goto(s, IF IsSuper(req[s].id) THEN "refused" ELSE "drop")
  /\ UNCHANGED <<tables, locks, req, work, view>>

(* DELETE FROM users.  If the user is gone, ErrUserNotFound is returned    *)
(* with err nil, and nothing is rolled back.                               *)
RemoveUser(s) ==
  /\ pc[s] = "remove_user" /\ LiveUser(req[s].id)
  /\ LockUser(s, req[s].id)
  /\ Goto(s, "cascade")
  /\ UNCHANGED <<tables, roleLock, sharers, linkLock, req, work, view>>

RemoveMissed(s) ==
  /\ pc[s] = "remove_user" /\ ~LiveUser(req[s].id)
  /\ Goto(s, "leaked_delete")
  /\ UNCHANGED <<tables, locks, req, work, view>>

(* ON DELETE CASCADE: roles that were given since DropRoles.               *)
CascadeRoles(s) ==
  /\ pc[s] = "cascade"
  /\ LockLinks(s, req[s].id)
  /\ Goto(s, "commit_deletion")
  /\ UNCHANGED <<tables, roleLock, sharers, userLock, req, work, view>>

CommitDeletion(s) ==
  /\ pc[s] = "commit_deletion" /\ Audited(s)
  /\ users' = [users EXCEPT ![req[s].id] = DeletedUser]
  /\ End(s)
  /\ UNCHANGED roles

(* The HTTP request ends, which cancels its context: ROLLBACK.             *)
EndRequest(s) == pc[s] \in {"leaked_create", "leaked_delete"} /\ Refuse(s)

UserStep(s) ==
  \/ \E u \in UserIds : ReadUser(s, u) \/ InsertUser(s, u)
  \/ \E q \in Asks : BeginUpdate(s, q) \/ BeginCreate(s, q) \/ BeginDelete(s, q)
  \/ \E n \in Names : LookUpRole(s, n)
  \/ ReadRoles(s) \/ CheckEmail(s) \/ WriteUser(s) \/ WriteMissed(s) \/ EnterEmail(s)
  \/ DropRoles(s) \/ AddRole(s) \/ RolesDone(s) \/ CommitUser(s)
  \/ CheckProtected(s) \/ RemoveUser(s) \/ RemoveMissed(s)
  \/ CascadeRoles(s) \/ CommitDeletion(s) \/ EndRequest(s)
=============================================================================
