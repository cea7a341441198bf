------------------------------ MODULE Accounts ------------------------------
(***************************************************************************)
(* Users and roles over one database: every interleaving of requests on    *)
(* users and requests on roles, and what is expected of them.              *)
(***************************************************************************)
EXTENDS Users

(* An access check refuses, an unknown permission, a statement that fails, *)
(* a client or a process that goes away: the transaction is rolled back.   *)
Abort(s) == pc[s] \notin {"idle", "read_roles"} /\ Refuse(s)

Next == \E s \in Sessions : RoleStep(s) \/ UserStep(s) \/ Abort(s)
Spec == Init /\ [][Next]_vars

-----------------------------------------------------------------------------
RolePCs == {"insert_role", "find_role", "write_role", "role_name", "permissions",
            "commit_role", "count", "remove_role", "commit_removal"}
UserPCs == {"check_email", "write_user", "insert_user", "email", "drop", "lookup",
            "assign", "commit_user", "leaked_create", "protect", "remove_user",
            "cascade", "commit_deletion", "leaked_delete"}

(* Every variable keeps its type.                                          *)
TypeOK ==
  /\ roles \in [RoleIds -> [state : {"unused", "live", "deleted"},
                            name : Names \cup {None}, perms : SUBSET Permissions]]
  /\ users \in [UserIds -> [version : 0..MaxVersion + 1,
                            email : Emails \cup {None}, roles : SUBSET RoleIds]]
  /\ roleLock \in [RoleIds -> Sessions \cup {None}]
  /\ sharers \in [RoleIds -> SUBSET Sessions]
  /\ userLock \in [UserIds -> Sessions \cup {None}]
  /\ linkLock \in [UserIds -> Sessions \cup {None}]
  /\ req \in [Sessions -> RoleRequests \cup UserRequests \cup {NoRequest}]
  /\ pc \in [Sessions -> RolePCs \cup UserPCs \cup {"idle", "read_roles", "refused"}]
  /\ work \in [Sessions -> [todo : SUBSET Names, role : RoleIds \cup {None},
                            got : SUBSET RoleIds,
                            dropped : SUBSET (RoleIds \cup Permissions)]]
  /\ view \in [Sessions -> [user : UserIds \cup {None}, version : 0..MaxVersion,
                            roles : SUBSET RoleIds]]

-----------------------------------------------------------------------------
(* Nobody holds a role that is not there, though a role is looked up by    *)
(* name without a lock and given afterwards.                               *)
HoldersHaveRole == \A u \in UserIds : \A r \in users[u].roles : LiveRole(r)

(* Deleting a role takes it from nobody: between the count of its holders  *)
(* and the DELETE, which cascades, nobody is given it.                     *)
NoAssignmentLost ==
  [][\A r \in RoleIds : LiveRole(r) /\ ~LiveRole(r)' => Holders(r) = {}]_vars

(* An edit leaves a role with the permissions, and a user with the roles,  *)
(* that it found for what it lists, whatever other edits go on: no mixture *)
(* of two lists.                                                           *)
EditsAreWhole ==
  [][\A s \in Sessions : pc[s] # "idle" /\ pc'[s] = "idle" =>
       /\ pc[s] = "commit_role" /\ roles' # roles =>
            roles'[req[s].id].perms = req[s].set
       /\ pc[s] = "commit_user" /\ users' # users =>
            users'[req[s].id].roles = work[s].got]_vars

(* A user's roles are replaced by someone who has seen them.  The version  *)
(* is read with the user's row and the roles by a later statement; whoever *)
(* has the version of an older row is refused.                             *)
NoBlindOverwrite ==
  \A s \in Sessions :
    pc[s] \in {"email", "drop", "lookup", "assign", "commit_user"}
      /\ req[s].op = "user.update" => view[s].roles = users[req[s].id].roles

-----------------------------------------------------------------------------
WaitsForRole(s, t) ==
  \/ /\ pc[s] \in {"find_role", "write_role", "remove_role"}
     /\ roleLock[req[s].id] = t \/ t \in sharers[req[s].id]
  \/ pc[s] = "role_name" /\ ContendsForName(s, t)
  \/ pc[s] = "assign" /\ roleLock[work[s].role] = t

WaitsForUser(s, t) ==
  \/ /\ \/ pc[s] = "write_user"
        \/ pc[s] = "remove_user" /\ LiveUser(req[s].id)
     /\ userLock[req[s].id] = t
  \/ pc[s] = "email" /\ ContendsForEmail(s, t)
  \/ /\ pc[s] \in {"drop", "cascade"} /\ users[req[s].id].roles # {}
     /\ linkLock[req[s].id] = t

WaitsForActor(s, t) ==
  /\ pc[s] \in {"commit_role", "commit_removal", "commit_user", "commit_deletion"}
  /\ ContendsForActor(s, t)

WaitsFor(s, t) ==
  s # t /\ (WaitsForRole(s, t) \/ WaitsForUser(s, t) \/ WaitsForActor(s, t))

(* t gives another email to the user who asks for what s does.             *)
RenamesActor(t, s) ==
  /\ s # t /\ req[t].op = "user.update" /\ req[t].id = req[s].actor
  /\ req[t].name # users[req[t].id].email

(* Requests wait for each other in a circle only if one of them deletes a  *)
(* user (Delete locks roles before the row, Update the row before roles),  *)
(* two of them edit roles, or one changes the email of the user who asked  *)
(* for another: two administrators may do that to each other, and an edit  *)
(* of a role waits for the update of its author, which may be assigning    *)
(* that role.  There is no circle when two users are given each other's    *)
(* email at once, or roles that others are just editing.                   *)
OnlyKnownDeadlocks ==
  \A D \in (SUBSET Sessions) \ {{}} :
    \/ \E s \in D : req[s].op = "user.delete"
    \/ \E s, t \in D : s # t /\ {req[s].op, req[t].op} \subseteq RoleOps
    \/ \E s, t \in D : RenamesActor(t, s)
    \/ \E s \in D : \A t \in D : ~WaitsFor(s, t)
=============================================================================
