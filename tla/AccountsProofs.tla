--------------------------- MODULE AccountsProofs ---------------------------
(***************************************************************************)
(* Proofs about Accounts, for every set of sessions, roles, users, names   *)
(* and permissions.                                                        *)
(***************************************************************************)
EXTENDS Accounts, TLAPS

Work == [todo : SUBSET Names, role : RoleIds \cup {None}, got : SUBSET RoleIds,
         dropped : SUBSET (RoleIds \cup Permissions)]

(* A request on a role: the row it has locked, with nobody that shares it; *)
(* nobody holds a role that is about to go, and all permissions are about  *)
(* to be replaced.                                                         *)
RoleOK(s) ==
  /\ pc[s] \in RolePCs => req[s] \in RoleRequests
  /\ pc[s] \in RolePCs \ {"insert_role"} => req[s].id \in RoleIds
  /\ pc[s] \in RolePCs \ {"insert_role", "find_role"} =>
       roleLock[req[s].id] = s /\ sharers[req[s].id] = {}
  /\ pc[s] \in {"remove_role", "commit_removal"} => Holders(req[s].id) = {}
  /\ pc[s] = "commit_role" => roles[req[s].id].perms \subseteq work[s].dropped

(* A request on a user: the row it has locked, at the version its author   *)
(* has seen, and the roles it has dropped.                                 *)
Editing(s) ==
  \/ pc[s] \in {"email", "lookup", "assign", "commit_user"}
  \/ pc[s] = "drop" /\ req[s].op = "user.update"

UserOK(s) ==
  /\ pc[s] \in UserPCs => req[s] \in UserRequests
  /\ pc[s] = "check_email" => req[s].op \in {"user.create", "user.update"}
  /\ pc[s] = "insert_user" => req[s].op = "user.create"
  /\ pc[s] = "write_user" => req[s].op = "user.update"
  /\ pc[s] \in {"check_email", "write_user"} /\ req[s].op = "user.update" =>
       /\ req[s].id \in UserIds /\ req[s].id = view[s].user
       /\ view[s].version < MaxVersion
  /\ pc[s] \in {"protect", "remove_user"} =>
       req[s].id \in UserIds /\ req[s].op = "user.delete"
  /\ pc[s] = "drop" =>
       req[s].id \in UserIds /\ req[s].op \in {"user.update", "user.delete"}
  /\ pc[s] \in {"cascade", "commit_deletion"} =>
       /\ req[s].id \in UserIds /\ userLock[req[s].id] = s
       /\ users[req[s].id].version <= MaxVersion
  /\ Editing(s) =>
       /\ req[s].id \in UserIds /\ userLock[req[s].id] = s
       /\ users[req[s].id].version < MaxVersion
       /\ req[s].op \in {"user.create", "user.update"}
       /\ req[s].op = "user.update" =>
            req[s].id = view[s].user /\ users[req[s].id].version = view[s].version
  /\ pc[s] = "email" /\ req[s].op = "user.create" => users[req[s].id].roles = {}
  /\ pc[s] \in {"lookup", "assign", "commit_user"} =>
       users[req[s].id].roles \subseteq work[s].dropped
  /\ pc[s] = "assign" => work[s].role \in RoleIds

(* What s has given is there and is kept from being deleted.               *)
ShareOK(s) ==
  /\ \A r \in work[s].got : s \in sharers[r]
  /\ \A r \in RoleIds : s \in sharers[r] =>
       /\ LiveRole(r)
       /\ pc[s] \in {"lookup", "assign", "commit_user", "leaked_create", "refused"}

(* An author who has the version of a user has seen its roles.             *)
ViewOK(s) ==
  LET u == view[s].user IN
  /\ u \in UserIds => view[s].version <= users[u].version
  /\ pc[s] = "read_roles" => u \in UserIds
  /\ u \in UserIds /\ pc[s] # "read_roles" /\ users[u].version = view[s].version =>
       view[s].roles = users[u].roles

SessionOK(s) == RoleOK(s) /\ UserOK(s) /\ ShareOK(s) /\ ViewOK(s)

VersionsOK == \A u \in UserIds : LiveUser(u) => users[u].version <= MaxVersion

IInv == TypeOK /\ HoldersHaveRole /\ VersionsOK /\ \A s \in Sessions : SessionOK(s)

(* What a step of s leaves to the others; nobody gets to share a role that *)
(* is being edited or deleted.                                             *)
Kept(s) ==
  /\ \A t \in Sessions \ {s} :
       /\ pc'[t] = pc[t] /\ req'[t] = req[t] /\ work'[t] = work[t] /\ view'[t] = view[t]
       /\ \A r \in RoleIds : /\ roleLock[r] = t => roleLock'[r] = t
                             /\ t \in sharers'[r] <=> t \in sharers[r]
       /\ \A u \in UserIds : userLock[u] = t => userLock'[u] = t
  /\ \A r \in RoleIds : s \in sharers'[r] => s \in sharers[r] \/ roleLock[r] = None

-----------------------------------------------------------------------------
LEMMA InitHolds == Init => IInv
<1> SUFFICES ASSUME Init PROVE IInv
  OBVIOUS
<1>1. TypeOK
  BY AccountsAssumption
  DEF Init, TypeOK, RoleRow, UserRow, UnusedRole, UnusedUser, NoRequest, Request,
      NoWork, NoView
<1>2. HoldersHaveRole /\ VersionsOK
  BY AccountsAssumption
  DEF Init, HoldersHaveRole, VersionsOK, LiveRole, LiveUser, RoleRow, UserRow,
      UnusedRole, UnusedUser
<1>3. ASSUME NEW s \in Sessions
      PROVE  SessionOK(s)
  <2>1. /\ pc[s] = "idle" /\ work[s].got = {} /\ view[s].user \notin UserIds
        /\ \A r \in RoleIds : sharers[r] = {}
    BY AccountsAssumption DEF Init, NoWork, NoView
  <2>2. RoleOK(s) /\ UserOK(s)
    BY <2>1 DEF RoleOK, UserOK, RolePCs, UserPCs, Editing
  <2>3. ShareOK(s) /\ ViewOK(s)
    BY <2>1 DEF ShareOK, ViewOK
  <2> QED BY <2>2, <2>3 DEF SessionOK
<1> QED BY <1>1, <1>2, <1>3 DEF IInv

LEMMA SharersStay ==
  ASSUME TypeOK, TypeOK', NEW s \in Sessions, Kept(s), NEW r \in RoleIds,
         NEW t \in Sessions \ {s}, roleLock[r] = t, sharers[r] = {}
  PROVE  sharers'[r] = {}
<1>1. sharers'[r] \subseteq Sessions /\ roleLock[r] # None
  BY AccountsAssumption DEF TypeOK
<1>2. ASSUME NEW x \in Sessions
      PROVE  x \notin sharers'[r]
  BY <1>1 DEF Kept
<1> QED BY <1>1, <1>2

(* A step that leaves the tables alone.                                    *)
LEMMA QuietStep ==
  ASSUME IInv, NEW s \in Sessions, UNCHANGED tables, TypeOK', Kept(s), SessionOK(s)'
  PROVE  IInv'
<1>1. HoldersHaveRole' /\ VersionsOK'
  BY DEF IInv, HoldersHaveRole, VersionsOK, LiveRole, LiveUser, tables
<1>2. ASSUME NEW t \in Sessions \ {s}
      PROVE  SessionOK(t)'
  <2>1. /\ SessionOK(t) /\ TypeOK /\ UNCHANGED <<roles, users>>
        /\ pc'[t] = pc[t] /\ req'[t] = req[t] /\ work'[t] = work[t] /\ view'[t] = view[t]
    BY DEF IInv, Kept, tables
  <2>2. RoleOK(t)'
    <3>1. pc[t] \in RolePCs \ {"insert_role", "find_role"} => sharers'[req[t].id] = {}
      BY <2>1, SharersStay DEF SessionOK, RoleOK
    <3> QED BY <2>1, <3>1 DEF SessionOK, RoleOK, Kept, Holders
  <2>3. UserOK(t)'
    BY <2>1 DEF SessionOK, UserOK, Kept, Editing
  <2>4. ShareOK(t)'
    BY <2>1 DEF SessionOK, ShareOK, Kept, LiveRole, TypeOK
  <2>5. ViewOK(t)'
    BY <2>1 DEF SessionOK, ViewOK
  <2> QED BY <2>2, <2>3, <2>4, <2>5 DEF SessionOK
<1> QED BY <1>1, <1>2 DEF IInv

(* COMMIT and ROLLBACK give back what s held, and nothing else.            *)
LEMMA EndKeeps ==
  ASSUME IInv, NEW s \in Sessions, End(s)
  PROVE  /\ Kept(s) /\ view' = view
         /\ pc' = [pc EXCEPT ![s] = "idle"] /\ pc'[s] = "idle"
         /\ work'[s] = NoWork
         /\ \A r \in RoleIds : s \notin sharers'[r]
         /\ roleLock' \in [RoleIds -> Sessions \cup {None}]
         /\ sharers' \in [RoleIds -> SUBSET Sessions]
         /\ userLock' \in [UserIds -> Sessions \cup {None}]
         /\ linkLock' \in [UserIds -> Sessions \cup {None}]
         /\ req' \in [Sessions -> RoleRequests \cup UserRequests \cup {NoRequest}]
         /\ work' \in [Sessions -> Work]
<1>1. NoWork \in Work
  BY DEF NoWork, Work
<1> QED BY <1>1 DEF End, Goto, Kept, IInv, TypeOK, Work

LEMMA IdleOK ==
  ASSUME NEW s \in Sessions, pc'[s] = "idle", work'[s] = NoWork,
         \A r \in RoleIds : s \notin sharers'[r], ViewOK(s)'
  PROVE  SessionOK(s)'
BY DEF SessionOK, RoleOK, UserOK, ShareOK, RolePCs, UserPCs, Editing, NoWork

LEMMA RefuseStep ==
  ASSUME IInv, NEW s \in Sessions, Refuse(s), pc[s] # "read_roles"
  PROVE  IInv'
<1>1. End(s) /\ UNCHANGED <<roles, users>>
  BY DEF Refuse, tables
<1>2. TypeOK'
  BY <1>1, EndKeeps DEF IInv, TypeOK, Work
<1>3. ViewOK(s)'
  BY <1>1, EndKeeps DEF IInv, SessionOK, ViewOK
<1>4. Kept(s) /\ SessionOK(s)'
  BY <1>1, <1>3, EndKeeps, IdleOK
<1> QED BY <1>1, <1>2, <1>4, QuietStep DEF tables

-----------------------------------------------------------------------------
(* Steps that take a request, or go from one label to another with what    *)
(* they have found, without any lock but perhaps the role's or the user's. *)
LEMMA AskStep ==
  ASSUME IInv, NEW s \in Sessions, NEW q \in Asks, NEW label \in RolePCs \cup UserPCs,
         Ask(s, q, label),
         (RoleOK(s) /\ UserOK(s))'
  PROVE  IInv'
<1>1. /\ pc[s] = "idle" /\ req'[s] = q /\ pc' = [pc EXCEPT ![s] = label]
      /\ req' \in [Sessions -> RoleRequests \cup UserRequests \cup {NoRequest}]
      /\ UNCHANGED <<roles, users, roleLock, sharers, userLock, linkLock, work, view>>
  BY AsksAssumption DEF Ask, Goto, IInv, TypeOK, tables, locks
<1>2. TypeOK'
  BY <1>1 DEF IInv, TypeOK
<1>3. Kept(s)
  BY <1>1 DEF Kept, Ask, IInv, TypeOK
<1>4. ShareOK(s)'
  BY <1>1 DEF IInv, SessionOK, ShareOK, LiveRole
<1>5. ViewOK(s)'
  <2>1. label # "read_roles"
    BY DEF RolePCs, UserPCs
  <2> QED BY <1>1, <2>1 DEF IInv, SessionOK, ViewOK, TypeOK
<1> QED BY <1>1, <1>2, <1>3, <1>4, <1>5, QuietStep DEF SessionOK, tables

LEMMA FirstSteps ==
  ASSUME IInv, NEW s \in Sessions, NEW q \in Asks,
         BeginRole(s, q) \/ BeginUpdate(s, q) \/ BeginCreate(s, q) \/ BeginDelete(s, q)
  PROVE  IInv'
<1>1. TypeOK /\ (q \in RoleRequests \/ q \in UserRequests)
  BY AsksAssumption DEF IInv
<1>2. q \in RoleRequests <=> q.op \in RoleOps
  BY <1>1 DEF RoleRequests, UserRequests, RoleOps, UserOps
<1>3. q \in UserRequests <=> q.op \in UserOps
  BY <1>1 DEF RoleRequests, UserRequests, RoleOps, UserOps
<1>4. CASE BeginRole(s, q)
  <2>1. PICK label \in {"insert_role", "find_role"} :
          Ask(s, q, label) /\ (label = "find_role" => q.op \in {"role.update", "role.delete"})
    BY <1>4 DEF BeginRole, RoleOps
  <2>2. pc'[s] = label /\ req'[s] = q
    BY <1>1, <2>1 DEF Ask, Goto, TypeOK
  <2>3. RoleOK(s)'
    BY <1>2, <1>4, <2>1, <2>2, AsksAssumption DEF BeginRole, RoleOK, RolePCs
  <2>4. UserOK(s)'
    BY <2>2 DEF UserOK, UserPCs, Editing
  <2>5. label \in RolePCs
    BY DEF RolePCs
  <2> QED BY <2>1, <2>3, <2>4, <2>5, AskStep
<1>5. CASE BeginUpdate(s, q)
  <2>1. PICK label \in {"check_email", "write_user"} : Ask(s, q, label)
    BY <1>5 DEF BeginUpdate
  <2>2. pc'[s] = label /\ req'[s] = q /\ view' = view
    BY <1>1, <2>1 DEF Ask, Goto, TypeOK
  <2>3. RoleOK(s)'
    BY <2>2 DEF RoleOK, RolePCs
  <2>4. UserOK(s)'
    BY <1>3, <1>5, <2>2, AsksAssumption DEF BeginUpdate, UserOK, UserPCs, UserOps, Editing
  <2>5. label \in UserPCs
    BY DEF UserPCs
  <2> QED BY <2>1, <2>3, <2>4, <2>5, AskStep
<1>6. CASE BeginCreate(s, q)
  <2>1. Ask(s, q, "check_email")
    BY <1>6 DEF BeginCreate
  <2>2. pc'[s] = "check_email" /\ req'[s] = q
    BY <1>1, <2>1 DEF Ask, Goto, TypeOK
  <2>3. RoleOK(s)'
    BY <2>2 DEF RoleOK, RolePCs
  <2>4. UserOK(s)'
    BY <1>3, <1>6, <2>2 DEF BeginCreate, UserOK, UserPCs, UserOps, Editing
  <2>5. "check_email" \in UserPCs
    BY DEF UserPCs
  <2> QED BY <2>1, <2>3, <2>4, <2>5, AskStep
<1>7. CASE BeginDelete(s, q)
  <2>1. Ask(s, q, "protect")
    BY <1>7 DEF BeginDelete
  <2>2. pc'[s] = "protect" /\ req'[s] = q
    BY <1>1, <2>1 DEF Ask, Goto, TypeOK
  <2>3. RoleOK(s)'
    BY <2>2 DEF RoleOK, RolePCs
  <2>4. UserOK(s)'
    BY <1>3, <1>7, <2>2, AsksAssumption DEF BeginDelete, UserOK, UserPCs, UserOps, Editing
  <2>5. "protect" \in UserPCs
    BY DEF UserPCs
  <2> QED BY <2>1, <2>3, <2>4, <2>5, AskStep
<1> QED BY <1>4, <1>5, <1>6, <1>7

(* GetByID, and GetRoleNames after it.                                     *)
LEMMA ViewSteps ==
  ASSUME IInv, NEW s \in Sessions, ReadRoles(s) \/ \E u \in UserIds : ReadUser(s, u)
  PROVE  IInv'
<1>1. TypeOK /\ SessionOK(s) /\ VersionsOK
  BY DEF IInv
<1>2. ASSUME NEW v \in [user : UserIds \cup {None}, version : 0..MaxVersion,
                        roles : SUBSET RoleIds],
             NEW label \in {"idle", "read_roles"}, Goto(s, label),
             pc[s] \in {"idle", "read_roles"},
             view' = [view EXCEPT ![s] = v],
             UNCHANGED <<tables, locks, req, work>>, ViewOK(s)'
      PROVE  IInv'
  <2>1. /\ pc' = [pc EXCEPT ![s] = label]
        /\ UNCHANGED <<roles, users, roleLock, sharers, userLock, linkLock, req, work>>
    BY <1>2 DEF Goto, tables, locks
  <2>2. TypeOK'
    BY <1>1, <1>2, <2>1 DEF TypeOK
  <2>3. Kept(s)
    BY <1>1, <1>2, <2>1 DEF Kept, TypeOK
  <2>4. pc'[s] = label
    BY <1>1, <2>1 DEF TypeOK
  <2>5. RoleOK(s)' /\ UserOK(s)' /\ ShareOK(s)'
    BY <1>1, <1>2, <2>1, <2>4
    DEF SessionOK, RoleOK, UserOK, ShareOK, RolePCs, UserPCs, Editing, LiveRole
  <2> QED BY <1>2, <2>2, <2>3, <2>5, QuietStep DEF SessionOK
<1>3. ASSUME NEW u \in UserIds, ReadUser(s, u)
      PROVE  IInv'
  <2> DEFINE v == [user |-> u, version |-> users[u].version, roles |-> {}]
  <2>1. v \in [user : UserIds \cup {None}, version : 0..MaxVersion, roles : SUBSET RoleIds]
    BY <1>1, <1>3, AccountsAssumption DEF ReadUser, VersionsOK, TypeOK
  <2>2. /\ Goto(s, "read_roles") /\ pc[s] = "idle" /\ view' = [view EXCEPT ![s] = v]
        /\ UNCHANGED <<tables, locks, req, work>>
    BY <1>3 DEF ReadUser
  <2>3. view'[s] = v /\ pc'[s] = "read_roles" /\ users' = users
    BY <1>1, <2>2 DEF TypeOK, Goto, tables
  <2>4. ViewOK(s)'
    BY <1>1, <2>3, AccountsAssumption DEF ViewOK, TypeOK
  <2> QED BY <1>2, <2>1, <2>2, <2>4
<1>4. CASE ReadRoles(s)
  <2>1. view[s].user \in UserIds /\ pc[s] = "read_roles"
    BY <1>1, <1>4 DEF ReadRoles, SessionOK, ViewOK
  <2>2. PICK v \in [user : UserIds \cup {None}, version : 0..MaxVersion,
                    roles : SUBSET RoleIds] :
          /\ view' = [view EXCEPT ![s] = v]
          /\ v = NoView \/ /\ v.user = view[s].user /\ v.version = view[s].version
                           /\ v.roles = users[v.user].roles
    <3>1. CASE view' = [view EXCEPT ![s] = NoView]
      <4>1. NoView \in [user : UserIds \cup {None}, version : 0..MaxVersion,
                        roles : SUBSET RoleIds]
        BY AccountsAssumption DEF NoView
      <4> QED BY <3>1, <4>1
    <3>2. CASE view' = [view EXCEPT ![s].roles = users[view[s].user].roles]
      <4> DEFINE v == [user |-> view[s].user, version |-> view[s].version,
                       roles |-> users[view[s].user].roles]
      <4>1. v \in [user : UserIds \cup {None}, version : 0..MaxVersion,
                   roles : SUBSET RoleIds]
        BY <1>1, <2>1 DEF TypeOK
      <4>2. v = [view[s] EXCEPT !.roles = users[view[s].user].roles]
        BY <1>1 DEF TypeOK
      <4>3. view' = [view EXCEPT ![s] = v]
        BY <3>2, <4>2
      <4> QED BY <4>1, <4>3
    <3> QED BY <1>4, <3>1, <3>2 DEF ReadRoles
  <2>3. Goto(s, "idle") /\ UNCHANGED <<tables, locks, req, work>>
    BY <1>4 DEF ReadRoles
  <2>4. view'[s] = v /\ pc'[s] = "idle" /\ users' = users
    BY <1>1, <2>2, <2>3 DEF TypeOK, Goto, tables
  <2>5. ViewOK(s)'
    BY <1>1, <2>1, <2>2, <2>4, AccountsAssumption DEF SessionOK, ViewOK, NoView
  <2> QED BY <1>2, <2>1, <2>2, <2>3, <2>5
<1> QED BY <1>3, <1>4

-----------------------------------------------------------------------------
Labels == RolePCs \cup UserPCs \cup {"refused"}
Sharing == {"lookup", "assign", "commit_user", "leaked_create", "refused"}

LEMMA MoveStep ==
  ASSUME IInv, NEW s \in Sessions, NEW label \in Labels, Goto(s, label),
         pc[s] \in Labels, pc[s] \in Sharing => label \in Sharing,
         NEW w \in Work, work' = [work EXCEPT ![s] = w], w.got = work[s].got,
         UNCHANGED <<tables, locks, req, view>>,
         RoleOK(s)', UserOK(s)'
  PROVE  IInv'
<1>1. /\ TypeOK /\ ShareOK(s) /\ ViewOK(s) /\ pc' = [pc EXCEPT ![s] = label]
      /\ UNCHANGED <<roles, users, roleLock, sharers, userLock, linkLock, req, view>>
  BY DEF IInv, SessionOK, Goto, tables, locks
<1>2. TypeOK'
  BY <1>1 DEF TypeOK, Work, Labels
<1>3. Kept(s) /\ pc'[s] = label /\ work'[s] = w
  BY <1>1 DEF Kept, TypeOK
<1>4. ShareOK(s)'
  BY <1>1, <1>3 DEF ShareOK, LiveRole, Sharing
<1>5. ViewOK(s)'
  <2>1. pc[s] # "read_roles" /\ label # "read_roles"
    BY DEF Labels, RolePCs, UserPCs
  <2> QED BY <1>1, <1>3, <2>1 DEF ViewOK
<1> QED BY <1>2, <1>3, <1>4, <1>5, QuietStep DEF SessionOK

(* Statements on a role that only read, or enter the index.                *)
LEMMA RoleReads ==
  ASSUME IInv, NEW s \in Sessions,
         EnterName(s) \/ ReplacePermissions(s) \/ CountHolders(s)
  PROVE  IInv'
<1>1. TypeOK /\ RoleOK(s) /\ UserOK(s) /\ work[s] \in Work
  BY DEF IInv, SessionOK, TypeOK, Work
<1>2. CASE ReplacePermissions(s)
  <2> DEFINE w == [todo |-> work[s].todo, role |-> work[s].role, got |-> work[s].got,
                   dropped |-> roles[req[s].id].perms]
  <2>1. pc[s] = "permissions" /\ req[s].id \in RoleIds
    BY <1>1, <1>2 DEF ReplacePermissions, RoleOK, RolePCs
  <2>2. w \in Work
    <3>1. roles[req[s].id].perms \subseteq Permissions
      BY <1>1, <2>1 DEF TypeOK
    <3> QED BY <1>1, <3>1 DEF Work
  <2>9. w = [work[s] EXCEPT !.dropped = roles[req[s].id].perms]
    BY <1>1 DEF Work
  <2>3. work' = [work EXCEPT ![s] = w]
    BY <1>2, <2>9 DEF ReplacePermissions
  <2>4. Goto(s, "commit_role") /\ UNCHANGED <<tables, locks, req, view>>
    BY <1>2 DEF ReplacePermissions
  <2>5. /\ pc'[s] = "commit_role" /\ work'[s] = w
        /\ UNCHANGED <<roles, users, roleLock, sharers, req>>
    BY <1>1, <2>3, <2>4 DEF Goto, TypeOK, tables, locks
  <2>6. RoleOK(s)'
    BY <1>1, <2>1, <2>5 DEF RoleOK, RolePCs
  <2>7. UserOK(s)'
    BY <2>5 DEF UserOK, UserPCs, Editing
  <2>8. "commit_role" \in Labels /\ pc[s] \in Labels /\ pc[s] \notin Sharing
    BY <2>1 DEF Labels, RolePCs, Sharing
  <2> QED BY <2>2, <2>3, <2>4, <2>6, <2>7, <2>8, MoveStep
<1>3. CASE EnterName(s) \/ CountHolders(s)
  <2>1. PICK label \in {"refused", "permissions", "remove_role"} :
          /\ Goto(s, label) /\ UNCHANGED <<tables, locks, req, work, view>>
          /\ pc[s] \in {"role_name", "count"}
          /\ label = "permissions" => pc[s] = "role_name"
          /\ label = "remove_role" => pc[s] = "count" /\ Holders(req[s].id) = {}
    BY <1>3 DEF EnterName, CountHolders
  <2>2. /\ pc'[s] = label
        /\ UNCHANGED <<roles, users, roleLock, sharers, req, work>>
    BY <1>1, <2>1 DEF Goto, TypeOK, tables, locks
  <2>3. work' = [work EXCEPT ![s] = work[s]]
    BY <1>1, <2>2 DEF TypeOK
  <2>4. RoleOK(s)'
    BY <1>1, <2>1, <2>2 DEF RoleOK, RolePCs, Holders
  <2>5. UserOK(s)'
    BY <2>2 DEF UserOK, UserPCs, Editing
  <2>6. label \in Labels /\ pc[s] \in Labels /\ pc[s] \notin Sharing
    BY <2>1 DEF Labels, RolePCs, Sharing
  <2> QED BY <1>1, <2>1, <2>3, <2>4, <2>5, <2>6, MoveStep
<1> QED BY <1>2, <1>3

(* Statements on a user that only read, or enter the index.                *)
LEMMA UserReads ==
  ASSUME IInv, NEW s \in Sessions,
         CheckEmail(s) \/ EnterEmail(s) \/ RolesDone(s) \/ CheckProtected(s)
           \/ RemoveMissed(s) \/ \E n \in Names : LookUpRole(s, n)
  PROVE  IInv'
<1>1. TypeOK /\ RoleOK(s) /\ UserOK(s) /\ work[s] \in Work
  BY DEF IInv, SessionOK, TypeOK, Work
<1>2. work' = work => work' = [work EXCEPT ![s] = work[s]]
  BY <1>1 DEF TypeOK
<1>3. ASSUME NEW label \in {"refused", "leaked_create", "leaked_delete"},
             Goto(s, label), pc[s] \in UserPCs,
             pc[s] \in Sharing => label \in Sharing,
             UNCHANGED <<tables, locks, req, work, view>>
      PROVE  IInv'
  <2>1. /\ pc'[s] = label /\ UNCHANGED req
    BY <1>1, <1>3 DEF Goto, TypeOK
  <2>2. RoleOK(s)'
    BY <2>1 DEF RoleOK, RolePCs
  <2>3. UserOK(s)'
    BY <1>1, <1>3, <2>1 DEF UserOK, UserPCs, Editing
  <2>4. label \in Labels /\ pc[s] \in Labels
    BY <1>3 DEF Labels, UserPCs
  <2> QED BY <1>1, <1>2, <1>3, <2>2, <2>3, <2>4, MoveStep
<1>4. CASE CheckEmail(s) \/ CheckProtected(s)
  <2>1. PICK label \in {"refused", "insert_user", "write_user", "drop"} :
          /\ Goto(s, label) /\ UNCHANGED <<tables, locks, req, work, view>>
          /\ pc[s] \in {"check_email", "protect"}
          /\ label = "drop" => pc[s] = "protect"
          /\ label = "insert_user" => pc[s] = "check_email" /\ req[s].op = "user.create"
          /\ label = "write_user" => pc[s] = "check_email" /\ req[s].op # "user.create"
    BY <1>4 DEF CheckEmail, CheckProtected, AfterCheck
  <2>2. pc'[s] = label /\ UNCHANGED <<roles, users, req, work, userLock, view>>
    BY <1>1, <2>1 DEF Goto, TypeOK, tables, locks
  <2>3. RoleOK(s)'
    BY <2>2 DEF RoleOK, RolePCs
  <2>4. UserOK(s)'
    BY <1>1, <2>1, <2>2 DEF UserOK, UserPCs, Editing, UserRequests, UserOps
  <2>5. label \in Labels /\ pc[s] \in Labels /\ pc[s] \notin Sharing
    BY <2>1 DEF Labels, UserPCs, Sharing
  <2> QED BY <1>1, <1>2, <2>1, <2>3, <2>4, <2>5, MoveStep
<1>5. CASE RemoveMissed(s)
  BY <1>3, <1>5 DEF RemoveMissed, UserPCs, Sharing
<1>6. CASE RolesDone(s)
  <2>1. /\ Goto(s, "commit_user") /\ UNCHANGED <<tables, locks, req, work, view>>
        /\ pc[s] = "lookup"
    BY <1>6 DEF RolesDone
  <2>2. pc'[s] = "commit_user" /\ UNCHANGED <<roles, users, req, work, userLock, view>>
    BY <1>1, <2>1 DEF Goto, TypeOK, tables, locks
  <2>3. RoleOK(s)' 
    BY <2>2 DEF RoleOK, RolePCs
  <2>4. UserOK(s)'
    BY <1>1, <2>1, <2>2 DEF UserOK, UserPCs, Editing
  <2>5. "commit_user" \in Labels /\ pc[s] \in Labels /\ "commit_user" \in Sharing
    BY <2>1 DEF Labels, UserPCs, Sharing
  <2> QED BY <1>1, <1>2, <2>1, <2>3, <2>4, <2>5, MoveStep
<1>7. CASE EnterEmail(s)
  <2>1. pc[s] = "email" /\ req[s] \in UserRequests /\ Editing(s)
    BY <1>1, <1>7 DEF EnterEmail, UserOK, UserPCs, Editing
  <2>2. CASE EmailTaken(s)
    BY <1>3, <1>7, <2>1, <2>2 DEF EnterEmail, UserPCs, Sharing
  <2>3. CASE ~EmailTaken(s)
    <3> DEFINE w == [todo |-> req[s].set, role |-> work[s].role, got |-> work[s].got,
                     dropped |-> work[s].dropped]
               label == IF req[s].op = "user.create" THEN "lookup" ELSE "drop"
    <3>1. w \in Work /\ w = [work[s] EXCEPT !.todo = req[s].set]
      BY <1>1, <2>1 DEF Work, UserRequests
    <3>2. /\ work' = [work EXCEPT ![s] = w] /\ Goto(s, label)
          /\ UNCHANGED <<tables, locks, req, view>>
      BY <1>7, <2>3, <3>1 DEF EnterEmail
    <3>3. /\ pc'[s] = label /\ work'[s] = w
          /\ UNCHANGED <<roles, users, req, userLock, view>>
      BY <1>1, <3>2 DEF Goto, TypeOK, tables, locks
    <3>4. RoleOK(s)'
      BY <3>3 DEF RoleOK, RolePCs
    <3>5. UserOK(s)'
      BY <1>1, <2>1, <3>3 DEF UserOK, UserPCs, Editing
    <3>6. label \in Labels /\ pc[s] \in Labels /\ pc[s] \notin Sharing
      BY <2>1 DEF Labels, UserPCs, Sharing
    <3> QED BY <3>1, <3>2, <3>4, <3>5, <3>6, MoveStep
  <2> QED BY <2>2, <2>3
<1>8. ASSUME NEW n \in Names, LookUpRole(s, n)
      PROVE  IInv'
  <2>1. pc[s] = "lookup" /\ UNCHANGED <<tables, locks, req, view>>
    BY <1>8 DEF LookUpRole
  <2>2. CASE Goto(s, Failed(s)) /\ UNCHANGED work
    BY <1>3, <2>1, <2>2 DEF Failed, UserPCs, Sharing
  <2>3. ASSUME NEW r \in RoleIds, Goto(s, "assign"),
               work' = [work EXCEPT ![s].role = r, ![s].todo = @ \ {n}]
        PROVE  IInv'
    <3> DEFINE w == [work[s] EXCEPT !.role = r, !.todo = @ \ {n}]
    <3>1. /\ w \in Work /\ w.role = r
          /\ w.got = work[s].got /\ w.dropped = work[s].dropped
      BY <1>1 DEF Work
    <3>2. work' = [work EXCEPT ![s] = w]
      BY <2>3
    <3> HIDE DEF w
    <3>3. /\ pc'[s] = "assign" /\ work'[s] = w
          /\ UNCHANGED <<roles, users, req, userLock, view>>
      BY <1>1, <2>1, <2>3, <3>2 DEF Goto, TypeOK, tables, locks
    <3>4. RoleOK(s)'
      BY <3>3 DEF RoleOK, RolePCs
    <3>5. UserOK(s)'
      BY <1>1, <2>1, <3>1, <3>3 DEF UserOK, UserPCs, Editing
    <3>6. "assign" \in Labels /\ pc[s] \in Labels /\ "assign" \in Sharing
      BY <2>1 DEF Labels, UserPCs, Sharing
    <3> QED BY <2>1, <2>3, <3>1, <3>2, <3>4, <3>5, <3>6, MoveStep
  <2> QED BY <1>8, <2>2, <2>3 DEF LookUpRole
<1> QED BY <1>4, <1>5, <1>6, <1>7, <1>8

-----------------------------------------------------------------------------
(* Statements that lock a row.                                             *)
LEMMA RoleLocked ==
  ASSUME IInv, NEW s \in Sessions, NEW r \in RoleIds, LockRole(s, r),
         NEW q \in RoleRequests, q.id = r, req' = [req EXCEPT ![s] = q],
         NEW label \in {"refused", "write_role", "role_name", "count", "commit_removal"},
         Goto(s, label), pc[s] \in RolePCs,
         label = "commit_removal" => Holders(r) = {},
         UNCHANGED <<tables, work, view>>
  PROVE  IInv'
<1>1. /\ TypeOK /\ ShareOK(s) /\ ViewOK(s) /\ pc' = [pc EXCEPT ![s] = label]
      /\ UNCHANGED <<roles, users, sharers, userLock, linkLock, work, view>>
      /\ roleLock' = [roleLock EXCEPT ![r] = s] /\ roleLock[r] \in {s, None}
  BY DEF IInv, SessionOK, Goto, tables, LockRole
<1>2. s \notin sharers[r]
  BY <1>1 DEF ShareOK, RolePCs
<1>3. sharers[r] = {}
  BY <1>1, <1>2 DEF LockRole, TypeOK
<1>4. TypeOK'
  BY <1>1 DEF TypeOK, RolePCs
<1>5. /\ pc'[s] = label /\ req'[s] = q /\ work'[s] = work[s] /\ view'[s] = view[s]
      /\ roleLock'[r] = s
  BY <1>1 DEF TypeOK
<1>6. Kept(s)
  BY <1>1, AccountsAssumption DEF Kept, TypeOK
<1>7. RoleOK(s)'
  BY <1>1, <1>3, <1>5 DEF RoleOK, RolePCs, Holders
<1>8. UserOK(s)'
  BY <1>5 DEF UserOK, UserPCs, Editing
<1>9. ShareOK(s)' /\ ViewOK(s)'
  BY <1>1, <1>5 DEF ShareOK, ViewOK, LiveRole, RolePCs
<1> QED BY <1>1, <1>4, <1>6, <1>7, <1>8, <1>9, QuietStep DEF SessionOK, tables

LEMMA RoleLocks ==
  ASSUME IInv, NEW s \in Sessions,
         FindForUpdate(s) \/ WriteRole(s) \/ RemoveRole(s)
           \/ \E r \in RoleIds : InsertRole(s, r)
  PROVE  IInv'
<1>1. TypeOK /\ RoleOK(s)
  BY DEF IInv, SessionOK
<1>2. CASE FindForUpdate(s) \/ WriteRole(s) \/ RemoveRole(s)
  <2>1. PICK label \in {"refused", "write_role", "role_name", "count", "commit_removal"} :
          /\ pc[s] \in {"find_role", "write_role", "remove_role"}
          /\ Goto(s, label) /\ LockRole(s, req[s].id) /\ UNCHANGED <<tables, req, work, view>>
          /\ label = "commit_removal" => pc[s] = "remove_role"
    BY <1>2 DEF FindForUpdate, WriteRole, RemoveRole, AfterFound
  <2>2. /\ req[s] \in RoleRequests /\ req[s].id \in RoleIds /\ pc[s] \in RolePCs
        /\ label = "commit_removal" => Holders(req[s].id) = {}
    BY <1>1, <2>1 DEF RoleOK, RolePCs
  <2>3. req' = [req EXCEPT ![s] = req[s]]
    BY <1>1, <2>1 DEF TypeOK
  <2> QED BY <2>1, <2>2, <2>3, RoleLocked
<1>3. ASSUME NEW r \in RoleIds, InsertRole(s, r)
      PROVE  IInv'
  <2> DEFINE q == [req[s] EXCEPT !.id = r]
  <2>1. pc[s] = "insert_role" /\ req[s] \in RoleRequests /\ pc[s] \in RolePCs
    BY <1>1, <1>3 DEF InsertRole, RoleOK, RolePCs
  <2>2. q \in RoleRequests /\ q.id = r
    BY <2>1 DEF RoleRequests
  <2>3. /\ req' = [req EXCEPT ![s] = q] /\ LockRole(s, r) /\ Goto(s, "role_name")
        /\ UNCHANGED <<tables, work, view>>
    BY <1>3 DEF InsertRole
  <2> QED BY <2>1, <2>2, <2>3, RoleLocked
<1> QED BY <1>2, <1>3

LEMMA UserLocks ==
  ASSUME IInv, NEW s \in Sessions,
         WriteUser(s) \/ RemoveUser(s) \/ \E u \in UserIds : InsertUser(s, u)
  PROVE  IInv'
<1>1. TypeOK /\ UserOK(s) /\ ShareOK(s) /\ ViewOK(s) /\ VersionsOK
  BY DEF IInv, SessionOK
<1>2. ASSUME NEW u \in UserIds, LockUser(s, u),
             NEW q \in UserRequests, q.id = u, req' = [req EXCEPT ![s] = q],
             NEW label \in {"email", "cascade"}, Goto(s, label),
             pc[s] \in {"write_user", "insert_user", "remove_user"},
             UNCHANGED <<tables, roleLock, sharers, linkLock, work, view>>,
             label = "email" =>
               /\ users[u].version < MaxVersion
               /\ q.op \in {"user.create", "user.update"}
               /\ q.op = "user.update" =>
                    u = view[s].user /\ users[u].version = view[s].version
               /\ q.op = "user.create" => users[u].roles = {},
             label = "cascade" => users[u].version <= MaxVersion
      PROVE  IInv'
  <2>1. /\ pc' = [pc EXCEPT ![s] = label] /\ userLock' = [userLock EXCEPT ![u] = s]
        /\ userLock[u] \in {s, None}
        /\ UNCHANGED <<roles, users, roleLock, sharers, linkLock, work, view>>
    BY <1>2 DEF Goto, tables, LockUser
  <2>2. TypeOK'
    BY <1>1, <1>2, <2>1 DEF TypeOK, UserPCs
  <2>3. pc'[s] = label /\ req'[s] = q /\ userLock'[u] = s
    BY <1>1, <1>2, <2>1 DEF TypeOK
  <2>4. Kept(s)
    BY <1>1, <1>2, <2>1, AccountsAssumption DEF Kept, TypeOK
  <2>5. RoleOK(s)'
    BY <1>2, <2>3 DEF RoleOK, RolePCs
  <2>6. UserOK(s)'
    BY <1>2, <2>1, <2>3 DEF UserOK, UserPCs, Editing
  <2>7. ShareOK(s)' /\ ViewOK(s)'
    BY <1>1, <1>2, <2>1, <2>3 DEF ShareOK, ViewOK, LiveRole
  <2> QED BY <2>1, <2>2, <2>4, <2>5, <2>6, <2>7, QuietStep DEF SessionOK, tables
<1>3. CASE WriteUser(s) \/ RemoveUser(s)
  <2>1. PICK label \in {"email", "cascade"} :
          /\ pc[s] \in {"write_user", "remove_user"}
          /\ Goto(s, label) /\ LockUser(s, req[s].id)
          /\ label = "email" => pc[s] = "write_user" /\ Matches(s)
          /\ label = "cascade" => pc[s] = "remove_user" /\ LiveUser(req[s].id)
          /\ UNCHANGED <<tables, roleLock, sharers, linkLock, req, work, view>>
    BY <1>3 DEF WriteUser, RemoveUser
  <2>2. /\ req[s] \in UserRequests /\ req[s].id \in UserIds
        /\ label = "email" =>
             /\ req[s].op = "user.update" /\ req[s].id = view[s].user
             /\ users[req[s].id].version = view[s].version
             /\ users[req[s].id].version < MaxVersion
        /\ label = "cascade" => users[req[s].id].version <= MaxVersion
    BY <1>1, <2>1 DEF UserOK, UserPCs, Matches, VersionsOK
  <2>3. req' = [req EXCEPT ![s] = req[s]]
    BY <1>1, <2>1 DEF TypeOK
  <2> QED BY <1>2, <2>1, <2>2, <2>3
<1>4. ASSUME NEW u \in UserIds, InsertUser(s, u)
      PROVE  IInv'
  <2> DEFINE q == [req[s] EXCEPT !.id = u]
  <2>1. /\ pc[s] = "insert_user" /\ req[s] \in UserRequests /\ req[s].op = "user.create"
        /\ users[u] = UnusedUser
    BY <1>1, <1>4 DEF InsertUser, UserOK, UserPCs
  <2>2. q \in UserRequests /\ q.id = u /\ q.op = "user.create"
    BY <2>1 DEF UserRequests
  <2>3. users[u].version < MaxVersion /\ users[u].roles = {}
    BY <2>1, AccountsAssumption DEF UnusedUser, UserRow
  <2>4. /\ req' = [req EXCEPT ![s] = q] /\ LockUser(s, u) /\ Goto(s, "email")
        /\ UNCHANGED <<tables, roleLock, sharers, linkLock, work, view>>
    BY <1>4 DEF InsertUser
  <2> QED BY <1>2, <2>1, <2>2, <2>3, <2>4
<1> QED BY <1>3, <1>4

(* Rows of user_roles: to remove them, and to add one.                     *)
LEMMA LinkSteps ==
  ASSUME IInv, NEW s \in Sessions, DropRoles(s) \/ CascadeRoles(s)
  PROVE  IInv'
<1>1. TypeOK /\ UserOK(s) /\ ShareOK(s) /\ ViewOK(s) /\ work[s] \in Work
  BY DEF IInv, SessionOK, TypeOK, Work
<1>2. ASSUME NEW w \in Work, w.got = work[s].got, work' = [work EXCEPT ![s] = w],
             NEW label \in {"remove_user", "lookup", "commit_deletion"},
             Goto(s, label), pc[s] \in {"drop", "cascade"}, req[s].id \in UserIds,
             LockLinks(s, req[s].id), UserOK(s)',
             UNCHANGED <<tables, roleLock, sharers, userLock, req, view>>
      PROVE  IInv'
  <2>1. /\ pc' = [pc EXCEPT ![s] = label]
        /\ linkLock' \in [UserIds -> Sessions \cup {None}]
        /\ UNCHANGED <<roles, users, roleLock, sharers, userLock, req, view>>
    BY <1>1, <1>2 DEF Goto, tables, LockLinks, TypeOK
  <2>2. TypeOK'
    BY <1>1, <1>2, <2>1 DEF TypeOK, UserPCs, Work
  <2>3. pc'[s] = label /\ work'[s] = w
    BY <1>1, <1>2, <2>1 DEF TypeOK
  <2>4. Kept(s)
    BY <1>1, <1>2, <2>1 DEF Kept, TypeOK
  <2>5. RoleOK(s)'
    BY <2>3 DEF RoleOK, RolePCs
  <2>6. ShareOK(s)' /\ ViewOK(s)'
    BY <1>1, <1>2, <2>1, <2>3 DEF ShareOK, ViewOK, LiveRole
  <2> QED BY <1>2, <2>1, <2>2, <2>4, <2>5, <2>6, QuietStep DEF SessionOK, tables
<1>3. CASE DropRoles(s)
  <2> DEFINE w == [todo |-> work[s].todo, role |-> work[s].role, got |-> work[s].got,
                   dropped |-> users[req[s].id].roles]
             label == IF req[s].op = "user.delete" THEN "remove_user" ELSE "lookup"
  <2>1. /\ pc[s] = "drop" /\ req[s].id \in UserIds
        /\ req[s].op \in {"user.update", "user.delete"}
    BY <1>1, <1>3 DEF DropRoles, UserOK
  <2>2. w \in Work
    <3>1. users[req[s].id].roles \subseteq RoleIds
      BY <1>1, <2>1 DEF TypeOK
    <3> QED BY <1>1, <3>1 DEF Work
  <2>3. w = [work[s] EXCEPT !.dropped = users[req[s].id].roles]
    BY <1>1 DEF Work
  <2>4. /\ work' = [work EXCEPT ![s] = w] /\ Goto(s, label)
        /\ LockLinks(s, req[s].id)
        /\ UNCHANGED <<tables, roleLock, sharers, userLock, req, view>>
    BY <1>3, <2>3 DEF DropRoles
  <2>5. /\ pc'[s] = label /\ work'[s] = w
        /\ UNCHANGED <<roles, users, req, userLock, view>>
    BY <1>1, <2>4 DEF Goto, TypeOK, tables
  <2>6. UserOK(s)'
    BY <1>1, <2>1, <2>5 DEF UserOK, UserPCs, Editing
  <2> QED BY <1>2, <2>1, <2>2, <2>4, <2>6
<1>4. CASE CascadeRoles(s)
  <2>1. /\ pc[s] = "cascade" /\ Goto(s, "commit_deletion")
        /\ LockLinks(s, req[s].id)
        /\ UNCHANGED <<tables, roleLock, sharers, userLock, req, work, view>>
    BY <1>4 DEF CascadeRoles
  <2>2. req[s] \in UserRequests /\ req[s].id \in UserIds /\ userLock[req[s].id] = s
    BY <1>1, <2>1 DEF UserOK, UserPCs
  <2>3. pc'[s] = "commit_deletion" /\ work' = [work EXCEPT ![s] = work[s]]
    BY <1>1, <2>1 DEF Goto, TypeOK
  <2>4. UserOK(s)'
    BY <1>1, <2>1, <2>2, <2>3 DEF UserOK, UserPCs, Editing, tables
  <2> QED BY <1>1, <1>2, <2>1, <2>2, <2>3, <2>4
<1> QED BY <1>3, <1>4

LEMMA ShareStep == ASSUME IInv, NEW s \in Sessions, AddRole(s) PROVE IInv'
<1> DEFINE r == work[s].role
<1>1. TypeOK /\ RoleOK(s) /\ UserOK(s) /\ ShareOK(s) /\ ViewOK(s) /\ work[s] \in Work
  BY DEF IInv, SessionOK, TypeOK, Work
<1>2. pc[s] = "assign" /\ r \in RoleIds /\ roleLock[r] = None /\ req[s] \in UserRequests
  BY <1>1 DEF AddRole, UserOK, UserPCs
<1>3. CASE LiveRole(r)
  <2> DEFINE w == [work[s] EXCEPT !.got = @ \cup {r}, !.role = None]
  <2>1. w \in Work /\ w.got = work[s].got \cup {r} /\ w.dropped = work[s].dropped
    BY <1>1, <1>2 DEF Work
  <2>2. /\ work' = [work EXCEPT ![s] = w] /\ sharers' = [sharers EXCEPT ![r] = @ \cup {s}]
        /\ pc' = [pc EXCEPT ![s] = "lookup"]
        /\ UNCHANGED <<roles, users, roleLock, userLock, linkLock, req, view>>
    BY <1>3 DEF AddRole, Goto, tables
  <2> HIDE DEF w
  <2>3. TypeOK'
    BY <1>1, <1>2, <2>1, <2>2 DEF TypeOK, Work, UserPCs
  <2>4. pc'[s] = "lookup" /\ work'[s] = w
    BY <1>1, <2>2 DEF TypeOK
  <2>5. Kept(s)
    BY <1>1, <1>2, <2>2 DEF Kept, TypeOK
  <2>6. RoleOK(s)'
    BY <2>4 DEF RoleOK, RolePCs
  <2>7. UserOK(s)'
    BY <1>1, <1>2, <2>1, <2>2, <2>4 DEF UserOK, UserPCs, Editing
  <2>8. ShareOK(s)'
    BY <1>1, <1>2, <1>3, <2>1, <2>2, <2>4 DEF ShareOK, LiveRole, TypeOK, Work
  <2>9. ViewOK(s)'
    BY <1>1, <1>2, <2>2, <2>4 DEF ViewOK
  <2> QED BY <2>2, <2>3, <2>5, <2>6, <2>7, <2>8, <2>9, QuietStep DEF SessionOK, tables
<1>4. CASE ~LiveRole(r)
  <2>1. /\ Goto(s, Failed(s)) /\ UNCHANGED <<tables, locks, req, view>>
        /\ work' = [work EXCEPT ![s] = work[s]] /\ UNCHANGED work
    BY <1>1, <1>4 DEF AddRole, locks, TypeOK
  <2>2. /\ Failed(s) \in Labels \cap Sharing /\ pc[s] \in Labels
        /\ Failed(s) \in {"refused", "leaked_create"}
    BY <1>2 DEF Failed, Labels, Sharing, UserPCs
  <2>3. pc'[s] = Failed(s) /\ UNCHANGED req
    BY <1>1, <2>1 DEF Goto, TypeOK
  <2>4. RoleOK(s)'
    BY <2>2, <2>3 DEF RoleOK, RolePCs
  <2>5. UserOK(s)'
    BY <1>2, <2>2, <2>3 DEF UserOK, UserPCs, Editing
  <2> QED BY <1>1, <2>1, <2>2, <2>4, <2>5, MoveStep
<1> QED BY <1>3, <1>4

-----------------------------------------------------------------------------
(* COMMIT: what it may change of a table while others hold rows of it.     *)
LEMMA CommitStep ==
  ASSUME IInv, NEW s \in Sessions, End(s), pc[s] # "read_roles",
         roles' \in [RoleIds -> [state : {"unused", "live", "deleted"},
                                 name : Names \cup {None}, perms : SUBSET Permissions]],
         users' \in [UserIds -> [version : 0..MaxVersion + 1,
                                 email : Emails \cup {None}, roles : SUBSET RoleIds]],
         HoldersHaveRole', VersionsOK',
         \A t \in Sessions \ {s} : \A r \in RoleIds :
           /\ t \in sharers[r] /\ LiveRole(r) => LiveRole(r)'
           /\ roleLock[r] = t =>
                /\ roles'[r] = roles[r]
                /\ sharers[r] = {} /\ Holders(r) = {} => Holders(r)' = {},
         \A t \in Sessions \ {s} : \A u \in UserIds :
           userLock[u] = t => users'[u] = users[u],
         \A u \in UserIds : users'[u] = users[u] \/ users'[u].version > users[u].version
  PROVE  IInv'
<1>1. /\ TypeOK /\ Kept(s) /\ view' = view /\ pc' = [pc EXCEPT ![s] = "idle"]
      /\ pc'[s] = "idle" /\ work'[s] = NoWork /\ \A r \in RoleIds : s \notin sharers'[r]
  BY EndKeeps DEF IInv
<1>2. TypeOK'
  BY <1>1, EndKeeps DEF TypeOK, Work
<1>3. ASSUME NEW t \in Sessions, ViewOK(t), pc[t] # "read_roles", pc'[t] # "read_roles"
      PROVE  ViewOK(t)'
  <2> DEFINE u == view[t].user
  <2>1. SUFFICES ASSUME u \in UserIds
                 PROVE  /\ view[t].version <= users'[u].version
                        /\ users'[u].version = view[t].version =>
                             view[t].roles = users'[u].roles
    BY <1>1, <1>3 DEF ViewOK
  <2>2. /\ view[t].version \in Nat /\ users[u].version \in Nat /\ users'[u].version \in Nat
        /\ view[t].version <= users[u].version
        /\ users[u].version = view[t].version => view[t].roles = users[u].roles
    BY <1>1, <1>2, <1>3, <2>1 DEF ViewOK, TypeOK
  <2>3. CASE users'[u] = users[u]
    BY <2>2, <2>3
  <2>4. CASE users'[u].version > users[u].version
    BY <2>2, <2>4
  <2> QED BY <2>1, <2>3, <2>4
<1>4. SessionOK(s)'
  <2>1. ViewOK(s)'
    BY <1>1, <1>3 DEF IInv, SessionOK
  <2> QED BY <1>1, <2>1, IdleOK
<1>5. ASSUME NEW t \in Sessions \ {s}
      PROVE  SessionOK(t)'
  <2>1. /\ SessionOK(t)
        /\ pc'[t] = pc[t] /\ req'[t] = req[t] /\ work'[t] = work[t] /\ view'[t] = view[t]
    BY <1>1 DEF IInv, Kept
  <2>2. RoleOK(t)'
    <3>1. pc[t] \in RolePCs \ {"insert_role", "find_role"} =>
            /\ sharers'[req[t].id] = {} /\ roleLock'[req[t].id] = t
            /\ roles'[req[t].id] = roles[req[t].id]
      BY <1>1, <1>2, <2>1, SharersStay DEF SessionOK, RoleOK, Kept, RolePCs
    <3>2. pc[t] \in {"remove_role", "commit_removal"} => Holders(req[t].id)' = {}
      BY <2>1 DEF SessionOK, RoleOK, RolePCs
    <3> QED BY <2>1, <3>1, <3>2 DEF SessionOK, RoleOK, RolePCs
  <2>3. UserOK(t)'
    BY <1>1, <2>1 DEF SessionOK, UserOK, Kept, Editing
  <2>4. ShareOK(t)'
    <3>1. \A r \in RoleIds : t \in sharers'[r] => t \in sharers[r]
      BY <1>1 DEF Kept
    <3>2. \A r \in work[t].got : t \in sharers'[r]
      BY <1>1, <2>1 DEF SessionOK, ShareOK, Kept, TypeOK
    <3> QED BY <2>1, <3>1, <3>2 DEF SessionOK, ShareOK
  <2>5. ViewOK(t)'
    <3>1. CASE pc[t] = "read_roles"
      BY <1>1, <1>2, <2>1, <3>1 DEF SessionOK, ViewOK, TypeOK
    <3> QED BY <1>3, <2>1, <3>1 DEF SessionOK
  <2> QED BY <2>2, <2>3, <2>4, <2>5 DEF SessionOK
<1> QED BY <1>2, <1>4, <1>5 DEF IInv

LEMMA RoleCommits ==
  ASSUME IInv, NEW s \in Sessions, CommitRole(s) \/ CommitRemoval(s)
  PROVE  IInv'
<1> DEFINE r == req[s].id
<1>1. /\ TypeOK /\ RoleOK(s) /\ HoldersHaveRole /\ VersionsOK
      /\ pc[s] \in {"commit_role", "commit_removal"} /\ End(s)
  BY DEF IInv, SessionOK, CommitRole, CommitRemoval
<1>2. /\ req[s] \in RoleRequests /\ r \in RoleIds /\ roleLock[r] = s /\ sharers[r] = {}
      /\ pc[s] = "commit_removal" => Holders(r) = {}
  BY <1>1 DEF RoleOK, RolePCs
<1>3. users' = users
  <2>1. CASE CommitRemoval(s)
    <3>1. \A u \in UserIds : r \notin users[u].roles
      BY <1>2, <2>1 DEF Holders, CommitRemoval
    <3>2. \A u \in UserIds : [users[u] EXCEPT !.roles = @ \ {r}] = users[u]
      BY <1>1, <3>1 DEF TypeOK
    <3>3. users' = [u \in UserIds |-> [users[u] EXCEPT !.roles = @ \ {r}]]
      BY <2>1 DEF CommitRemoval
    <3>4. users = [u \in UserIds |-> users[u]]
      BY <1>1 DEF TypeOK
    <3> QED BY <3>2, <3>3, <3>4
  <2> QED BY <2>1 DEF CommitRole
<1>4. PICK row \in [state : {"live", "deleted"}, name : Names \cup {None},
                    perms : SUBSET Permissions] :
        /\ roles' = [roles EXCEPT ![r] = row]
        /\ row.state = "deleted" => Holders(r) = {}
  <2>1. CASE CommitRemoval(s)
    BY <1>2, <2>1 DEF CommitRemoval, DeletedRole, RoleRow
  <2>2. CASE CommitRole(s)
    <3> DEFINE row == RoleRow("live", req[s].name,
                              (roles[r].perms \ work[s].dropped) \cup req[s].set)
    <3>1. req[s].set \subseteq Permissions /\ req[s].name \in Names \cup {None}
      BY <1>2 DEF RoleRequests
    <3>2. roles[r].perms \subseteq Permissions
      BY <1>1, <1>2 DEF TypeOK
    <3>3. row \in [state : {"live", "deleted"}, name : Names \cup {None},
                   perms : SUBSET Permissions]
      BY <3>1, <3>2 DEF RoleRow
    <3>4. roles' = [roles EXCEPT ![r] = row] /\ row.state # "deleted"
      BY <2>2 DEF CommitRole, RoleRow
    <3> QED BY <3>3, <3>4
  <2> QED BY <2>1, <2>2
<1>5. \A x \in RoleIds \ {r} : roles'[x] = roles[x]
  BY <1>1, <1>4 DEF TypeOK
<1>6. roles'[r] = row
  BY <1>1, <1>2, <1>4 DEF TypeOK
<1>7. HoldersHaveRole'
  <2>1. \A u \in UserIds : users[u].roles \subseteq RoleIds
    BY <1>1 DEF TypeOK
  <2> QED BY <1>1, <1>2, <1>3, <1>4, <1>5, <1>6, <2>1 DEF HoldersHaveRole, LiveRole, Holders
<1>8. VersionsOK'
  BY <1>1, <1>3 DEF VersionsOK, LiveUser
<1>9. /\ roles' \in [RoleIds -> [state : {"unused", "live", "deleted"},
                                 name : Names \cup {None}, perms : SUBSET Permissions]]
      /\ users' \in [UserIds -> [version : 0..MaxVersion + 1,
                                 email : Emails \cup {None}, roles : SUBSET RoleIds]]
  BY <1>1, <1>3, <1>4 DEF TypeOK
<1>10. ASSUME NEW t \in Sessions \ {s}, NEW x \in RoleIds
       PROVE  /\ t \in sharers[x] /\ LiveRole(x) => LiveRole(x)'
              /\ roleLock[x] = t =>
                   /\ roles'[x] = roles[x]
                   /\ sharers[x] = {} /\ Holders(x) = {} => Holders(x)' = {}
  BY <1>2, <1>3, <1>5 DEF LiveRole, Holders
<1>11. pc[s] # "read_roles" /\ \A u \in UserIds : users'[u] = users[u]
  BY <1>1, <1>3
<1> QED BY <1>1, <1>7, <1>8, <1>9, <1>10, <1>11, CommitStep

LEMMA UserCommits ==
  ASSUME IInv, NEW s \in Sessions, CommitUser(s) \/ CommitDeletion(s)
  PROVE  IInv'
<1> DEFINE u == req[s].id
<1>1. /\ TypeOK /\ UserOK(s) /\ ShareOK(s) /\ HoldersHaveRole /\ VersionsOK
      /\ pc[s] \in {"commit_user", "commit_deletion"} /\ End(s) /\ roles' = roles
  BY DEF IInv, SessionOK, CommitUser, CommitDeletion
<1>2. /\ req[s] \in UserRequests /\ u \in UserIds /\ userLock[u] = s
      /\ pc[s] = "commit_user" => users[u].version < MaxVersion
  BY <1>1 DEF UserOK, UserPCs, Editing
<1>3. PICK row \in [version : 0..MaxVersion + 1, email : Emails \cup {None},
                    roles : SUBSET RoleIds] :
        /\ users' = [users EXCEPT ![u] = row]
        /\ row.version <= MaxVersion \/ row.email = None
        /\ row.version > users[u].version \/ row = users[u]
        /\ row.roles \subseteq users[u].roles \cup work[s].got
  <2>1. CASE CommitUser(s)
    <3> DEFINE row == UserRow(users[u].version + 1, req[s].name,
                              (users[u].roles \ work[s].dropped) \cup work[s].got)
    <3>1. /\ users[u].version \in Nat /\ users[u].version + 1 \in 0..MaxVersion
          /\ users[u].roles \subseteq RoleIds /\ work[s].got \subseteq RoleIds
      BY <1>1, <1>2, <2>1, AccountsAssumption DEF CommitUser, TypeOK
    <3>2. row \in [version : 0..MaxVersion + 1, email : Emails \cup {None},
                   roles : SUBSET RoleIds]
      BY <1>2, <3>1, AccountsAssumption DEF UserRow, UserRequests
    <3>3. users' = [users EXCEPT ![u] = row]
      BY <2>1 DEF CommitUser
    <3>4. /\ row.version <= MaxVersion /\ row.version > users[u].version
          /\ row.roles \subseteq users[u].roles \cup work[s].got
      BY <3>1, AccountsAssumption DEF UserRow
    <3> QED BY <3>2, <3>3, <3>4
  <2>2. CASE CommitDeletion(s)
    <3>1. DeletedUser \in [version : 0..MaxVersion + 1, email : Emails \cup {None},
                           roles : SUBSET RoleIds]
      BY AccountsAssumption DEF DeletedUser, UserRow
    <3>2. users' = [users EXCEPT ![u] = DeletedUser]
      BY <2>2 DEF CommitDeletion
    <3>3. DeletedUser.version = MaxVersion + 1 /\ DeletedUser.email = None
          /\ DeletedUser.roles = {}
      BY DEF DeletedUser, UserRow
    <3>4. DeletedUser.version > users[u].version
      <4>1. users[u].version \in Nat /\ users[u].version <= MaxVersion
        BY <1>1, <1>2, <2>2, AccountsAssumption DEF CommitDeletion, UserOK, TypeOK
      <4> QED BY <3>3, <4>1, AccountsAssumption
    <3> HIDE DEF DeletedUser
    <3> QED BY <3>1, <3>2, <3>3, <3>4
  <2> QED BY <2>1, <2>2
<1>4. \A v \in UserIds \ {u} : users'[v] = users[v]
  BY <1>1, <1>3 DEF TypeOK
<1>5. users'[u] = row
  BY <1>1, <1>2, <1>3 DEF TypeOK
<1>6. \A r \in work[s].got : r \in RoleIds /\ s \in sharers[r] /\ LiveRole(r)
  BY <1>1 DEF ShareOK, TypeOK
<1>7. HoldersHaveRole'
  BY <1>1, <1>2, <1>3, <1>4, <1>5, <1>6 DEF HoldersHaveRole, LiveRole
<1>8. VersionsOK'
  BY <1>1, <1>3, <1>4, <1>5 DEF VersionsOK, LiveUser
<1>9. /\ roles' \in [RoleIds -> [state : {"unused", "live", "deleted"},
                                 name : Names \cup {None}, perms : SUBSET Permissions]]
      /\ users' \in [UserIds -> [version : 0..MaxVersion + 1,
                                 email : Emails \cup {None}, roles : SUBSET RoleIds]]
  BY <1>1, <1>3 DEF TypeOK
<1>10. ASSUME NEW t \in Sessions \ {s}, NEW x \in RoleIds
       PROVE  /\ t \in sharers[x] /\ LiveRole(x) => LiveRole(x)'
              /\ roleLock[x] = t =>
                   /\ roles'[x] = roles[x]
                   /\ sharers[x] = {} /\ Holders(x) = {} => Holders(x)' = {}
  <2>1. ASSUME sharers[x] = {}, NEW v \in UserIds, x \in users'[v].roles
        PROVE  x \in users[v].roles
    <3>1. x \notin work[s].got
      BY <1>6, <2>1
    <3> QED BY <1>3, <1>4, <1>5, <2>1, <3>1
  <2> QED BY <1>1, <2>1 DEF LiveRole, Holders
<1>11. /\ pc[s] # "read_roles"
       /\ \A v \in UserIds : users'[v] = users[v] \/ users'[v].version > users[v].version
       /\ \A t \in Sessions \ {s} : \A v \in UserIds :
            userLock[v] = t => users'[v] = users[v]
  BY <1>1, <1>2, <1>3, <1>4, <1>5
<1> QED BY <1>1, <1>7, <1>8, <1>9, <1>10, <1>11, CommitStep

-----------------------------------------------------------------------------
LEMMA NextStep == ASSUME IInv, [Next]_vars PROVE IInv'
<1>1. CASE UNCHANGED vars
  BY <1>1
  DEF vars, tables, locks, IInv, TypeOK, HoldersHaveRole, VersionsOK, LiveRole, LiveUser,
      SessionOK, RoleOK, UserOK, ShareOK, ViewOK, Editing, Holders
<1>2. ASSUME NEW s \in Sessions, RoleStep(s) \/ UserStep(s) \/ Abort(s)
      PROVE  IInv'
  <2>1. CASE \E q \in Asks : \/ BeginRole(s, q) \/ BeginUpdate(s, q)
                             \/ BeginCreate(s, q) \/ BeginDelete(s, q)
    BY <1>2, <2>1, FirstSteps
  <2>2. CASE ReadRoles(s) \/ \E u \in UserIds : ReadUser(s, u)
    BY <1>2, <2>2, ViewSteps
  <2>3. CASE EnterName(s) \/ ReplacePermissions(s) \/ CountHolders(s)
    BY <1>2, <2>3, RoleReads
  <2>4. CASE \/ CheckEmail(s) \/ EnterEmail(s) \/ RolesDone(s) \/ CheckProtected(s)
             \/ RemoveMissed(s) \/ \E n \in Names : LookUpRole(s, n)
    BY <1>2, <2>4, UserReads
  <2>5. CASE FindForUpdate(s) \/ WriteRole(s) \/ RemoveRole(s)
               \/ \E r \in RoleIds : InsertRole(s, r)
    BY <1>2, <2>5, RoleLocks
  <2>6. CASE WriteUser(s) \/ RemoveUser(s) \/ \E u \in UserIds : InsertUser(s, u)
    BY <1>2, <2>6, UserLocks
  <2>7. CASE DropRoles(s) \/ CascadeRoles(s)
    BY <1>2, <2>7, LinkSteps
  <2>8. CASE AddRole(s)
    BY <1>2, <2>8, ShareStep
  <2>9. CASE CommitRole(s) \/ CommitRemoval(s)
    BY <1>2, <2>9, RoleCommits
  <2>10. CASE CommitUser(s) \/ CommitDeletion(s)
    BY <1>2, <2>10, UserCommits
  <2>11. CASE WriteMissed(s) \/ AnswerRefused(s) \/ EndRequest(s) \/ Abort(s)
    <3>1. Refuse(s) /\ pc[s] # "read_roles"
      BY <2>11 DEF WriteMissed, AnswerRefused, EndRequest, Abort
    <3> QED BY <1>2, <3>1, RefuseStep
  <2> QED
    BY <1>2, <2>1, <2>2, <2>3, <2>4, <2>5, <2>6, <2>7, <2>8, <2>9, <2>10, <2>11
    DEF RoleStep, UserStep
<1> QED BY <1>1, <1>2 DEF Next

(* What the locks, the foreign keys and the versions together keep true.   *)
THEOREM InductiveInvariant == Spec => []IInv
<1>1. Init => IInv
  BY InitHolds
<1>2. IInv /\ [Next]_vars => IInv'
  BY NextStep
<1> QED BY <1>1, <1>2, PTL DEF Spec

(* Rows, locks and requests stay within their types: a version goes one    *)
(* past the bound with a deletion only.                                    *)
THEOREM AccountsTypeCorrect == Spec => []TypeOK
<1>1. IInv => TypeOK
  BY DEF IInv
<1> QED BY <1>1, InductiveInvariant, PTL

(* However edits of users and deletions of roles interleave, a role that a *)
(* user holds is there, whichever table either began with.                 *)
THEOREM HeldRolesExist == Spec => []HoldersHaveRole
<1>1. IInv => HoldersHaveRole
  BY DEF IInv
<1> QED BY <1>1, InductiveInvariant, PTL

(* Whoever replaces the roles of a user has seen the roles it replaces,    *)
(* though it read them after the version it presents.                      *)
THEOREM EditorsHaveSeen == Spec => []NoBlindOverwrite
<1>1. IInv => NoBlindOverwrite
  <2> SUFFICES ASSUME IInv, NEW s \in Sessions,
                      pc[s] \in {"email", "drop", "lookup", "assign", "commit_user"},
                      req[s].op = "user.update"
               PROVE  view[s].roles = users[req[s].id].roles
    BY DEF NoBlindOverwrite
  <2>1. UserOK(s) /\ ViewOK(s) /\ Editing(s) /\ pc[s] # "read_roles"
    BY DEF IInv, SessionOK, Editing
  <2> QED BY <2>1 DEF UserOK, ViewOK
<1> QED BY <1>1, InductiveInvariant, PTL

-----------------------------------------------------------------------------
(* Only a COMMIT changes a table.                                          *)
LEMMA TablesChange ==
  ASSUME [Next]_vars
  PROVE  /\ roles' # roles => \E s \in Sessions : CommitRole(s) \/ CommitRemoval(s)
         /\ users' # users =>
              \E s \in Sessions : CommitUser(s) \/ CommitDeletion(s) \/ CommitRemoval(s)
<1>1. CASE UNCHANGED vars
  BY <1>1 DEF vars, tables
<1>2. ASSUME NEW s \in Sessions, RoleStep(s) \/ UserStep(s) \/ Abort(s)
      PROVE  \/ UNCHANGED tables
             \/ CommitRole(s) \/ CommitRemoval(s) \/ CommitUser(s) \/ CommitDeletion(s)
  <2>1. CASE RoleStep(s)
    BY <2>1
    DEF RoleStep, Refuse, BeginRole, Ask, InsertRole, FindForUpdate, WriteRole, EnterName,
        ReplacePermissions, CountHolders, RemoveRole, AnswerRefused
  <2>2. CASE Abort(s)
    BY <2>2 DEF Abort, Refuse
  <2>3. CASE UserStep(s)
    <3>1. ASSUME \/ \E u \in UserIds : ReadUser(s, u) \/ InsertUser(s, u)
                 \/ \E q \in Asks : BeginUpdate(s, q) \/ BeginCreate(s, q) \/ BeginDelete(s, q)
          PROVE  UNCHANGED tables
      BY <3>1 DEF ReadUser, InsertUser, BeginUpdate, BeginCreate, BeginDelete, Ask
    <3>2. ASSUME \/ \E n \in Names : LookUpRole(s, n)
                 \/ ReadRoles(s) \/ CheckEmail(s) \/ WriteUser(s) \/ WriteMissed(s)
          PROVE  UNCHANGED tables
      BY <3>2 DEF LookUpRole, ReadRoles, CheckEmail, WriteUser, WriteMissed, Refuse
    <3>3. ASSUME EnterEmail(s) \/ DropRoles(s) \/ AddRole(s) \/ RolesDone(s)
          PROVE  UNCHANGED tables
      BY <3>3 DEF EnterEmail, DropRoles, AddRole, RolesDone
    <3>4. ASSUME \/ CheckProtected(s) \/ RemoveUser(s) \/ RemoveMissed(s)
                 \/ CascadeRoles(s) \/ EndRequest(s)
          PROVE  UNCHANGED tables
      BY <3>4 DEF CheckProtected, RemoveUser, RemoveMissed, CascadeRoles, EndRequest, Refuse
    <3> QED BY <2>3, <3>1, <3>2, <3>3, <3>4 DEF UserStep
  <2> QED BY <1>2, <2>1, <2>2, <2>3
<1>3. CASE Next
  <2>1. PICK s \in Sessions : RoleStep(s) \/ UserStep(s) \/ Abort(s)
    BY <1>3 DEF Next
  <2>2. \/ UNCHANGED tables
        \/ CommitRole(s) \/ CommitRemoval(s) \/ CommitUser(s) \/ CommitDeletion(s)
    BY <1>2, <2>1
  <2>3. CommitRole(s) => UNCHANGED users
    BY DEF CommitRole
  <2>4. CommitUser(s) \/ CommitDeletion(s) => UNCHANGED roles
    BY DEF CommitUser, CommitDeletion
  <2> QED BY <2>2, <2>3, <2>4 DEF tables
<1> QED BY <1>1, <1>3

(* A role goes only when nobody holds it: the lock taken before the count  *)
(* keeps its holders from growing until the DELETE, which would cascade.   *)
THEOREM DeletionTakesNothing == Spec => NoAssignmentLost
<1>1. ASSUME IInv, [Next]_vars, NEW r \in RoleIds, LiveRole(r), ~LiveRole(r)'
      PROVE  Holders(r) = {}
  <2>1. PICK s \in Sessions : CommitRole(s) \/ CommitRemoval(s)
    BY <1>1, TablesChange DEF LiveRole
  <2>2. TypeOK /\ RoleOK(s)
    BY <1>1 DEF IInv, SessionOK
  <2>3. CASE CommitRole(s)
    BY <1>1, <2>2, <2>3 DEF CommitRole, RoleRow, LiveRole, TypeOK
  <2>4. CASE CommitRemoval(s)
    <3>1. roles'[r] = roles[r] \/ r = req[s].id
      BY <2>2, <2>4 DEF CommitRemoval, TypeOK
    <3> QED BY <1>1, <2>2, <2>4, <3>1 DEF CommitRemoval, RoleOK, LiveRole
  <2> QED BY <2>1, <2>3, <2>4
<1>2. IInv /\ [Next]_vars =>
        [\A r \in RoleIds : LiveRole(r) /\ ~LiveRole(r)' => Holders(r) = {}]_vars
  BY <1>1
<1> QED BY <1>2, InductiveInvariant, PTL DEF Spec, NoAssignmentLost

(* The DELETE of an edit removes what its snapshot shows.  Since the row   *)
(* was locked before, that is all there is, and the list of the edit is    *)
(* what stays.                                                             *)
THEOREM ListsAreNotMixed == Spec => EditsAreWhole
<1>1. ASSUME IInv, [Next]_vars, NEW s \in Sessions, pc[s] # "idle", pc'[s] = "idle",
             pc[s] = "commit_role", roles' # roles
      PROVE  roles'[req[s].id].perms = req[s].set
  <2>1. PICK t \in Sessions : CommitRole(t) \/ CommitRemoval(t)
    BY <1>1, TablesChange
  <2>2. TypeOK /\ RoleOK(s)
    BY <1>1 DEF IInv, SessionOK
  <2>3. t = s /\ CommitRole(s)
    <3>1. pc' = [pc EXCEPT ![t] = "idle"]
      BY <2>1 DEF CommitRole, CommitRemoval, End, Goto
    <3>2. t = s
      BY <1>1, <2>2, <3>1 DEF TypeOK
    <3> QED BY <1>1, <2>1, <3>2 DEF CommitRemoval
  <2>4. req[s].id \in RoleIds /\ roles[req[s].id].perms \subseteq work[s].dropped
    BY <1>1, <2>2 DEF RoleOK, RolePCs
  <2> QED BY <2>2, <2>3, <2>4 DEF CommitRole, RoleRow, TypeOK
<1>2. ASSUME IInv, [Next]_vars, NEW s \in Sessions, pc[s] # "idle", pc'[s] = "idle",
             pc[s] = "commit_user", users' # users
      PROVE  users'[req[s].id].roles = work[s].got
  <2>1. PICK t \in Sessions : CommitUser(t) \/ CommitDeletion(t) \/ CommitRemoval(t)
    BY <1>2, TablesChange
  <2>2. TypeOK /\ UserOK(s)
    BY <1>2 DEF IInv, SessionOK
  <2>3. t = s /\ CommitUser(s)
    <3>1. pc' = [pc EXCEPT ![t] = "idle"]
      BY <2>1 DEF CommitUser, CommitDeletion, CommitRemoval, End, Goto
    <3>2. t = s
      BY <1>2, <2>2, <3>1 DEF TypeOK
    <3> QED BY <1>2, <2>1, <3>2 DEF CommitDeletion, CommitRemoval
  <2>4. req[s].id \in UserIds /\ users[req[s].id].roles \subseteq work[s].dropped
    BY <1>2, <2>2 DEF UserOK, Editing
  <2> QED BY <2>2, <2>3, <2>4 DEF CommitUser, UserRow, TypeOK
<1>3. IInv /\ [Next]_vars =>
        [\A s \in Sessions : pc[s] # "idle" /\ pc'[s] = "idle" =>
           /\ pc[s] = "commit_role" /\ roles' # roles =>
                roles'[req[s].id].perms = req[s].set
           /\ pc[s] = "commit_user" /\ users' # users =>
                users'[req[s].id].roles = work[s].got]_vars
  BY <1>1, <1>2
<1> QED BY <1>3, InductiveInvariant, PTL DEF Spec, EditsAreWhole

-----------------------------------------------------------------------------
(* Where a transaction that has a row to itself can be.                    *)
RoleKeepers == (RolePCs \ {"insert_role", "find_role"}) \cup {"refused"}
LinkKeepers == {"lookup", "assign", "commit_user", "leaked_create", "remove_user",
                "cascade", "commit_deletion", "leaked_delete", "refused"}

(* A request that has entered its email.                                   *)
Entered(s) ==
  \/ pc[s] \in {"lookup", "assign", "commit_user"}
  \/ pc[s] = "drop" /\ req[s].op = "user.update"
KeepsUser(s) ==
  \/ Entered(s)
  \/ pc[s] \in {"email", "leaked_create", "cascade", "commit_deletion", "refused"}

KeepersOK ==
  /\ \A r \in RoleIds : roleLock[r] # None => pc[roleLock[r]] \in RoleKeepers
  /\ \A u \in UserIds : userLock[u] # None => KeepsUser(userLock[u])
  /\ \A u \in UserIds : linkLock[u] # None => pc[linkLock[u]] \in LinkKeepers

(* The email a request asks for, and the row it is about to give it to.    *)
EmailOK(s) ==
  /\ pc[s] \in {"check_email", "insert_user", "write_user"} \/ Editing(s) =>
       req[s].name \in Emails
  /\ pc[s] = "email" =>
       IF req[s].op = "user.update" THEN Matches(s) ELSE ~LiveUser(req[s].id)
  /\ pc[s] = "cascade" => req[s].op = "user.delete"

(* An email that has passed the index is on no other row, and no other     *)
(* request has entered it.                                                 *)
EnteredAlone ==
  /\ \A s \in Sessions, u \in UserIds :
       Entered(s) /\ u # req[s].id => users[u].email # req[s].name
  /\ \A s, t \in Sessions :
       Entered(s) /\ Entered(t) /\ s # t => req[s].name # req[t].name

EmailsUnique ==
  \A u, v \in UserIds : u # v /\ LiveUser(u) => users[u].email # users[v].email

(* An update whose check of the email has passed, and whose condition holds*)
(* as the row is; and the row that has the email it wants.                 *)
Changing(s) ==
  /\ req[s].op = "user.update" /\ pc[s] \in {"write_user", "email"}
  /\ Matches(s)

Wants(s, t) ==
  req[s].id # req[t].id /\ users[req[t].id].email = req[s].name

(* Updates under way never want each other's emails in a circle: the check *)
(* finds the email on no other row, and no row changes its email while an  *)
(* update matches it.                                                      *)
NoCircle ==
  \A D \in (SUBSET Sessions) \ {{}} :
    (\A s \in D : Changing(s)) => \E s \in D : \A t \in D : ~Wants(s, t)

WaitInv ==
  /\ KeepersOK /\ EnteredAlone /\ EmailsUnique /\ NoCircle
  /\ \A s \in Sessions : EmailOK(s)

-----------------------------------------------------------------------------
LEMMA CircleKept ==
  ASSUME NoCircle,
         \A t \in Sessions : Changing(t)' => Changing(t),
         \A t, u \in Sessions :
           Changing(t)' /\ Changing(u)' /\ Wants(t, u)' => Wants(t, u)
  PROVE  NoCircle'
<1> SUFFICES ASSUME NEW D \in (SUBSET Sessions) \ {{}},
                    \A s \in D : Changing(s)'
             PROVE  \E s \in D : \A t \in D : ~Wants(s, t)'
  BY DEF NoCircle
<1>1. PICK s \in D : \A t \in D : ~Wants(s, t)
  BY DEF NoCircle
<1> QED BY <1>1

(* A step of s leaves the others where they are.                           *)
LEMMA OthersStay ==
  ASSUME TypeOK, NEW s \in Sessions, RoleStep(s) \/ UserStep(s) \/ Abort(s),
         NEW t \in Sessions \ {s}
  PROVE  pc'[t] = pc[t] /\ req'[t] = req[t] /\ view'[t] = view[t]
<1>1. CASE RoleStep(s) \/ Abort(s)
  BY <1>1
  DEF TypeOK, RoleStep, Abort, BeginRole, Ask, InsertRole, FindForUpdate, WriteRole,
      EnterName, ReplacePermissions, CommitRole, CountHolders, RemoveRole, CommitRemoval,
      AnswerRefused, Refuse, End, Goto
<1>2. CASE UserStep(s)
  BY <1>2
  DEF TypeOK, UserStep, ReadUser, InsertUser, BeginUpdate, BeginCreate, BeginDelete, Ask,
      LookUpRole, ReadRoles, CheckEmail, WriteUser, WriteMissed, EnterEmail, DropRoles,
      AddRole, RolesDone, CommitUser, CheckProtected, RemoveUser, RemoveMissed,
      CascadeRoles, CommitDeletion, EndRequest, Refuse, End, Goto
<1> QED BY <1>1, <1>2

(* Who has a row to itself keeps it up to the end.                         *)
LEMMA KeepersStep ==
  ASSUME IInv, KeepersOK, NEW s \in Sessions, RoleStep(s) \/ UserStep(s) \/ Abort(s)
  PROVE  KeepersOK'
<1>1. /\ TypeOK /\ RoleOK(s) /\ UserOK(s)
      /\ \A t \in Sessions \ {s} : pc'[t] = pc[t] /\ req'[t] = req[t]
  BY OthersStay DEF IInv, SessionOK
<1> USE AccountsAssumption
<1>2. ASSUME pc[s] \in RoleKeepers => pc'[s] \in RoleKeepers,
             \/ roleLock' = roleLock
             \/ /\ pc'[s] \in RoleKeepers
                /\ \E r \in RoleIds : roleLock' = [roleLock EXCEPT ![r] = s]
      PROVE  \A r \in RoleIds : roleLock'[r] # None => pc'[roleLock'[r]] \in RoleKeepers
  <2> SUFFICES ASSUME NEW r \in RoleIds, roleLock'[r] # None
               PROVE  pc'[roleLock'[r]] \in RoleKeepers
    OBVIOUS
  <2>1. roleLock'[r] = roleLock[r] \/ (roleLock'[r] = s /\ pc'[s] \in RoleKeepers)
    BY <1>1, <1>2 DEF TypeOK
  <2>2. CASE roleLock'[r] = roleLock[r]
    <3>1. roleLock[r] \in Sessions /\ pc[roleLock[r]] \in RoleKeepers
      BY <1>1, <2>2 DEF KeepersOK, TypeOK
    <3> QED BY <1>1, <1>2, <2>2, <3>1
  <2> QED BY <2>1, <2>2
<1>3. ASSUME KeepsUser(s) => KeepsUser(s)',
             \/ userLock' = userLock
             \/ /\ KeepsUser(s)'
                /\ \E u \in UserIds : userLock' = [userLock EXCEPT ![u] = s],
             NEW u \in UserIds, NEW t, t = userLock'[u], t # None
      PROVE  KeepsUser(t)'
  <2>1. userLock'[u] = userLock[u] \/ (userLock'[u] = s /\ KeepsUser(s)')
    BY <1>1, <1>3 DEF TypeOK
  <2>2. CASE t = s
    BY <1>3, <2>1, <2>2 DEF KeepersOK
  <2>3. CASE t # s
    <3>1. t \in Sessions \ {s} /\ KeepsUser(t)
      BY <1>1, <1>3, <2>1, <2>3 DEF KeepersOK, TypeOK
    <3> QED BY <1>1, <3>1 DEF KeepsUser, Entered
  <2> QED BY <2>2, <2>3
<1>4. ASSUME pc[s] \in LinkKeepers => pc'[s] \in LinkKeepers,
             \/ linkLock' = linkLock
             \/ /\ pc'[s] \in LinkKeepers
                /\ \E u \in UserIds : linkLock' = [linkLock EXCEPT ![u] = s]
      PROVE  \A u \in UserIds : linkLock'[u] # None => pc'[linkLock'[u]] \in LinkKeepers
  <2> SUFFICES ASSUME NEW u \in UserIds, linkLock'[u] # None
               PROVE  pc'[linkLock'[u]] \in LinkKeepers
    OBVIOUS
  <2>1. linkLock'[u] = linkLock[u] \/ (linkLock'[u] = s /\ pc'[s] \in LinkKeepers)
    BY <1>1, <1>4 DEF TypeOK
  <2>2. CASE linkLock'[u] = linkLock[u]
    BY <1>1, <1>4, <2>2 DEF KeepersOK, TypeOK
  <2> QED BY <2>1, <2>2
\* A statement that takes no row for itself.
<1>5. ASSUME UNCHANGED <<roleLock, userLock, linkLock>>,
             pc[s] \in RoleKeepers => pc'[s] \in RoleKeepers,
             KeepsUser(s) => KeepsUser(s)',
             pc[s] \in LinkKeepers => pc'[s] \in LinkKeepers
      PROVE  KeepersOK'
  BY <1>2, <1>3, <1>4, <1>5 DEF KeepersOK
<1>6. ASSUME NEW r \in RoleIds, LockRole(s, r), pc[s] \in RolePCs, pc'[s] \in RoleKeepers
      PROVE  KeepersOK'
  <2>1. roleLock' = [roleLock EXCEPT ![r] = s] /\ UNCHANGED <<userLock, linkLock>>
    BY <1>6 DEF LockRole
  <2>2. ~KeepsUser(s) /\ pc[s] \notin LinkKeepers
    BY <1>6 DEF RolePCs, KeepsUser, Entered, LinkKeepers
  <2> QED BY <1>2, <1>3, <1>4, <1>6, <2>1, <2>2 DEF KeepersOK
<1>7. ASSUME NEW u \in UserIds, LockUser(s, u), UNCHANGED <<roleLock, linkLock>>,
             pc[s] \in {"write_user", "insert_user", "remove_user"}, KeepsUser(s)',
             pc[s] \in LinkKeepers => pc'[s] \in LinkKeepers
      PROVE  KeepersOK'
  <2>1. userLock' = [userLock EXCEPT ![u] = s]
    BY <1>7 DEF LockUser
  <2>2. pc[s] \notin RoleKeepers
    BY <1>7 DEF RoleKeepers, RolePCs
  <2> QED BY <1>2, <1>3, <1>4, <1>7, <2>1, <2>2 DEF KeepersOK
<1>8. ASSUME NEW u \in UserIds, LockLinks(s, u), UNCHANGED <<roleLock, userLock>>,
             pc[s] \in {"drop", "cascade"}, pc'[s] \in LinkKeepers,
             KeepsUser(s) => KeepsUser(s)'
      PROVE  KeepersOK'
  <2>1. linkLock' = linkLock \/ linkLock' = [linkLock EXCEPT ![u] = s]
    BY <1>8 DEF LockLinks
  <2>2. pc[s] \notin RoleKeepers
    BY <1>8 DEF RoleKeepers, RolePCs
  <2> QED BY <1>2, <1>3, <1>4, <1>8, <2>1, <2>2 DEF KeepersOK
<1>9. ASSUME End(s) PROVE KeepersOK'
  <2>1. \A r \in RoleIds : roleLock'[r] # None => pc'[roleLock'[r]] \in RoleKeepers
    BY <1>1, <1>9 DEF KeepersOK, End, TypeOK
  <2>2. \A u \in UserIds : linkLock'[u] # None => pc'[linkLock'[u]] \in LinkKeepers
    BY <1>1, <1>9 DEF KeepersOK, End, TypeOK
  <2>3. ASSUME NEW u \in UserIds, NEW t, t = userLock'[u], t # None
        PROVE  KeepsUser(t)'
    <3>1. t \in Sessions \ {s} /\ KeepsUser(t)
      BY <1>1, <1>9, <2>3 DEF KeepersOK, End, TypeOK
    <3> QED BY <1>1, <3>1 DEF KeepsUser, Entered
  <2> QED BY <2>1, <2>2, <2>3 DEF KeepersOK
<1>10. ASSUME NEW u \in UserIds, ReadUser(s, u) PROVE KeepersOK'
  BY <1>1, <1>5, <1>10
  DEF ReadUser, Goto, locks, RoleKeepers, RolePCs, KeepsUser, Entered, LinkKeepers, TypeOK
<1>11. CASE ReadRoles(s)
  BY <1>1, <1>5, <1>11
  DEF ReadRoles, Goto, locks, RoleKeepers, RolePCs, KeepsUser, Entered, LinkKeepers, TypeOK
<1>12. ASSUME NEW q \in Asks,
              \/ BeginRole(s, q) \/ BeginUpdate(s, q) \/ BeginCreate(s, q) \/ BeginDelete(s, q)
       PROVE  KeepersOK'
  <2>1. pc[s] = "idle" /\ UNCHANGED <<roleLock, userLock, linkLock>>
    BY <1>12 DEF BeginRole, BeginUpdate, BeginCreate, BeginDelete, Ask, locks
  <2>2. pc[s] \notin RoleKeepers /\ ~KeepsUser(s) /\ pc[s] \notin LinkKeepers
    BY <2>1 DEF RoleKeepers, RolePCs, KeepsUser, Entered, LinkKeepers
  <2> QED BY <1>5, <2>1, <2>2
<1>13. CASE EnterName(s) \/ ReplacePermissions(s) \/ CountHolders(s)
  <2>1. /\ UNCHANGED <<roleLock, userLock, linkLock>> /\ pc'[s] \in RoleKeepers
        /\ pc[s] \in {"role_name", "permissions", "count"}
    BY <1>1, <1>13
    DEF EnterName, ReplacePermissions, CountHolders, Goto, locks, TypeOK, RoleKeepers, RolePCs
  <2>2. ~KeepsUser(s) /\ pc[s] \notin LinkKeepers
    BY <2>1 DEF KeepsUser, Entered, LinkKeepers
  <2> QED BY <1>5, <2>1, <2>2
<1>14. CASE FindForUpdate(s) \/ WriteRole(s) \/ RemoveRole(s)
  <2>1. /\ LockRole(s, req[s].id) /\ req[s].id \in RoleIds /\ pc[s] \in RolePCs
        /\ pc'[s] \in RoleKeepers
    BY <1>1, <1>14
    DEF FindForUpdate, WriteRole, RemoveRole, AfterFound, Goto, TypeOK, RoleKeepers,
        RolePCs, RoleOK
  <2> QED BY <1>6, <2>1
<1>15. ASSUME NEW r \in RoleIds, InsertRole(s, r) PROVE KeepersOK'
  BY <1>1, <1>6, <1>15 DEF InsertRole, Goto, TypeOK, RoleKeepers, RolePCs
<1>16. CASE CheckEmail(s) \/ CheckProtected(s)
  <2>1. pc[s] \in {"check_email", "protect"} /\ UNCHANGED <<roleLock, userLock, linkLock>>
    BY <1>16 DEF CheckEmail, CheckProtected, locks
  <2>2. pc[s] \notin RoleKeepers /\ ~KeepsUser(s) /\ pc[s] \notin LinkKeepers
    BY <2>1 DEF RoleKeepers, RolePCs, KeepsUser, Entered, LinkKeepers
  <2> QED BY <1>5, <2>1, <2>2
<1>17. CASE EnterEmail(s)
  <2>1. /\ UNCHANGED <<roleLock, userLock, linkLock, req>> /\ pc[s] = "email"
        /\ pc'[s] \in {"refused", "lookup", "drop"}
        /\ pc'[s] = "drop" => req[s].op # "user.create"
    BY <1>1, <1>17 DEF EnterEmail, Goto, locks, TypeOK
  <2>2. req[s].op \in {"user.create", "user.update"}
    BY <1>1, <2>1 DEF UserOK, Editing
  <2>3. KeepsUser(s)' /\ pc[s] \notin RoleKeepers \cup LinkKeepers
    BY <2>1, <2>2 DEF KeepsUser, Entered, RoleKeepers, RolePCs, LinkKeepers
  <2> QED BY <1>5, <2>1, <2>3
<1>18. CASE AddRole(s) \/ RolesDone(s) \/ \E n \in Names : LookUpRole(s, n)
  <2>1. /\ UNCHANGED <<roleLock, userLock, linkLock>> /\ pc[s] \in {"lookup", "assign"}
        /\ pc'[s] \in {"lookup", "assign", "commit_user", "leaked_create", "refused"}
    BY <1>1, <1>18 DEF AddRole, RolesDone, LookUpRole, Failed, Goto, locks, TypeOK
  <2>2. KeepsUser(s)' /\ pc'[s] \in LinkKeepers /\ pc[s] \notin RoleKeepers
    BY <2>1 DEF KeepsUser, Entered, RoleKeepers, RolePCs, LinkKeepers
  <2> QED BY <1>5, <2>1, <2>2
<1>19. CASE RemoveMissed(s)
  <2>1. /\ UNCHANGED <<roleLock, userLock, linkLock>> /\ pc[s] = "remove_user"
        /\ pc'[s] = "leaked_delete"
    BY <1>1, <1>19 DEF RemoveMissed, Goto, locks, TypeOK
  <2>2. pc'[s] \in LinkKeepers /\ pc[s] \notin RoleKeepers /\ ~KeepsUser(s)
    BY <2>1 DEF KeepsUser, Entered, RoleKeepers, RolePCs, LinkKeepers
  <2> QED BY <1>5, <2>1, <2>2
<1>20. CASE WriteUser(s) \/ RemoveUser(s)
  <2>1. /\ LockUser(s, req[s].id) /\ UNCHANGED <<roleLock, linkLock>>
        /\ \/ pc[s] = "write_user" /\ pc'[s] = "email"
           \/ pc[s] = "remove_user" /\ pc'[s] = "cascade"
    BY <1>1, <1>20 DEF WriteUser, RemoveUser, Goto, TypeOK
  <2>2. req[s].id \in UserIds
    BY <1>1, <1>20, <2>1 DEF UserOK
  <2>3. KeepsUser(s)' /\ (pc[s] \in LinkKeepers => pc'[s] \in LinkKeepers)
    BY <2>1 DEF KeepsUser, LinkKeepers
  <2> QED BY <1>7, <2>1, <2>2, <2>3
<1>21. ASSUME NEW u \in UserIds, InsertUser(s, u) PROVE KeepersOK'
  <2>1. /\ LockUser(s, u) /\ UNCHANGED <<roleLock, linkLock>>
        /\ pc[s] = "insert_user" /\ pc'[s] = "email"
    BY <1>1, <1>21 DEF InsertUser, Goto, TypeOK
  <2>2. KeepsUser(s)' /\ pc[s] \notin LinkKeepers
    BY <2>1 DEF KeepsUser, LinkKeepers
  <2> QED BY <1>7, <2>1, <2>2
<1>22. CASE DropRoles(s)
  <2>1. /\ LockLinks(s, req[s].id) /\ UNCHANGED <<roleLock, userLock, req>>
        /\ pc[s] = "drop" /\ req[s].id \in UserIds
        /\ pc'[s] = IF req[s].op = "user.delete" THEN "remove_user" ELSE "lookup"
    BY <1>1, <1>22 DEF DropRoles, Goto, TypeOK, UserOK
  <2>2. pc'[s] \in LinkKeepers /\ (KeepsUser(s) => KeepsUser(s)')
    BY <2>1 DEF KeepsUser, Entered, LinkKeepers
  <2> QED BY <1>8, <2>1, <2>2
<1>23. CASE CascadeRoles(s)
  <2>1. /\ LockLinks(s, req[s].id) /\ UNCHANGED <<roleLock, userLock>>
        /\ pc[s] = "cascade" /\ req[s].id \in UserIds /\ pc'[s] = "commit_deletion"
    BY <1>1, <1>23 DEF CascadeRoles, Goto, TypeOK, UserOK
  <2>2. pc'[s] \in LinkKeepers /\ KeepsUser(s)'
    BY <2>1 DEF KeepsUser, LinkKeepers
  <2> QED BY <1>8, <2>1, <2>2
<1>24. CASE \/ CommitRole(s) \/ CommitRemoval(s) \/ CommitUser(s) \/ CommitDeletion(s)
            \/ WriteMissed(s) \/ AnswerRefused(s) \/ EndRequest(s) \/ Abort(s)
  BY <1>9, <1>24
  DEF CommitRole, CommitRemoval, CommitUser, CommitDeletion, WriteMissed, AnswerRefused,
      EndRequest, Abort, Refuse
<1> QED
  BY <1>10, <1>11, <1>12, <1>13, <1>14, <1>15, <1>16, <1>17, <1>18, <1>19, <1>20, <1>21,
     <1>22, <1>23, <1>24 DEF RoleStep, UserStep

(* An email goes to one request at a time, and to one row.                 *)
LEMMA EmailsStep ==
  ASSUME IInv, WaitInv, NEW s \in Sessions, RoleStep(s) \/ UserStep(s) \/ Abort(s)
  PROVE  EnteredAlone' /\ EmailsUnique' /\ \A t \in Sessions : EmailOK(t)'
<1> DEFINE Goal == EnteredAlone' /\ EmailsUnique' /\ \A t \in Sessions : EmailOK(t)'
           Relevant == {"check_email", "insert_user", "write_user", "email", "drop",
                        "lookup", "assign", "commit_user", "cascade"}
<1> USE AccountsAssumption
<1>1. /\ TypeOK /\ (\A t \in Sessions : UserOK(t) /\ EmailOK(t))
      /\ EnteredAlone /\ EmailsUnique
  BY DEF IInv, SessionOK, WaitInv
<1>2. \A t \in Sessions \ {s} : pc'[t] = pc[t] /\ req'[t] = req[t] /\ view'[t] = view[t]
  BY <1>1, OthersStay
<1>3. ASSUME users' = users, Entered(s)' => Entered(s) /\ req'[s] = req[s], EmailOK(s)'
      PROVE  Goal
  <2>1. \A t \in Sessions \ {s} : EmailOK(t)'
    BY <1>1, <1>2, <1>3 DEF EmailOK, Editing, Matches, LiveUser
  <2>2. \A t \in Sessions : Entered(t)' => Entered(t) /\ req'[t] = req[t]
    BY <1>2, <1>3 DEF Entered
  <2>3. EnteredAlone'
    BY <1>1, <1>3, <2>2 DEF EnteredAlone
  <2>4. EmailsUnique'
    BY <1>1, <1>3 DEF EmailsUnique, LiveUser
  <2> QED BY <1>3, <2>1, <2>3, <2>4
<1>4. ASSUME users' = users, pc'[s] \notin Relevant PROVE Goal
  BY <1>3, <1>4 DEF Entered, EmailOK, Editing
<1>5. ASSUME End(s),
             \A u \in UserIds : users'[u].email = users[u].email
                                  /\ users'[u].version = users[u].version
      PROVE  Goal
  <2>1. pc'[s] = "idle"
    BY <1>1, <1>5 DEF End, Goto, TypeOK
  <2>2. ASSUME NEW t \in Sessions \ {s} PROVE EmailOK(t)'
    <3>1. pc[t] = "email" => req[t].id \in UserIds
      BY <1>1 DEF UserOK, Editing
    <3>2. EmailOK(t)
      BY <1>1
    <3> QED BY <1>2, <1>5, <3>1, <3>2 DEF EmailOK, Editing, Matches, LiveUser
  <2>3. EmailOK(s)'
    BY <2>1 DEF EmailOK, Editing
  <2>4. \A t \in Sessions : Entered(t)' => Entered(t) /\ req'[t] = req[t]
    BY <1>2, <2>1 DEF Entered
  <2>5. EnteredAlone'
    BY <1>1, <1>5, <2>4 DEF EnteredAlone
  <2>6. EmailsUnique'
    BY <1>1, <1>5 DEF EmailsUnique, LiveUser
  <2> QED BY <2>2, <2>3, <2>5, <2>6
<1>6. ASSUME NEW p \in UserIds, End(s), userLock[p] = s,
             \A u \in UserIds \ {p} : users'[u] = users[u],
             \/ users'[p].email = None
             \/ users'[p].email = req[s].name /\ Entered(s) /\ req[s].id = p
      PROVE  Goal
  <2>1. pc'[s] = "idle"
    BY <1>1, <1>6 DEF End, Goto, TypeOK
  <2>2. ASSUME NEW t \in Sessions \ {s} PROVE EmailOK(t)'
    <3>1. pc[t] = "email" => req[t].id \in UserIds \ {p}
      BY <1>1, <1>6 DEF UserOK, Editing
    <3>2. EmailOK(t)
      BY <1>1
    <3> QED BY <1>2, <1>6, <3>1, <3>2 DEF EmailOK, Editing, Matches, LiveUser
  <2>3. EmailOK(s)'
    BY <2>1 DEF EmailOK, Editing
  <2>4. \A t \in Sessions : Entered(t)' => t # s /\ Entered(t) /\ req'[t] = req[t]
    BY <1>2, <2>1 DEF Entered
  <2>5. \A t \in Sessions : Entered(t) => req[t].name \in Emails
    BY <1>1 DEF EmailOK, Editing, Entered
  <2>6. ASSUME NEW t \in Sessions, Entered(t)', NEW u \in UserIds, u # req'[t].id
        PROVE  users'[u].email # req'[t].name
    <3>1. t # s /\ Entered(t) /\ req'[t] = req[t] /\ req[t].name # None
      BY <2>4, <2>5, <2>6
    <3>2. CASE u = p
      BY <1>1, <1>6, <3>1, <3>2 DEF EnteredAlone
    <3>3. CASE u # p
      BY <1>1, <1>6, <2>6, <3>1, <3>3 DEF EnteredAlone
    <3> QED BY <3>2, <3>3
  <2>7. EnteredAlone'
    BY <1>1, <2>4, <2>6 DEF EnteredAlone
  <2>8. EmailsUnique'
    <3>1. ASSUME NEW u \in UserIds, u # p, users'[p].email # None
          PROVE  users[u].email # users'[p].email
      BY <1>1, <1>6, <3>1 DEF EnteredAlone
    <3>2. ASSUME NEW u \in UserIds, NEW v \in UserIds, u # v, users'[u].email # None
          PROVE  users'[u].email # users'[v].email
      <4>1. CASE u = p
        BY <1>6, <3>1, <3>2, <4>1
      <4>2. CASE v = p
        BY <1>6, <3>1, <3>2, <4>2
      <4>3. CASE u # p /\ v # p
        BY <1>1, <1>6, <3>2, <4>3 DEF EmailsUnique, LiveUser
      <4> QED BY <4>1, <4>2, <4>3
    <3> QED BY <3>2 DEF EmailsUnique, LiveUser
  <2> QED BY <2>2, <2>3, <2>7, <2>8
<1>7. CASE \/ ReadRoles(s) \/ (\E u \in UserIds : ReadUser(s, u))
           \/ \E q \in Asks : BeginRole(s, q) \/ BeginDelete(s, q)
  <2>1. /\ users' = users
        /\ pc'[s] \in {"idle", "read_roles", "insert_role", "find_role", "protect"}
    BY <1>1, <1>7 DEF ReadRoles, ReadUser, BeginRole, BeginDelete, Ask, Goto, tables, TypeOK
  <2> QED BY <1>4, <2>1
<1>8. ASSUME NEW q \in Asks, BeginUpdate(s, q) \/ BeginCreate(s, q) PROVE Goal
  <2>1. /\ users' = users /\ req'[s] = q /\ q.op \in {"user.create", "user.update"}
        /\ pc'[s] \in {"check_email", "write_user"}
    BY <1>1, <1>8 DEF BeginUpdate, BeginCreate, Ask, Goto, tables, TypeOK
  <2>2. q.name \in Emails
    BY <2>1, AsksAssumption
  <2>3. EmailOK(s)'
    BY <2>1, <2>2 DEF EmailOK
  <2>4. ~Entered(s)'
    BY <2>1 DEF Entered
  <2> QED BY <1>3, <2>1, <2>3, <2>4
<1>9. CASE \/ FindForUpdate(s) \/ WriteRole(s) \/ EnterName(s) \/ ReplacePermissions(s)
           \/ CountHolders(s) \/ RemoveRole(s) \/ RemoveMissed(s) \/ CascadeRoles(s)
           \/ \E r \in RoleIds : InsertRole(s, r)
  <2>1. users' = users /\ pc'[s] \notin Relevant
    BY <1>1, <1>9
    DEF FindForUpdate, WriteRole, EnterName, ReplacePermissions, CountHolders, RemoveRole,
        RemoveMissed, CascadeRoles, InsertRole, AfterFound, Goto, tables, TypeOK
  <2> QED BY <1>4, <2>1
<1>10. CASE CheckEmail(s)
  <2>1. /\ users' = users /\ req' = req /\ pc[s] = "check_email"
        /\ pc'[s] \in {"refused", "insert_user", "write_user"}
    BY <1>1, <1>10 DEF CheckEmail, AfterCheck, Goto, tables, TypeOK
  <2>2. EmailOK(s)' /\ ~Entered(s)'
    BY <1>1, <2>1 DEF EmailOK, Editing, Entered
  <2> QED BY <1>3, <2>1, <2>2
<1>11. CASE WriteUser(s)
  <2>1. /\ users' = users /\ req' = req /\ view' = view /\ Matches(s)
        /\ pc[s] = "write_user" /\ pc'[s] = "email"
    BY <1>1, <1>11 DEF WriteUser, Goto, tables, TypeOK
  <2>2. req[s].op = "user.update" /\ req[s].name \in Emails
    BY <1>1, <2>1 DEF UserOK, EmailOK
  <2>3. Matches(s)'
    BY <2>1 DEF Matches, LiveUser
  <2>4. EmailOK(s)' /\ ~Entered(s)'
    BY <2>1, <2>2, <2>3 DEF EmailOK, Entered
  <2> QED BY <1>3, <2>1, <2>4
<1>12. ASSUME NEW u \in UserIds, InsertUser(s, u) PROVE Goal
  <2>1. /\ users' = users /\ pc[s] = "insert_user" /\ pc'[s] = "email"
        /\ users[u] = UnusedUser /\ req' = [req EXCEPT ![s].id = u]
    BY <1>1, <1>12 DEF InsertUser, Goto, tables, TypeOK
  <2>2. /\ req[s] \in UserRequests /\ req[s].op = "user.create" /\ req[s].name \in Emails
    BY <1>1, <2>1 DEF UserOK, UserPCs, EmailOK
  <2>3. req'[s].id = u /\ req'[s].op = "user.create" /\ req'[s].name = req[s].name
    BY <1>1, <2>1, <2>2 DEF TypeOK, UserRequests
  <2>4. users[u].email = None
    BY <2>1 DEF UnusedUser, UserRow
  <2>5. EmailOK(s)' /\ ~Entered(s)'
    BY <2>1, <2>2, <2>3, <2>4 DEF EmailOK, Entered, LiveUser
  <2> QED BY <1>3, <2>1, <2>5
<1>13. CASE EnterEmail(s)
  <2>1. /\ users' = users /\ req' = req /\ pc[s] = "email"
        /\ \A t \in Sessions : ~ContendsForEmail(s, t)
        /\ IF EmailTaken(s) THEN pc'[s] = "refused" ELSE pc'[s] \in {"lookup", "drop"}
    BY <1>1, <1>13 DEF EnterEmail, Goto, tables, TypeOK
  <2>2. req[s].name \in Emails
    BY <1>1, <2>1 DEF EmailOK, Editing
  <2>3. CASE EmailTaken(s)
    BY <1>4, <2>1, <2>3
  <2>4. CASE ~EmailTaken(s)
    <3>1. EmailOK(s)'
      BY <2>1, <2>2, <2>4 DEF EmailOK
    <3>2. \A t \in Sessions \ {s} : EmailOK(t)' /\ (Entered(t)' <=> Entered(t))
      BY <1>1, <1>2, <2>1 DEF EmailOK, Editing, Matches, LiveUser, Entered
    <3>3. \A u \in UserIds : u # req[s].id => users[u].email # req[s].name
      BY <2>4 DEF EmailTaken
    <3>4. ASSUME NEW t \in Sessions \ {s}, Entered(t) PROVE req[t].name # req[s].name
      <4>1. Editing(t) /\ UserOK(t)
        BY <1>1, <3>4 DEF Entered, Editing
      <4>2. /\ userLock[req[t].id] = t /\ req[t].op \in {"user.create", "user.update"}
        BY <4>1 DEF UserOK
      <4>3. t \in UserWriters /\ pc[t] # "email"
        BY <3>4 DEF Entered, UserWriters
      <4> QED BY <2>1, <4>2, <4>3 DEF ContendsForEmail
    <3>5. EnteredAlone'
      <4>1. ASSUME NEW t \in Sessions, Entered(t)', NEW u \in UserIds, u # req[t].id
            PROVE  users[u].email # req[t].name
        <5>1. CASE t = s
          BY <3>3, <4>1, <5>1
        <5>2. CASE t # s
          BY <1>1, <3>2, <4>1, <5>2 DEF EnteredAlone
        <5> QED BY <5>1, <5>2
      <4>2. ASSUME NEW t \in Sessions, NEW u \in Sessions, Entered(t)', Entered(u)', t # u
            PROVE  req[t].name # req[u].name
        <5>1. CASE t = s
          BY <3>2, <3>4, <4>2, <5>1
        <5>2. CASE u = s
          BY <3>2, <3>4, <4>2, <5>2
        <5>3. CASE t # s /\ u # s
          BY <1>1, <3>2, <4>2, <5>3 DEF EnteredAlone
        <5> QED BY <5>1, <5>2, <5>3
      <4> QED BY <2>1, <4>1, <4>2 DEF EnteredAlone
    <3>6. EmailsUnique'
      BY <1>1, <2>1 DEF EmailsUnique, LiveUser
    <3> QED BY <3>1, <3>2, <3>5, <3>6
  <2> QED BY <2>3, <2>4
<1>14. CASE DropRoles(s)
  <2>1. /\ users' = users /\ req' = req /\ pc[s] = "drop"
        /\ req[s].op \in {"user.update", "user.delete"}
        /\ pc'[s] = IF req[s].op = "user.delete" THEN "remove_user" ELSE "lookup"
    BY <1>1, <1>14 DEF DropRoles, Goto, tables, TypeOK, UserOK
  <2>2. Entered(s)' => Entered(s)
    BY <2>1 DEF Entered
  <2>3. EmailOK(s)'
    BY <1>1, <2>1 DEF EmailOK, Editing
  <2> QED BY <1>3, <2>1, <2>2, <2>3
<1>15. CASE AddRole(s) \/ RolesDone(s) \/ \E n \in Names : LookUpRole(s, n)
  <2>1. /\ users' = users /\ req' = req /\ pc[s] \in {"lookup", "assign"}
        /\ pc'[s] \in {"lookup", "assign", "commit_user", "leaked_create", "refused"}
    BY <1>1, <1>15 DEF AddRole, RolesDone, LookUpRole, Failed, Goto, tables, TypeOK
  <2>2. Entered(s) /\ EmailOK(s)'
    BY <1>1, <2>1 DEF Entered, EmailOK, Editing
  <2> QED BY <1>3, <2>1, <2>2
<1>16. CASE CheckProtected(s) \/ RemoveUser(s)
  <2>1. /\ users' = users /\ req' = req /\ pc[s] \in {"protect", "remove_user"}
        /\ pc'[s] \in {"refused", "drop", "cascade"}
    BY <1>1, <1>16 DEF CheckProtected, RemoveUser, Goto, tables, TypeOK
  <2>2. req[s].op = "user.delete"
    BY <1>1, <2>1 DEF UserOK
  <2>3. ~Entered(s)' /\ EmailOK(s)'
    BY <2>1, <2>2 DEF Entered, EmailOK, Editing
  <2> QED BY <1>3, <2>1, <2>3
<1>17. CASE CommitUser(s)
  <2>1. /\ End(s) /\ pc[s] = "commit_user" /\ req[s].id \in UserIds
        /\ userLock[req[s].id] = s
        /\ \A u \in UserIds \ {req[s].id} : users'[u] = users[u]
        /\ users'[req[s].id].email = req[s].name
    BY <1>1, <1>17 DEF CommitUser, UserOK, Editing, TypeOK, UserRow
  <2> QED BY <1>6, <2>1 DEF Entered
<1>18. CASE CommitDeletion(s)
  <2>1. /\ End(s) /\ req[s].id \in UserIds /\ userLock[req[s].id] = s
        /\ \A u \in UserIds \ {req[s].id} : users'[u] = users[u]
        /\ users'[req[s].id].email = None
    BY <1>1, <1>18 DEF CommitDeletion, UserOK, TypeOK, UserRow, DeletedUser
  <2> QED BY <1>6, <2>1
<1>19. CASE \/ CommitRole(s) \/ CommitRemoval(s) \/ WriteMissed(s) \/ AnswerRefused(s)
            \/ EndRequest(s) \/ Abort(s)
  <2>1. /\ End(s)
        /\ \A u \in UserIds : users'[u].email = users[u].email
                                /\ users'[u].version = users[u].version
    BY <1>1, <1>19
    DEF CommitRole, CommitRemoval, WriteMissed, AnswerRefused, EndRequest, Abort, Refuse,
        tables, TypeOK
  <2> QED BY <1>5, <2>1
<1> QED
  BY <1>7, <1>8, <1>9, <1>10, <1>11, <1>12, <1>13, <1>14, <1>15, <1>16, <1>17, <1>18, <1>19
  DEF RoleStep, UserStep

LEMMA ChangedUser ==
  ASSUME IInv, NEW t \in Sessions, req[t].op = "user.update",
         pc[t] \in {"write_user", "email"}
  PROVE  req[t].id \in UserIds /\ req[t].id = view[t].user
BY DEF IInv, SessionOK, UserOK, Editing

LEMMA CircleStep ==
  ASSUME IInv, WaitInv, NEW s \in Sessions, RoleStep(s) \/ UserStep(s) \/ Abort(s)
  PROVE  NoCircle'
<1> USE AccountsAssumption
<1>1. TypeOK /\ NoCircle /\ EmailsUnique /\ \A t \in Sessions : UserOK(t) /\ ViewOK(t)
  BY DEF IInv, SessionOK, WaitInv
<1>2. \A t \in Sessions \ {s} : pc'[t] = pc[t] /\ req'[t] = req[t] /\ view'[t] = view[t]
  BY <1>1, OthersStay
\* The rows stay, as far as it matters, and s does not come to change one.
<1>3. ASSUME \A u \in UserIds : users'[u].email = users[u].email
                                  /\ users'[u].version = users[u].version,
             Changing(s)' => Changing(s) /\ req'[s] = req[s]
      PROVE  NoCircle'
  <2>1. ASSUME NEW t \in Sessions, Changing(t)'
        PROVE  Changing(t) /\ req'[t] = req[t] /\ req[t].id \in UserIds
    <3>1. CASE t = s
      BY <1>3, <2>1, <3>1, ChangedUser DEF Changing
    <3>2. CASE t # s
      <4>1. /\ pc'[t] = pc[t] /\ req'[t] = req[t] /\ view'[t] = view[t]
            /\ req[t].op = "user.update" /\ pc[t] \in {"write_user", "email"}
        BY <1>2, <2>1, <3>2 DEF Changing
      <4>2. req[t].id \in UserIds
        BY <4>1, ChangedUser
      <4> QED BY <1>3, <2>1, <4>1, <4>2 DEF Changing, Matches, LiveUser
    <3> QED BY <3>1, <3>2
  <2>2. ASSUME NEW t \in Sessions, NEW u \in Sessions,
               Changing(t)', Changing(u)', Wants(t, u)'
        PROVE  Wants(t, u)
    BY <1>3, <2>1, <2>2 DEF Wants
  <2> QED BY <1>1, <2>1, <2>2, CircleKept
<1>4. ASSUME users' = users,
             req'[s].op # "user.update" \/ pc'[s] \notin {"write_user", "email"}
      PROVE  NoCircle'
  BY <1>3, <1>4 DEF Changing
\* An update whose email is on no other row may begin.
<1>5. ASSUME users' = users,
             \A u \in UserIds : u # req'[s].id => users[u].email # req'[s].name
      PROVE  NoCircle'
  <2> SUFFICES ASSUME NEW D \in (SUBSET Sessions) \ {{}}, \A t \in D : Changing(t)'
               PROVE  \E t \in D : \A u \in D : ~Wants(t, u)'
    BY DEF NoCircle
  <2>1. \A t \in D \ {s} : Changing(t) /\ req'[t] = req[t] /\ req[t].id \in UserIds
    <3>1. \A t \in D \ {s} : Changing(t) /\ req'[t] = req[t]
      BY <1>2, <1>5 DEF Changing, Matches, LiveUser
    <3> QED BY <3>1, ChangedUser DEF Changing
  <2>2. CASE s \in D
    <3>1. \A u \in D : ~Wants(s, u)'
      BY <1>5, <2>1 DEF Wants
    <3> QED BY <2>2, <3>1
  <2>3. CASE s \notin D
    <3>1. PICK t \in D : \A u \in D : ~Wants(t, u)
      BY <1>1, <2>1, <2>3 DEF NoCircle
    <3>2. \A u \in D : ~Wants(t, u)'
      BY <1>5, <2>1, <2>3, <3>1 DEF Wants
    <3> QED BY <3>2
  <2> QED BY <2>2, <2>3
<1>6. CASE \/ ReadRoles(s) \/ (\E u \in UserIds : ReadUser(s, u))
           \/ \E q \in Asks : BeginRole(s, q) \/ BeginDelete(s, q) \/ BeginCreate(s, q)
  <2>1. /\ users' = users
        /\ pc'[s] \in {"idle", "read_roles", "insert_role", "find_role", "protect",
                       "check_email"}
    BY <1>1, <1>6
    DEF ReadRoles, ReadUser, BeginRole, BeginDelete, BeginCreate, Ask, Goto, tables, TypeOK
  <2> QED BY <1>4, <2>1
<1>7. ASSUME NEW q \in Asks, BeginUpdate(s, q) PROVE NoCircle'
  <2>1. /\ users' = users /\ req'[s] = q /\ q.op = "user.update" /\ LiveUser(q.id)
        /\ pc'[s] = IF users[q.id].email = q.name THEN "write_user" ELSE "check_email"
    BY <1>1, <1>7 DEF BeginUpdate, Ask, Goto, tables, TypeOK
  <2>2. q.id \in UserIds
    BY <2>1, AsksAssumption
  <2>3. CASE users[q.id].email = q.name
    BY <1>1, <1>5, <2>1, <2>2, <2>3 DEF EmailsUnique
  <2>4. CASE users[q.id].email # q.name
    BY <1>4, <2>1, <2>4
  <2> QED BY <2>3, <2>4
<1>8. CASE CheckEmail(s)
  <2>1. /\ users' = users /\ req' = req
        /\ pc'[s] = IF EmailTaken(s) THEN "refused" ELSE AfterCheck(s)
    BY <1>1, <1>8 DEF CheckEmail, Goto, tables, TypeOK
  <2>2. CASE EmailTaken(s)
    BY <1>4, <2>1, <2>2
  <2>3. CASE ~EmailTaken(s)
    BY <1>5, <2>1, <2>3 DEF EmailTaken
  <2> QED BY <2>2, <2>3
<1>9. CASE WriteUser(s)
  <2>1. /\ users' = users /\ req' = req /\ view' = view /\ pc[s] = "write_user"
    BY <1>9 DEF WriteUser, tables
  <2>2. Changing(s)' => Changing(s) /\ req'[s] = req[s]
    BY <2>1 DEF Changing, Matches, LiveUser
  <2> QED BY <1>3, <2>1, <2>2
<1>10. ASSUME NEW u \in UserIds, InsertUser(s, u) PROVE NoCircle'
  <2>1. /\ users' = users /\ pc[s] = "insert_user" /\ req' = [req EXCEPT ![s].id = u]
    BY <1>10 DEF InsertUser, tables
  <2>2. req[s] \in UserRequests /\ req[s].op = "user.create"
    BY <1>1, <2>1 DEF UserOK, UserPCs
  <2>3. req'[s].op = "user.create"
    BY <1>1, <2>1, <2>2 DEF TypeOK, UserRequests
  <2> QED BY <1>4, <2>1, <2>3
<1>11. CASE \/ FindForUpdate(s) \/ WriteRole(s) \/ EnterName(s) \/ ReplacePermissions(s)
            \/ CountHolders(s) \/ RemoveRole(s) \/ RemoveMissed(s) \/ CascadeRoles(s)
            \/ CheckProtected(s) \/ RemoveUser(s) \/ EnterEmail(s) \/ DropRoles(s)
            \/ AddRole(s) \/ RolesDone(s) \/ (\E n \in Names : LookUpRole(s, n))
            \/ \E r \in RoleIds : InsertRole(s, r)
  <2>1. users' = users
    BY <1>11
    DEF FindForUpdate, WriteRole, EnterName, ReplacePermissions, CountHolders, RemoveRole,
        RemoveMissed, CascadeRoles, CheckProtected, RemoveUser, EnterEmail, DropRoles,
        AddRole, RolesDone, LookUpRole, InsertRole, tables
  <2>2. pc'[s] \notin {"write_user", "email"}
    <3>1. CASE \/ FindForUpdate(s) \/ WriteRole(s) \/ EnterName(s) \/ ReplacePermissions(s)
               \/ CountHolders(s) \/ RemoveRole(s) \/ RemoveMissed(s) \/ CascadeRoles(s)
               \/ \E r \in RoleIds : InsertRole(s, r)
      BY <1>1, <3>1
      DEF FindForUpdate, WriteRole, EnterName, ReplacePermissions, CountHolders,
          RemoveRole, RemoveMissed, CascadeRoles, InsertRole, AfterFound, Goto, TypeOK
    <3>2. CASE CheckProtected(s) \/ RemoveUser(s) \/ EnterEmail(s) \/ DropRoles(s)
      BY <1>1, <3>2 DEF CheckProtected, RemoveUser, EnterEmail, DropRoles, Goto, TypeOK
    <3>3. CASE AddRole(s) \/ RolesDone(s) \/ \E n \in Names : LookUpRole(s, n)
      BY <1>1, <3>3 DEF AddRole, RolesDone, LookUpRole, Failed, Goto, TypeOK
    <3> QED BY <1>11, <3>1, <3>2, <3>3
  <2> QED BY <1>4, <2>1, <2>2
<1>12. CASE CommitUser(s) \/ CommitDeletion(s)
  <2> DEFINE p == req[s].id
  <2>1. /\ p \in UserIds /\ End(s) /\ users[p].version \in Nat
        /\ \A u \in UserIds \ {p} : users'[u] = users[u]
        /\ users'[p].email = None \/ users'[p].version = users[p].version + 1
    BY <1>1, <1>12
    DEF CommitUser, CommitDeletion, UserOK, Editing, TypeOK, UserRow, DeletedUser
  <2>2. pc'[s] = "idle"
    BY <1>1, <2>1 DEF End, Goto, TypeOK
  <2>3. ASSUME NEW t \in Sessions, Changing(t)'
        PROVE  Changing(t) /\ req'[t] = req[t] /\ req[t].id \in UserIds \ {p}
    <3>1. /\ t # s /\ pc'[t] = pc[t] /\ req'[t] = req[t] /\ view'[t] = view[t]
          /\ req[t].op = "user.update" /\ pc[t] \in {"write_user", "email"}
      BY <1>2, <2>2, <2>3 DEF Changing
    <3>2. req[t].id \in UserIds /\ req[t].id = view[t].user
      BY <3>1, ChangedUser
    <3>3. view[t].version \in Nat /\ view[t].version <= users[req[t].id].version
      BY <1>1, <3>2 DEF ViewOK, TypeOK
    <3>4. users'[req[t].id].email # None /\ users'[req[t].id].version = view[t].version
      BY <2>3, <3>1 DEF Changing, Matches, LiveUser
    <3>5. req[t].id # p
      <4>1. SUFFICES ASSUME req[t].id = p PROVE FALSE
        OBVIOUS
      <4>2. /\ users'[p].version = users[p].version + 1
            /\ users'[p].version = view[t].version /\ view[t].version <= users[p].version
        BY <2>1, <3>3, <3>4, <4>1
      <4> QED BY <2>1, <3>3, <4>2
    <3> QED BY <2>1, <2>3, <3>1, <3>2, <3>5 DEF Changing, Matches, LiveUser
  <2>4. ASSUME NEW t \in Sessions, NEW u \in Sessions,
               Changing(t)', Changing(u)', Wants(t, u)'
        PROVE  Wants(t, u)
    BY <2>1, <2>3, <2>4 DEF Wants
  <2> QED BY <1>1, <2>3, <2>4, CircleKept
<1>13. CASE \/ CommitRole(s) \/ CommitRemoval(s) \/ WriteMissed(s) \/ AnswerRefused(s)
            \/ EndRequest(s) \/ Abort(s)
  <2>1. /\ End(s)
        /\ \A u \in UserIds : users'[u].email = users[u].email
                                /\ users'[u].version = users[u].version
    BY <1>1, <1>13
    DEF CommitRole, CommitRemoval, WriteMissed, AnswerRefused, EndRequest, Abort, Refuse,
        tables, TypeOK
  <2>2. pc'[s] = "idle"
    BY <1>1, <2>1 DEF End, Goto, TypeOK
  <2> QED BY <1>3, <2>1, <2>2 DEF Changing
<1> QED
  BY <1>6, <1>7, <1>8, <1>9, <1>10, <1>11, <1>12, <1>13 DEF RoleStep, UserStep

LEMMA Waiting == Spec => []WaitInv
<1>1. Init => WaitInv
  <2> SUFFICES ASSUME Init PROVE WaitInv
    OBVIOUS
  <2>1. KeepersOK /\ NoCircle
    BY AccountsAssumption DEF Init, KeepersOK, NoCircle, Changing, NoRequest, Request
  <2>2. EnteredAlone /\ \A s \in Sessions : EmailOK(s)
    BY DEF Init, EnteredAlone, Entered, EmailOK, Editing
  <2>3. EmailsUnique
    BY AccountsAssumption DEF Init, EmailsUnique, LiveUser, UserRow, UnusedUser
  <2> QED BY <2>1, <2>2, <2>3 DEF WaitInv
<1>2. IInv /\ WaitInv /\ [Next]_vars => WaitInv'
  <2> SUFFICES ASSUME IInv, WaitInv, [Next]_vars PROVE WaitInv'
    OBVIOUS
  <2>1. ASSUME NEW s \in Sessions, RoleStep(s) \/ UserStep(s) \/ Abort(s) PROVE WaitInv'
    <3>1. KeepersOK
      BY DEF WaitInv
    <3> QED BY <2>1, <3>1, KeepersStep, EmailsStep, CircleStep DEF WaitInv
  <2>2. CASE UNCHANGED vars
    BY <2>2
    DEF vars, tables, locks, WaitInv, KeepersOK, KeepsUser, EnteredAlone, Entered,
        EmailsUnique, LiveUser, EmailOK, Editing, NoCircle, Changing, Wants, Matches
  <2> QED BY <2>1, <2>2 DEF Next
<1> QED BY <1>1, <1>2, InductiveInvariant, PTL DEF Spec

(* Requests wait for each other in a circle only if one deletes a user, two*)
(* edit roles, or one changes the email of the user who asked for another. *)
(* In any other set nobody waits to commit; who holds a role's row or the  *)
(* rows of user_roles does not wait; who waits for a user's row waits for  *)
(* one that waits for an email, and NoCircle excludes a circle of these.   *)
THEOREM OnlyTheseDeadlock == Spec => []OnlyKnownDeadlocks
<1>1. IInv /\ WaitInv => OnlyKnownDeadlocks
  <2> SUFFICES ASSUME IInv, WaitInv, NEW D \in (SUBSET Sessions) \ {{}},
                      \A s \in D : req[s].op # "user.delete",
                      \A s, t \in D : {req[s].op, req[t].op} \subseteq RoleOps => s = t,
                      \A s, t \in D : ~RenamesActor(t, s),
                      \A s \in D : \E t \in D : WaitsFor(s, t)
               PROVE  FALSE
    BY DEF OnlyKnownDeadlocks
  <2>1. /\ TypeOK /\ KeepersOK /\ NoCircle
        /\ \A s \in D : RoleOK(s) /\ UserOK(s) /\ ShareOK(s) /\ EmailOK(s)
        /\ \A s \in D : s \in Sessions /\ s # None
    BY AccountsAssumption DEF IInv, SessionOK, WaitInv
  \* Nobody waits to commit.
  <2>2. \A s, t \in D :
          WaitsFor(s, t) => s # t /\ (WaitsForRole(s, t) \/ WaitsForUser(s, t))
    BY DEF WaitsFor, WaitsForActor, ContendsForActor, RenamesActor
  <2>3. \A s \in D : pc[s] \in {"find_role", "write_role", "remove_role", "role_name",
                                "assign", "write_user", "email", "drop"}
    BY <2>1, <2>2 DEF WaitsForRole, WaitsForUser, UserOK, EmailOK
  \* Only one edits roles, and what it has locked is its own.
  <2>4. ASSUME NEW s \in D PROVE pc[s] \notin {"write_role", "remove_role", "role_name"}
    <3>1. SUFFICES ASSUME pc[s] \in {"write_role", "remove_role", "role_name"} PROVE FALSE
      OBVIOUS
    <3>2. PICK t \in D : WaitsFor(s, t)
      OBVIOUS
    <3>3. s # t /\ WaitsForRole(s, t)
      BY <2>2, <3>1, <3>2 DEF WaitsForUser
    <3>4. \A u \in D : pc[u] \in RolePCs => req[u].op \in RoleOps
      BY <2>1 DEF RoleOK, RoleRequests
    <3>5. CASE pc[s] = "role_name"
      <4>1. ContendsForName(s, t)
        BY <3>3, <3>5 DEF WaitsForRole
      <4>2. pc[t] \in RolePCs
        BY <4>1 DEF ContendsForName, RolePCs
      <4> QED BY <3>3, <3>4, <3>5, <4>2 DEF RolePCs
    <3>6. CASE pc[s] \in {"write_role", "remove_role"}
      <4>1. roleLock[req[s].id] = s /\ sharers[req[s].id] = {}
        BY <2>1, <3>6 DEF RoleOK, RolePCs
      <4>2. roleLock[req[s].id] = t \/ t \in sharers[req[s].id]
        BY <3>3, <3>6 DEF WaitsForRole
      <4> QED BY <3>3, <4>1, <4>2
    <3> QED BY <3>1, <3>5, <3>6
  <2>5. \A s \in D : pc[s] \notin RoleKeepers
    BY <2>3, <2>4 DEF RoleKeepers, RolePCs
  <2>6. ASSUME NEW s \in D PROVE pc[s] # "assign"
    <3>1. SUFFICES ASSUME pc[s] = "assign" PROVE FALSE
      OBVIOUS
    <3>2. PICK t \in D : WaitsFor(s, t)
      OBVIOUS
    <3>3. roleLock[work[s].role] = t /\ work[s].role \in RoleIds
      BY <2>1, <2>2, <3>1, <3>2 DEF WaitsForRole, WaitsForUser, UserOK
    <3>4. pc[t] \in RoleKeepers
      BY <2>1, <3>3 DEF KeepersOK
    <3> QED BY <2>5, <3>4
  <2>7. ASSUME NEW s \in D PROVE pc[s] # "find_role"
    <3>1. SUFFICES ASSUME pc[s] = "find_role" PROVE FALSE
      OBVIOUS
    <3>2. PICK t \in D : WaitsFor(s, t)
      OBVIOUS
    <3>3. /\ req[s].id \in RoleIds
          /\ roleLock[req[s].id] = t \/ t \in sharers[req[s].id]
      BY <2>1, <2>2, <3>1, <3>2 DEF WaitsForRole, WaitsForUser, RoleOK, RolePCs
    <3>4. CASE roleLock[req[s].id] = t
      <4>1. pc[t] \in RoleKeepers
        BY <2>1, <3>3, <3>4 DEF KeepersOK
      <4> QED BY <2>5, <4>1
    <3>5. CASE t \in sharers[req[s].id]
      BY <2>1, <2>3, <2>6, <3>3, <3>5 DEF ShareOK
    <3> QED BY <3>3, <3>4, <3>5
  <2>8. ASSUME NEW s \in D PROVE pc[s] # "drop"
    <3>1. SUFFICES ASSUME pc[s] = "drop" PROVE FALSE
      OBVIOUS
    <3>2. PICK t \in D : WaitsFor(s, t)
      OBVIOUS
    <3>3. req[s].id \in UserIds /\ linkLock[req[s].id] = t
      BY <2>1, <2>2, <3>1, <3>2 DEF WaitsForRole, WaitsForUser, UserOK
    <3>4. pc[t] \in LinkKeepers
      BY <2>1, <3>3 DEF KeepersOK
    <3> QED BY <2>3, <2>6, <3>4 DEF LinkKeepers
  <2>9. \A s \in D : pc[s] \in {"write_user", "email"}
    BY <2>3, <2>4, <2>6, <2>7, <2>8
  \* Who holds a user's row and waits is entering its email.
  <2>10. ASSUME NEW s \in D, NEW t \in D, WaitsFor(s, t) PROVE pc[t] = "email"
    <3>1. CASE pc[s] = "write_user"
      <4>1. req[s].id \in UserIds /\ userLock[req[s].id] = t
        BY <2>1, <2>2, <2>10, <3>1 DEF WaitsForRole, WaitsForUser, UserOK
      <4>2. KeepsUser(t)
        BY <2>1, <4>1 DEF KeepersOK
      <4> QED BY <2>9, <4>2 DEF KeepsUser, Entered
    <3>2. CASE pc[s] = "email"
      <4>1. t \in UserWriters
        BY <2>2, <2>10, <3>2 DEF WaitsForRole, WaitsForUser, ContendsForEmail
      <4> QED BY <2>9, <4>1 DEF UserWriters
    <3> QED BY <2>9, <3>1, <3>2
  <2> DEFINE E == {t \in D : pc[t] = "email" /\ req[t].op = "user.update"}
  <2>11. ASSUME NEW s \in D, NEW t \in D, WaitsFor(s, t), pc[s] = "email"
         PROVE  t \in E /\ Wants(s, t)
    <3>1. pc[t] = "email" /\ s # t
      BY <2>2, <2>10, <2>11
    <3>2. users[req[t].id].email = req[s].name
      BY <2>2, <2>11, <3>1 DEF WaitsForRole, WaitsForUser, ContendsForEmail
    <3>3. /\ req[s].name # None /\ userLock[req[s].id] = s /\ userLock[req[t].id] = t
      BY <2>1, <2>11, <3>1, AccountsAssumption DEF EmailOK, UserOK, Editing
    <3>4. req[t].op = "user.update"
      BY <2>1, <3>1, <3>2, <3>3 DEF EmailOK, LiveUser
    <3> QED BY <3>1, <3>2, <3>3, <3>4 DEF Wants
  <2>12. \A s \in E : Changing(s)
    BY <2>1 DEF Changing, EmailOK
  <2>13. E \in (SUBSET Sessions) \ {{}}
    <3>1. PICK s \in D, t \in D : WaitsFor(s, t)
      OBVIOUS
    <3>2. PICK u \in D : WaitsFor(t, u)
      OBVIOUS
    <3> QED BY <2>1, <2>10, <2>11, <3>1, <3>2
  <2>14. PICK s \in E : \A t \in E : ~Wants(s, t)
    BY <2>1, <2>12, <2>13 DEF NoCircle
  <2> QED BY <2>11, <2>14
<1> QED BY <1>1, InductiveInvariant, Waiting, PTL
=============================================================================
