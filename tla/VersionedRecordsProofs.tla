----------------------- MODULE VersionedRecordsProofs -----------------------
(***************************************************************************)
(* Proofs about VersionedRecords, for every set of sessions, records and   *)
(* codes.                                                                  *)
(***************************************************************************)
EXTENDS VersionedRecords, TLAPS

(* What the statement a session runs next knows of its request and row.    *)
SessionOK(s) ==
  /\ req[s].version > 0 => req[s].record \in Records
  /\ pc[s] \in {"ask", "delete", "leaked"} => req[s].record \in Records
  /\ pc[s] = "ask" => req[s].version > 0
  /\ pc[s] \in {"check", "write", "index", "commit"} => req[s].version < MaxVersion
  /\ pc[s] \in {"index", "commit"} =>
       /\ req[s].code \in Codes
       /\ req[s].record \in Records
       /\ lock[req[s].record] = s
       /\ Matches(s)
  /\ pc[s] = "commit_delete" =>
       /\ req[s].record \in Records
       /\ lock[req[s].record] = s
       /\ ~Row(s).deleted
  /\ pc[s] \in {"check", "write"} => req[s].code \in Codes

(* An author's view is up to date exactly if the version is and nobody has *)
(* deleted the record: versions only grow, and deletion is for good.       *)
ViewOK(s) ==
  /\ s \in fresh => req[s].version > 0 /\ Matches(s)
  /\ req[s].version > 0 /\ s \notin fresh =>
       req[s].version < Row(s).version \/ Row(s).deleted
  /\ pc[s] = "ask" => s \notin fresh

IInv == TypeOK /\ (\A s \in Sessions : SessionOK(s) /\ ViewOK(s))

-----------------------------------------------------------------------------
(* A statement that takes a lock for s, or the end of the transaction of s,*)
(* takes no lock from anybody else.                                        *)
LEMMA OthersKeepLocks ==
  ASSUME TypeOK, NEW s \in Sessions, NEW t \in Sessions \ {s}, NEW q \in Records,
         \/ UNCHANGED lock
         \/ \E r \in Records : Lock(s, r)
         \/ End(s),
         lock[q] = t
  PROVE  lock'[q] = t
<1>1. CASE \E r \in Records : Lock(s, r)
  BY <1>1, RecordsAssumption DEF Lock, TypeOK
<1>2. CASE End(s)
  BY <1>2 DEF End, TypeOK
<1> QED BY <1>1, <1>2

LEMMA InitHolds == Init => IInv
BY RecordsAssumption
DEF Init, IInv, TypeOK, SessionOK, ViewOK, Rows, Requests, Request, Absent, Matches, Row

-----------------------------------------------------------------------------
(* Steps that change nothing but where s is and which locks it holds.      *)
LEMMA LocalStep ==
  ASSUME IInv, NEW s \in Sessions, UNCHANGED <<table, req, fresh>>,
         NEW label \in {"idle", "write", "index", "commit", "ask",
                        "commit_delete", "leaked"},
         Goto(s, label),
         \/ UNCHANGED lock
         \/ \E r \in Records : Lock(s, r)
         \/ End(s),
         SessionOK(s)', ViewOK(s)'
  PROVE  IInv'
<1>1. TypeOK'
  <2>1. lock' \in [Records -> Sessions \cup {NoOne}]
    BY DEF IInv, TypeOK, Lock, End
  <2> QED BY <2>1 DEF IInv, TypeOK, Goto
<1>2. ASSUME NEW t \in Sessions \ {s}
      PROVE  SessionOK(t)' /\ ViewOK(t)'
  <2>1. SessionOK(t) /\ ViewOK(t)
    BY DEF IInv
  <2>2. pc'[t] = pc[t]
    BY DEF IInv, TypeOK, Goto
  <2>3. \A q \in Records : lock[q] = t => lock'[q] = t
    BY OthersKeepLocks DEF IInv
  <2>4. Matches(t)' = Matches(t) /\ Row(t)' = Row(t)
    BY DEF Matches, Row
  <2> QED BY <2>1, <2>2, <2>3, <2>4 DEF SessionOK, ViewOK
<1> QED BY <1>1, <1>2 DEF IInv

(* Steps in which s takes up another request and starts at label.          *)
LEMMA RequestStep ==
  ASSUME IInv, NEW s \in Sessions, UNCHANGED <<table, lock>>,
         NEW q \in Requests, req' = [req EXCEPT ![s] = q],
         NEW label \in {"idle", "check", "delete"}, Goto(s, label),
         fresh' \subseteq Sessions, fresh' \ {s} = fresh \ {s},
         SessionOK(s)', ViewOK(s)'
  PROVE  IInv'
<1>1. TypeOK'
  BY DEF IInv, TypeOK, Goto
<1>2. ASSUME NEW t \in Sessions \ {s}
      PROVE  SessionOK(t)' /\ ViewOK(t)'
  <2>1. SessionOK(t) /\ ViewOK(t)
    BY DEF IInv
  <2>2. pc'[t] = pc[t] /\ req'[t] = req[t] /\ (t \in fresh' <=> t \in fresh)
    BY DEF IInv, TypeOK, Goto
  <2>3. Matches(t)' = Matches(t) /\ Row(t)' = Row(t)
    BY <2>2 DEF Matches, Row
  <2> QED BY <2>1, <2>2, <2>3 DEF SessionOK, ViewOK
<1> QED BY <1>1, <1>2 DEF IInv

(* COMMIT: s, which holds the lock of its row, replaces it by a newer one. *)
LEMMA PublishStep ==
  ASSUME IInv, NEW s \in Sessions, pc[s] \in {"commit", "commit_delete"},
         NEW row \in Rows, Publish(s, row),
         row.version > Row(s).version \/ (row.version = Row(s).version /\ row.deleted)
  PROVE  IInv'
<1> DEFINE r == req[s].record
<1>1. SessionOK(s) /\ ViewOK(s) /\ TypeOK
  BY DEF IInv
<1>2. r \in Records /\ lock[r] = s
  BY <1>1 DEF SessionOK
<1>3. TypeOK'
  BY <1>1, <1>2 DEF TypeOK, Publish, End, Goto
<1>4. req' = req /\ pc'[s] = "idle"
  BY <1>1 DEF Publish, End, Goto, TypeOK
<1>5. ~Row(s).deleted /\ Row(s) \in Rows
  BY <1>1, <1>2 DEF SessionOK, Matches, Row, TypeOK
<1>6. Row(s)' = row
  BY <1>1, <1>2 DEF Row, Publish, TypeOK
<1>7. ASSUME NEW t \in Sessions, req[t].version > 0, req[t].record = r
      PROVE  ViewOK(t)'
  <2>1. ViewOK(t)
    BY DEF IInv
  <2>2. t \notin fresh'
    BY <1>7 DEF Publish
  <2>3. Row(t) = Row(s) /\ Row(t)' = row /\ req'[t] = req[t]
    BY <1>4, <1>6, <1>7 DEF Row
  <2>4. req[t].version <= Row(s).version
    <3>1. req[t].version \in Nat /\ Row(s).version \in Nat
      BY <1>1, <1>5, RecordsAssumption DEF TypeOK, Requests, Rows
    <3> QED BY <2>1, <2>3, <3>1, <1>5, <1>7 DEF ViewOK, Matches
  <2>5. req[t].version < row.version \/ row.deleted
    BY <1>1, <1>5, <2>4, RecordsAssumption DEF TypeOK, Requests, Rows
  <2> QED BY <2>2, <2>3, <2>5 DEF ViewOK
<1>8. ASSUME NEW t \in Sessions, req[t].version > 0, req[t].record # r
      PROVE  ViewOK(t)'
  <2>1. ViewOK(t) /\ req[t].record \in Records
    BY <1>8 DEF IInv, SessionOK
  <2>2. Row(t)' = Row(t) /\ (t \in fresh' <=> t \in fresh) /\ req'[t] = req[t]
    BY <1>1, <1>4, <1>8, <2>1 DEF Row, Publish, TypeOK
  <2>3. pc'[t] = "ask" => pc[t] = "ask"
    BY <1>1 DEF Publish, End, Goto, TypeOK
  <2> QED BY <2>1, <2>2, <2>3 DEF ViewOK, Matches
<1>9. ASSUME NEW t \in Sessions, ~(req[t].version > 0)
      PROVE  ViewOK(t)'
  <2>1. ViewOK(t) /\ SessionOK(t)
    BY DEF IInv
  <2>2. pc'[t] = "ask" => pc[t] = "ask"
    BY <1>1 DEF Publish, End, Goto, TypeOK
  <2> QED BY <1>4, <1>9, <2>1, <2>2 DEF ViewOK, SessionOK, Publish
<1>10. ASSUME NEW t \in Sessions \ {s}
       PROVE  SessionOK(t)'
  <2>1. SessionOK(t)
    BY DEF IInv
  <2>2. pc'[t] = pc[t] /\ req'[t] = req[t]
    BY <1>1, <1>4 DEF Publish, End, Goto, TypeOK
  <2>3. \A q \in Records : lock[q] = t => lock'[q] = t
    BY <1>1, OthersKeepLocks DEF Publish
  <2>4. CASE req[t].record = r
    BY <1>2, <2>1, <2>2, <2>3, <2>4 DEF SessionOK
  <2>5. CASE req[t].record # r /\ req[t].record \in Records
    <3>1. Row(t)' = Row(t)
      BY <1>1, <2>2, <2>5 DEF Row, Publish, TypeOK
    <3>2. Matches(t)' = Matches(t)
      BY <2>2, <3>1 DEF Matches
    <3> QED BY <2>1, <2>2, <2>3, <3>1, <3>2 DEF SessionOK
  <2>6. CASE req[t].record \notin Records
    BY <2>1, <2>2, <2>6 DEF SessionOK
  <2> QED BY <2>4, <2>5, <2>6
<1>11. SessionOK(s)'
  BY <1>1, <1>4 DEF SessionOK
<1> QED BY <1>3, <1>7, <1>8, <1>9, <1>10, <1>11 DEF IInv

-----------------------------------------------------------------------------
LEMMA NextStep ==
  ASSUME IInv, Next
  PROVE  IInv'
<1>1. PICK s \in Sessions : Step(s)
  BY DEF Next
<1>2. TypeOK /\ SessionOK(s) /\ ViewOK(s)
  BY DEF IInv
<1>3. ASSUME NEW r \in Records, Read(s, r)
      PROVE  IInv'
  <2> DEFINE q == Request(r, table[r].version, table[r].code)
  <2>1. q \in Requests /\ q.version > 0 /\ q.record = r
    BY <1>2, <1>3 DEF Read, Live, Request, Requests, Rows, TypeOK
  <2>2. req'[s] = q /\ pc'[s] = "idle" /\ Row(s)' = table[r]
    BY <1>2, <1>3, <2>1 DEF Read, Row, TypeOK
  <2>3. SessionOK(s)' /\ ViewOK(s)'
    BY <1>2, <1>3, <2>1, <2>2 DEF SessionOK, ViewOK, Matches, Read, Live, Request
  <2>4. Goto(s, "idle") /\ fresh' \subseteq Sessions /\ fresh' \ {s} = fresh \ {s}
    BY <1>2, <1>3 DEF Read, Goto, TypeOK
  <2> HIDE DEF q
  <2>5. req' = [req EXCEPT ![s] = q] /\ UNCHANGED <<table, lock>>
    BY <1>3 DEF Read, q
  <2> QED BY <2>1, <2>3, <2>4, <2>5, RequestStep
<1>4. ASSUME NEW r \in Records, BeginDelete(s, r)
      PROVE  IInv'
  <2> DEFINE q == Request(r, 0, NoCode)
  <2>1. q \in Requests /\ q.version = 0 /\ q.record = r
    BY RecordsAssumption DEF Request, Requests
  <2>2. req'[s] = q /\ pc'[s] = "delete" /\ s \notin fresh'
    BY <1>2, <1>4 DEF BeginDelete, Goto, TypeOK
  <2>3. SessionOK(s)' /\ ViewOK(s)'
    BY <2>1, <2>2 DEF SessionOK, ViewOK
  <2>4. Goto(s, "delete") /\ fresh' \subseteq Sessions /\ fresh' \ {s} = fresh \ {s}
    BY <1>2, <1>4 DEF BeginDelete, TypeOK
  <2> HIDE DEF q
  <2>5. req' = [req EXCEPT ![s] = q] /\ UNCHANGED <<table, lock>>
    BY <1>4 DEF BeginDelete, q
  <2> QED BY <2>1, <2>3, <2>4, <2>5, RequestStep
<1>5. ASSUME NEW c \in Codes, BeginCreate(s, c)
      PROVE  IInv'
  <2> DEFINE q == Request(NoRecord, 0, c)
  <2>1. q \in Requests /\ q.version = 0 /\ q.code = c
    BY RecordsAssumption DEF Request, Requests
  <2>2. req'[s] = q /\ pc'[s] = "check" /\ s \notin fresh'
    BY <1>2, <1>5 DEF BeginCreate, Goto, TypeOK
  <2>3. SessionOK(s)' /\ ViewOK(s)'
    BY <2>1, <2>2, RecordsAssumption DEF SessionOK, ViewOK
  <2>4. Goto(s, "check") /\ fresh' \subseteq Sessions /\ fresh' \ {s} = fresh \ {s}
    BY <1>2, <1>5 DEF BeginCreate, TypeOK
  <2> HIDE DEF q
  <2>5. req' = [req EXCEPT ![s] = q] /\ UNCHANGED <<table, lock>>
    BY <1>5 DEF BeginCreate, q
  <2> QED BY <2>1, <2>3, <2>4, <2>5, RequestStep
<1>6. ASSUME NEW c \in Codes, BeginUpdate(s, c)
      PROVE  IInv'
  <2> DEFINE q == [req[s] EXCEPT !.code = c]
  <2>1. q \in Requests /\ q.version = req[s].version
        /\ q.record = req[s].record /\ q.code = c
    BY <1>2 DEF TypeOK, Requests
  <2>2. req' = [req EXCEPT ![s] = q] /\ req'[s] = q /\ pc'[s] = "check"
    BY <1>2, <1>6 DEF BeginUpdate, Goto, TypeOK
  <2>3. Row(s)' = Row(s) /\ Matches(s)' = Matches(s) /\ fresh' = fresh
    BY <1>6, <2>1, <2>2 DEF BeginUpdate, Row, Matches
  <2>4. req[s].version \in 1..MaxVersion - 1
    BY <1>6 DEF BeginUpdate
  <2> HIDE DEF q
  <2>5. SessionOK(s)'
    BY <1>2, <2>1, <2>2, <2>4, RecordsAssumption DEF SessionOK
  <2>6. ViewOK(s)'
    BY <1>2, <2>1, <2>2, <2>3 DEF ViewOK
  <2>7. Goto(s, "check") /\ fresh' \subseteq Sessions /\ UNCHANGED <<table, lock>>
    BY <1>2, <1>6 DEF BeginUpdate, TypeOK
  <2> QED BY <2>1, <2>2, <2>3, <2>5, <2>6, <2>7, RequestStep
<1>7. ASSUME NEW r \in Records, InsertRow(s, r)
      PROVE  IInv'
  <2>1. pc' = [pc EXCEPT ![s] = "index"] /\ lock' = [lock EXCEPT ![r] = s]
        /\ req' = [req EXCEPT ![s].record = r] /\ lock[r] = NoOne
        /\ req[s].version = 0 /\ pc[s] = "write" /\ table[r] = Absent
        /\ UNCHANGED <<table, fresh>>
    BY <1>7 DEF InsertRow, Goto, Lock
  <2>2. TypeOK'
    BY <1>2, <2>1 DEF TypeOK, Requests
  <2>3. ASSUME NEW t \in Sessions \ {s}
        PROVE  SessionOK(t)' /\ ViewOK(t)'
    <3>1. SessionOK(t) /\ ViewOK(t)
      BY DEF IInv
    <3>2. pc'[t] = pc[t] /\ req'[t] = req[t]
      BY <1>2, <2>1 DEF TypeOK
    <3>3. \A q \in Records : lock[q] = t => lock'[q] = t
      BY <1>2, <2>1, RecordsAssumption DEF TypeOK
    <3>4. Matches(t)' = Matches(t) /\ Row(t)' = Row(t)
      BY <2>1, <3>2 DEF Matches, Row
    <3> QED BY <2>1, <3>1, <3>2, <3>3, <3>4 DEF SessionOK, ViewOK
  <2>4. req'[s].version = 0 /\ req'[s].record = r /\ req'[s].code = req[s].code
    BY <1>2, <2>1 DEF TypeOK, Requests
  <2>5. pc'[s] = "index" /\ lock'[r] = s /\ Row(s)' = Absent
    BY <1>2, <2>1, <2>4 DEF TypeOK, Row
  <2>6. SessionOK(s)'
    BY <1>2, <2>1, <2>4, <2>5, RecordsAssumption DEF SessionOK, Matches, Absent
  <2>7. s \notin fresh'
    BY <1>2, <2>1 DEF ViewOK
  <2>8. ViewOK(s)'
    BY <2>4, <2>7 DEF ViewOK
  <2> QED BY <2>2, <2>3, <2>6, <2>8 DEF IInv
<1>8. ASSUME CommitWrite(s)
      PROVE  IInv'
  <2> DEFINE row == [version |-> Row(s).version + 1, code |-> req[s].code,
                     deleted |-> FALSE]
  <2>1. Row(s) \in Rows /\ Row(s).version < MaxVersion /\ req[s].code \in Codes
    BY <1>2, <1>8, RecordsAssumption
    DEF CommitWrite, SessionOK, Matches, Row, TypeOK, Requests
  <2>2. row \in Rows /\ row.version > Row(s).version
    BY <2>1, RecordsAssumption DEF Rows
  <2>3. Publish(s, row) /\ pc[s] = "commit"
    BY <1>8 DEF CommitWrite
  <2> HIDE DEF row
  <2> QED BY <2>2, <2>3, PublishStep
<1>9. ASSUME CommitDelete(s)
      PROVE  IInv'
  <2> DEFINE row == [Row(s) EXCEPT !.deleted = TRUE]
  <2>1. Row(s) \in Rows
    BY <1>2, <1>9 DEF CommitDelete, SessionOK, Row, TypeOK
  <2>2. row \in Rows /\ row.version = Row(s).version /\ row.deleted
    BY <2>1 DEF Rows
  <2>3. Publish(s, row) /\ pc[s] = "commit_delete"
    BY <1>9 DEF CommitDelete
  <2> HIDE DEF row
  <2> QED BY <2>2, <2>3, PublishStep
<1>10. CASE CheckCode(s)
  <2>1. PICK label \in {"idle", "write"} : Goto(s, label)
    BY <1>10 DEF CheckCode
  <2>2. pc[s] = "check" /\ pc'[s] = label /\ UNCHANGED <<table, lock, req, fresh>>
    BY <1>2, <1>10, <2>1 DEF CheckCode, Goto, TypeOK
  <2>3. SessionOK(s)' /\ ViewOK(s)'
    BY <1>2, <2>2 DEF SessionOK, ViewOK, Matches, Row
  <2> QED BY <2>1, <2>2, <2>3, LocalStep
<1>11. CASE UpdateRow(s)
  <2>1. pc[s] = "write" /\ pc'[s] = "index" /\ req[s].version > 0 /\ Matches(s)
        /\ UNCHANGED <<table, req, fresh>>
    BY <1>2, <1>11 DEF UpdateRow, Goto, TypeOK
  <2>2. req[s].record \in Records /\ lock'[req[s].record] = s
    BY <1>2, <1>11, <2>1 DEF UpdateRow, Lock, SessionOK, TypeOK
  <2>3. SessionOK(s)' /\ ViewOK(s)'
    BY <1>2, <2>1, <2>2 DEF SessionOK, ViewOK, Matches, Row
  <2>4. Goto(s, "index") /\ \E r \in Records : Lock(s, r)
    BY <1>11, <2>2 DEF UpdateRow
  <2> QED BY <2>1, <2>3, <2>4, LocalStep
<1>12. CASE UpdateMissed(s)
  <2>1. pc[s] = "write" /\ pc'[s] = "ask" /\ req[s].version > 0 /\ ~Matches(s)
        /\ UNCHANGED <<table, req, fresh>> /\ Goto(s, "ask")
    BY <1>2, <1>12 DEF UpdateMissed, Goto, TypeOK
  <2>2. s \notin fresh /\ req[s].record \in Records
    BY <1>2, <2>1 DEF SessionOK, ViewOK
  <2>3. SessionOK(s)' /\ ViewOK(s)'
    BY <1>2, <2>1, <2>2 DEF SessionOK, ViewOK, Matches, Row
  <2>4. UNCHANGED lock \/ \E r \in Records : Lock(s, r)
    BY <1>12, <2>2 DEF UpdateMissed
  <2> QED BY <2>1, <2>3, <2>4, LocalStep
<1>13. CASE InsertCode(s)
  <2>1. PICK label \in {"idle", "commit"} :
          Goto(s, label) /\ (UNCHANGED lock \/ End(s)) /\ (label = "commit" => UNCHANGED lock)
    BY <1>13 DEF InsertCode, End
  <2>2. pc[s] = "index" /\ pc'[s] = label /\ UNCHANGED <<table, req, fresh>>
    BY <1>2, <1>13, <2>1 DEF InsertCode, Goto, TypeOK
  <2>3. SessionOK(s)' /\ ViewOK(s)'
    BY <1>2, <2>1, <2>2 DEF SessionOK, ViewOK, Matches, Row
  <2> QED BY <2>1, <2>2, <2>3, LocalStep
<1>14. CASE DeleteRow(s)
  <2>1. pc[s] = "delete" /\ pc'[s] = "commit_delete" /\ ~Row(s).deleted
        /\ UNCHANGED <<table, req, fresh>> /\ Goto(s, "commit_delete")
    BY <1>2, <1>14 DEF DeleteRow, Goto, TypeOK
  <2>2. req[s].record \in Records /\ lock'[req[s].record] = s
    BY <1>2, <1>14, <2>1 DEF DeleteRow, Lock, SessionOK, TypeOK
  <2>3. SessionOK(s)' /\ ViewOK(s)'
    BY <1>2, <2>1, <2>2 DEF SessionOK, ViewOK, Matches, Row
  <2>4. \E r \in Records : Lock(s, r)
    BY <1>14, <2>2 DEF DeleteRow
  <2> QED BY <2>1, <2>3, <2>4, LocalStep
<1>15. CASE DeleteMissed(s)
  <2>1. pc[s] = "delete" /\ pc'[s] = "leaked"
        /\ UNCHANGED <<table, req, fresh>> /\ Goto(s, "leaked")
    BY <1>2, <1>15 DEF DeleteMissed, Goto, TypeOK
  <2>2. req[s].record \in Records
    BY <1>2, <2>1 DEF SessionOK
  <2>3. SessionOK(s)' /\ ViewOK(s)'
    BY <1>2, <2>1, <2>2 DEF SessionOK, ViewOK, Matches, Row
  <2>4. UNCHANGED lock \/ \E r \in Records : Lock(s, r)
    BY <1>15, <2>2 DEF DeleteMissed
  <2> QED BY <2>1, <2>3, <2>4, LocalStep
<1>16. CASE AnswerMissed(s) \/ EndRequest(s) \/ Abort(s)
  <2>1. End(s) /\ UNCHANGED <<table, req, fresh>>
    BY <1>16 DEF AnswerMissed, EndRequest, Abort
  <2>2. pc'[s] = "idle" /\ Goto(s, "idle")
    BY <1>2, <2>1 DEF End, Goto, TypeOK
  <2>3. SessionOK(s)' /\ ViewOK(s)'
    BY <1>2, <2>1, <2>2 DEF SessionOK, ViewOK, Matches, Row
  <2> QED BY <2>1, <2>2, <2>3, LocalStep
<1> QED
  BY <1>1, <1>3, <1>4, <1>5, <1>6, <1>7, <1>8, <1>9, <1>10, <1>11, <1>12, <1>13,
     <1>14, <1>15, <1>16 DEF Step

LEMMA Inductive == Spec => []IInv
<1>1. IInv /\ UNCHANGED vars => IInv'
  BY DEF IInv, TypeOK, SessionOK, ViewOK, Matches, Row, vars
<1>2. IInv /\ [Next]_vars => IInv'
  BY <1>1, NextStep
<1> QED BY InitHolds, <1>2, PTL DEF Spec

-----------------------------------------------------------------------------
(* Every variable keeps its type, and no version passes the bound that     *)
(* BeginUpdate puts on it: an update is applied to the version it names.   *)
THEOREM RecordsTypeCorrect == Spec => []TypeOK
<1>1. IInv => TypeOK
  BY DEF IInv
<1> QED BY Inductive, <1>1, PTL

(* No update overwrites an edit or a deletion its author has not seen.     *)
THEOREM NothingUnseenIsOverwritten == Spec => []NoBlindOverwrite
<1>1. IInv => NoBlindOverwrite
  <2> SUFFICES ASSUME IInv, NEW s \in Sessions,
                      pc[s] \in {"index", "commit"}, req[s].version > 0
               PROVE  s \in fresh
    BY DEF NoBlindOverwrite
  <2>1. SessionOK(s) /\ ViewOK(s) /\ TypeOK
    BY DEF IInv
  <2>2. Matches(s) /\ req[s].version \in Nat
    BY <2>1, RecordsAssumption DEF SessionOK, TypeOK, Requests
  <2> QED BY <2>1, <2>2 DEF ViewOK, Matches
<1> QED BY Inductive, <1>1, PTL

(* An update that finds no row was sent with an outdated version.          *)
THEOREM ConflictsAreReal == Spec => []NoFalseConflict
<1>1. IInv => NoFalseConflict
  BY DEF IInv, ViewOK, NoFalseConflict
<1> QED BY Inductive, <1>1, PTL

(* No step of any request changes a deleted record.                        *)
THEOREM DeletionIsForGood == Spec => DeletedStaysDeleted
<1> DEFINE Same == \A r \in Records : table[r].deleted => table'[r] = table[r]
<1>1. ASSUME IInv, NEW s \in Sessions, NEW row, Publish(s, row),
             pc[s] \in {"commit", "commit_delete"}
      PROVE  Same
  <2>1. SessionOK(s) /\ TypeOK
    BY <1>1 DEF IInv
  <2>2. ~table[req[s].record].deleted
    BY <1>1, <2>1 DEF SessionOK, Matches, Row
  <2> QED BY <1>1, <2>1, <2>2 DEF Publish, TypeOK
<1>2. ASSUME IInv, NEW s \in Sessions, Step(s)
      PROVE  Same
  <2>1. CASE UNCHANGED table
    BY <2>1
  <2>2. CASE CommitWrite(s)
    BY <1>1, <1>2, <2>2 DEF CommitWrite
  <2>3. CASE CommitDelete(s)
    BY <1>1, <1>2, <2>3 DEF CommitDelete
  <2> QED
    BY <1>2, <2>1, <2>2, <2>3
    DEF Step, Read, BeginDelete, InsertRow, BeginUpdate, BeginCreate, CheckCode,
        UpdateRow, UpdateMissed, AnswerMissed, InsertCode, DeleteRow, DeleteMissed,
        EndRequest, Abort
<1>3. IInv /\ [Next]_vars => [Same]_vars
  BY <1>2 DEF Next, vars
<1> QED BY Inductive, <1>3, PTL DEF Spec, DeletedStaysDeleted

-----------------------------------------------------------------------------
(* A row is held only by a request for that very row, between its UPDATE,  *)
(* INSERT or SELECT ... FOR UPDATE and the end of its transaction.         *)
HoldersOK ==
  \A r \in Records : lock[r] # NoOne =>
    /\ req[lock[r]].record = r
    /\ pc[lock[r]] \in {"index", "commit", "commit_delete", "ask", "leaked"}

(* An identifier that is not used has no code.                             *)
RowsOK == \A r \in Records : table[r].version = 0 => table[r].code = NoCode

(* An update past CheckCode whose condition holds as the rows are.         *)
Editing(s) == pc[s] \in {"write", "index"} /\ req[s].version > 0 /\ Matches(s)

(* s wants the code of the row t updates.                                  *)
Wants(s, t) == req[s].record # req[t].record /\ Row(t).code = req[s].code

(* Updates under way never want each other's codes in a circle: the last   *)
(* to run CheckCode has found its code on no other row, and no row changes *)
(* its code while an update matches it.                                    *)
NoCircle ==
  \A D \in (SUBSET Sessions) \ {{}} :
    (\A s \in D : Editing(s)) => \E s \in D : \A t \in D : ~Wants(s, t)

WaitInv == HoldersOK /\ RowsOK /\ NoCircle

(* Steps that let no session start editing, and change neither the row nor *)
(* the request of one that does.                                           *)
LEMMA CircleKept ==
  ASSUME NoCircle,
         \A t \in Sessions : Editing(t)' =>
           Editing(t) /\ req'[t] = req[t] /\ Row(t)' = Row(t)
  PROVE  NoCircle'
<1> SUFFICES ASSUME NEW D \in (SUBSET Sessions) \ {{}},
                    \A s \in D : Editing(s)'
             PROVE  \E s \in D : \A t \in D : ~Wants(s, t)'
  BY DEF NoCircle
<1>1. PICK s \in D : \A t \in D : ~Wants(s, t)
  BY DEF NoCircle
<1>2. \A t \in D : ~Wants(s, t)'
  BY <1>1 DEF Wants
<1> QED BY <1>2

LEMMA WaitStep ==
  ASSUME IInv, WaitInv, Next
  PROVE  WaitInv'
<1>1. PICK s \in Sessions : Step(s)
  BY DEF Next
<1>2. TypeOK /\ SessionOK(s) /\ ViewOK(s) /\ HoldersOK /\ RowsOK /\ NoCircle
  BY DEF IInv, WaitInv
<1>3. \A t \in Sessions \ {s} : pc'[t] = pc[t] /\ req'[t] = req[t]
  BY <1>1, <1>2
  DEF TypeOK, Step, Read, BeginDelete, InsertRow, BeginUpdate, BeginCreate, CheckCode,
      UpdateRow, UpdateMissed, AnswerMissed, InsertCode, DeleteRow, DeleteMissed,
      EndRequest, Abort, CommitWrite, CommitDelete, Publish, Goto, End
\* HoldersOK: who takes a lock takes that of its row, who lets go lets go of all.
<1>4. ASSUME pc[s] \in {"idle", "check"}, UNCHANGED lock
      PROVE  HoldersOK'
  BY <1>2, <1>3, <1>4 DEF HoldersOK, TypeOK
<1>5. ASSUME End(s)
      PROVE  HoldersOK'
  BY <1>2, <1>3, <1>5, RecordsAssumption DEF HoldersOK, TypeOK, End
<1>6. ASSUME req'[s].record \in Records, Lock(s, req'[s].record) \/ UNCHANGED lock,
             pc[s] \in {"write", "delete", "index"},
             pc[s] = "index" => req' = req,
             pc'[s] \in {"index", "commit", "commit_delete", "ask", "leaked"}
      PROVE  HoldersOK'
  <2> SUFFICES ASSUME NEW r \in Records, lock'[r] # NoOne
               PROVE  /\ req'[lock'[r]].record = r
                      /\ pc'[lock'[r]] \in {"index", "commit", "commit_delete", "ask", "leaked"}
    BY DEF HoldersOK
  <2>1. lock'[r] = lock[r] \/ (r = req'[s].record /\ lock'[r] = s)
    BY <1>2, <1>6 DEF Lock, TypeOK
  <2>2. CASE lock'[r] = s /\ r = req'[s].record
    BY <1>6, <2>2
  <2>3. CASE lock'[r] = lock[r] /\ lock[r] # s
    BY <1>2, <1>3, <2>3 DEF HoldersOK, TypeOK
  <2>4. CASE lock'[r] = lock[r] /\ lock[r] = s
    BY <1>2, <1>6, <2>4 DEF HoldersOK
  <2> QED BY <2>1, <2>2, <2>3, <2>4
<1>7. HoldersOK'
  <2>1. CASE \/ \E r \in Records : Read(s, r) \/ BeginDelete(s, r)
             \/ \E c \in Codes : BeginUpdate(s, c) \/ BeginCreate(s, c)
             \/ CheckCode(s)
    BY <1>4, <2>1 DEF Read, BeginDelete, BeginUpdate, BeginCreate, CheckCode
  <2>2. CASE AnswerMissed(s) \/ EndRequest(s) \/ Abort(s) \/ CommitWrite(s) \/ CommitDelete(s)
    BY <1>5, <2>2 DEF AnswerMissed, EndRequest, Abort, CommitWrite, CommitDelete, Publish
  <2>3. ASSUME NEW r \in Records, InsertRow(s, r) PROVE HoldersOK'
    BY <1>2, <1>6, <2>3 DEF InsertRow, TypeOK, Requests, Goto
  <2>4. CASE UpdateRow(s) \/ UpdateMissed(s) \/ DeleteRow(s) \/ DeleteMissed(s)
    BY <1>2, <1>6, <2>4
    DEF UpdateRow, UpdateMissed, DeleteRow, DeleteMissed, TypeOK, Goto, SessionOK
  <2>5. CASE InsertCode(s)
    <3>1. CASE End(s)
      BY <1>5, <3>1
    <3>2. CASE Goto(s, "commit") /\ UNCHANGED lock
      BY <1>2, <1>6, <2>5, <3>2 DEF InsertCode, TypeOK, Goto, SessionOK
    <3> QED BY <2>5, <3>1, <3>2 DEF InsertCode
  <2> QED BY <1>1, <2>1, <2>2, <2>3, <2>4, <2>5 DEF Step
<1>8. RowsOK'
  <2>1. CASE UNCHANGED table
    BY <1>2, <2>1 DEF RowsOK
  <2>2. CASE CommitWrite(s)
    <3>1. Row(s).version + 1 # 0
      BY <1>2, <2>2, RecordsAssumption DEF CommitWrite, SessionOK, Row, TypeOK, Rows
    <3> QED BY <1>2, <2>2, <3>1 DEF RowsOK, CommitWrite, Publish, TypeOK
  <2>3. CASE CommitDelete(s)
    <3>1. Row(s) \in Rows /\ req[s].record \in Records
      BY <1>2, <2>3 DEF CommitDelete, SessionOK, Row, TypeOK
    <3> QED BY <1>2, <2>3, <3>1 DEF RowsOK, CommitDelete, Publish, TypeOK, Row, Rows
  <2> QED
    BY <1>1, <2>1, <2>2, <2>3
    DEF Step, Read, BeginDelete, InsertRow, BeginUpdate, BeginCreate, CheckCode,
        UpdateRow, UpdateMissed, AnswerMissed, InsertCode, DeleteRow, DeleteMissed,
        EndRequest, Abort
<1>9. NoCircle'
  <2>1. ASSUME UNCHANGED table, req' = req \/ ~Editing(s)',
               Editing(s)' => Editing(s)
        PROVE  NoCircle'
    <3>1. ASSUME NEW t \in Sessions, Editing(t)'
          PROVE  Editing(t) /\ req'[t] = req[t] /\ Row(t)' = Row(t)
      <4>1. req'[t] = req[t]
        BY <1>3, <2>1, <3>1
      <4> QED BY <1>3, <2>1, <3>1, <4>1 DEF Editing, Matches, Row
    <3> QED BY <1>2, <3>1, CircleKept
  <2>2. ASSUME UNCHANGED table, pc'[s] \notin {"write", "index"}
        PROVE  NoCircle'
    BY <2>1, <2>2 DEF Editing
  <2>3. CASE \/ \E r \in Records : Read(s, r) \/ BeginDelete(s, r)
             \/ \E c \in Codes : BeginUpdate(s, c) \/ BeginCreate(s, c)
             \/ UpdateMissed(s) \/ AnswerMissed(s) \/ InsertCode(s)
             \/ DeleteRow(s) \/ DeleteMissed(s) \/ EndRequest(s) \/ Abort(s)
    BY <1>2, <2>2, <2>3
    DEF TypeOK, Read, BeginDelete, BeginUpdate, BeginCreate, UpdateMissed, AnswerMissed,
        InsertCode, DeleteRow, DeleteMissed, EndRequest, Abort, Goto, End
  <2>4. ASSUME NEW r \in Records, InsertRow(s, r) PROVE NoCircle'
    <3>1. req'[s].version = 0
      BY <1>2, <2>4 DEF InsertRow, TypeOK, Requests
    <3> QED BY <2>1, <2>4, <3>1 DEF InsertRow, Editing
  <2>5. CASE UpdateRow(s)
    BY <2>1, <2>5 DEF UpdateRow, Editing
  <2>6. CASE CheckCode(s)
    <3>1. CASE CodeTaken(s)
      BY <1>2, <2>2, <2>6, <3>1 DEF CheckCode, TypeOK, Goto
    <3>2. CASE ~CodeTaken(s)
      <4>1. UNCHANGED <<table, req>>
        BY <2>6 DEF CheckCode
      <4> SUFFICES ASSUME NEW D \in (SUBSET Sessions) \ {{}},
                          \A t \in D : Editing(t)'
                   PROVE  \E t \in D : \A u \in D : ~Wants(t, u)'
        BY DEF NoCircle
      <4>2. CASE s \in D
        <5>1. ASSUME NEW u \in D PROVE ~Wants(s, u)'
          <6>1. req[u].record \in Records
            <7>1. req[u].version > 0
              BY <4>1 DEF Editing
            <7> QED BY <7>1 DEF IInv, SessionOK
          <6> QED BY <3>2, <4>1, <6>1 DEF Wants, CodeTaken, Row
        <5> QED BY <4>2, <5>1
      <4>3. CASE s \notin D
        <5>1. \A t \in D : Editing(t)
          BY <1>3, <4>1, <4>3 DEF Editing, Matches, Row
        <5>2. PICK t \in D : \A u \in D : ~Wants(t, u)
          BY <1>2, <5>1 DEF NoCircle
        <5> QED BY <4>1, <5>2 DEF Wants, Row
      <4> QED BY <4>2, <4>3
    <3> QED BY <3>1, <3>2
  <2>7. ASSUME NEW row, Publish(s, row), pc[s] \in {"commit", "commit_delete"},
               row.version > Row(s).version \/ row.deleted
        PROVE  NoCircle'
    <3>1. req[s].record \in Records /\ req' = req /\ pc'[s] = "idle"
      BY <1>2, <2>7 DEF Publish, End, Goto, TypeOK, SessionOK
    <3>2. ASSUME NEW t \in Sessions, Editing(t)'
          PROVE  Editing(t) /\ req'[t] = req[t] /\ Row(t)' = Row(t)
      <4>1. t # s /\ pc'[t] = pc[t] /\ req[t].version > 0 /\ req[t].record \in Records
        BY <1>3, <3>1, <3>2 DEF Editing, IInv, SessionOK
      <4>2. CASE req[t].record # req[s].record
        BY <2>7, <1>2, <3>1, <3>2, <4>1, <4>2 DEF Publish, TypeOK, Editing, Matches, Row
      <4>3. CASE req[t].record = req[s].record
        <5>1. Row(t)' = row /\ Row(t) = Row(s)
          BY <2>7, <1>2, <3>1, <4>3 DEF Publish, TypeOK, Row
        <5>2. row.version = req[t].version /\ ~row.deleted
          BY <3>1, <3>2, <5>1 DEF Editing, Matches
        <5>3. req[t].version <= Row(t).version \/ Row(t).deleted
          <6>1. req[t].version \in Nat /\ Row(t).version \in Nat
            BY <1>2, <4>1, RecordsAssumption DEF TypeOK, Requests, Rows, Row
          <6> QED BY <4>1, <6>1 DEF IInv, ViewOK, Matches
        <5>4. ~Row(s).deleted
          BY <1>2, <2>7 DEF SessionOK, Matches
        <5>5. req[t].version \in Nat /\ Row(t).version \in Nat
          BY <1>2, <4>1, RecordsAssumption DEF TypeOK, Requests, Rows, Row
        <5> QED BY <2>7, <5>1, <5>2, <5>3, <5>4, <5>5
      <4> QED BY <4>2, <4>3
    <3> QED BY <1>2, <3>2, CircleKept
  <2>8. CASE CommitWrite(s)
    <3>1. Row(s).version \in Nat
      BY <1>2, <2>8, RecordsAssumption DEF CommitWrite, SessionOK, Row, TypeOK, Rows
    <3> DEFINE row == [version |-> Row(s).version + 1, code |-> req[s].code,
                       deleted |-> FALSE]
    <3>2. row.version > Row(s).version
      BY <3>1
    <3>3. Publish(s, row) /\ pc[s] = "commit"
      BY <2>8 DEF CommitWrite
    <3> HIDE DEF row
    <3> QED BY <3>2, <3>3, <2>7
  <2>9. CASE CommitDelete(s)
    <3> DEFINE row == [Row(s) EXCEPT !.deleted = TRUE]
    <3>1. Row(s) \in Rows
      BY <1>2, <2>9 DEF CommitDelete, SessionOK, Row, TypeOK
    <3>2. row.deleted
      BY <3>1 DEF Rows
    <3>3. Publish(s, row) /\ pc[s] = "commit_delete"
      BY <2>9 DEF CommitDelete
    <3> HIDE DEF row
    <3> QED BY <3>2, <3>3, <2>7
  <2> QED BY <1>1, <2>3, <2>4, <2>5, <2>6, <2>8, <2>9 DEF Step
<1> QED BY <1>7, <1>8, <1>9 DEF WaitInv

LEMMA Waiting == Spec => []WaitInv
<1>1. Init => WaitInv
  <2> SUFFICES ASSUME Init PROVE WaitInv
    OBVIOUS
  <2>1. HoldersOK /\ RowsOK
    BY DEF Init, HoldersOK, RowsOK, Absent
  <2>2. NoCircle
    BY DEF Init, NoCircle, Editing
  <2> QED BY <2>1, <2>2 DEF WaitInv
<1>2. IInv /\ WaitInv /\ [Next]_vars => WaitInv'
  <2>1. CASE Next
    BY <2>1, WaitStep
  <2>2. CASE UNCHANGED vars
    BY <2>2 DEF vars, WaitInv, HoldersOK, RowsOK, NoCircle, Editing, Wants, Matches, Row
  <2> QED BY <2>1, <2>2
<1> QED BY <1>1, <1>2, Inductive, PTL DEF Spec

(* No requests wait for each other in a circle.  Who waits for a row holds *)
(* none, or that very row; so a circle would be one of updates that wait   *)
(* for each other's codes, and NoCircle excludes it.                       *)
THEOREM RecordsNeverDeadlock == Spec => []NoDeadlock
<1>1. IInv /\ WaitInv => NoDeadlock
  <2> SUFFICES ASSUME IInv, WaitInv, NEW D \in (SUBSET Sessions) \ {{}},
                      \A s \in D : \E t \in D : WaitsFor(s, t)
               PROVE  FALSE
    BY DEF NoDeadlock
  <2>1. TypeOK /\ (\A s \in D : SessionOK(s))
    BY DEF IInv
  <2>2. \A s \in D : pc[s] \in {"index", "write", "delete", "ask"}
    BY DEF WaitsFor
  <2> DEFINE E == {s \in D : pc[s] = "index" /\ req[s].version > 0}
  <2>3. ASSUME NEW s \in D, NEW t \in D, pc[s] = "index", WaitsFor(s, t)
        PROVE  t \in E /\ Wants(s, t)
    <3>1. pc[t] = "index" /\ Row(t).code = req[s].code /\ t # s
      BY <2>2, <2>3 DEF WaitsFor, Contends, Writers
    <3>2. /\ req[s].code \in Codes /\ req[s].record \in Records
          /\ req[t].record \in Records /\ Matches(t)
          /\ lock[req[s].record] = s /\ lock[req[t].record] = t
      BY <2>1, <2>3, <3>1 DEF SessionOK
    <3>3. Row(t).version # 0
      BY <3>1, <3>2, RecordsAssumption DEF WaitInv, RowsOK, Row
    <3>4. req[t].version > 0
      BY <2>1, <3>2, <3>3, RecordsAssumption DEF Matches, TypeOK, Requests
    <3> QED BY <3>1, <3>2, <3>4 DEF Wants
  <2>4. CASE \E s \in D : pc[s] = "index"
    <3>1. E # {} /\ E \in SUBSET Sessions
      BY <2>3, <2>4
    <3>2. \A s \in E : Editing(s)
      BY <2>1 DEF Editing, SessionOK
    <3>3. PICK s \in E : \A t \in E : ~Wants(s, t)
      BY <3>1, <3>2 DEF WaitInv, NoCircle
    <3> QED BY <2>3, <3>3
  <2>5. CASE \A s \in D : pc[s] # "index"
    <3>1. PICK s \in D, t \in D : WaitsFor(s, t)
      OBVIOUS
    <3>2. lock[req[s].record] = t /\ req[s].record \in Records
      BY <2>1, <2>5, <3>1 DEF WaitsFor, SessionOK
    <3>3. pc[t] = "ask" /\ lock[req[t].record] = t
      BY <2>2, <2>5, <3>2, RecordsAssumption DEF WaitInv, HoldersOK
    <3> QED BY <3>3 DEF WaitsFor
  <2> QED BY <2>4, <2>5
<1> QED BY <1>1, Inductive, Waiting, PTL
=============================================================================
