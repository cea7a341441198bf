-------------------------- MODULE VersionedRecords --------------------------
(***************************************************************************)
(* Master data under optimistic versions                                   *)
(* (backend/internal/master/customers; suppliers, branches, categories and *)
(* products follow it).  An author reads a record with its version, edits  *)
(* it, and sends it back with expected_version; the UPDATE is a            *)
(* compare-and-set.  A record is deleted by setting deleted_at, which      *)
(* leaves its version alone, and keeps its unique code.                    *)
(*                                                                         *)
(*   table   the committed rows; version 0 is an unused identifier         *)
(*   lock    the transaction that holds each row                           *)
(*   req     what each session last asked for                              *)
(*   pc      the statement its request runs next                           *)
(*   fresh   history: the authors whose record has not changed since they  *)
(*           read it                                                       *)
(***************************************************************************)
EXTENDS Naturals

CONSTANTS
  Sessions, Records, Codes,
  MaxVersion,   (* bound: no author starts an update of a newer version    *)
  NoOne,        (* the holder of a free lock                               *)
  NoCode,       (* the code of a row that does not exist                   *)
  NoRecord      (* the record of a session that has asked for none         *)

ASSUME RecordsAssumption ==
  /\ MaxVersion \in Nat \ {0}
  /\ NoOne \notin Sessions /\ NoCode \notin Codes /\ NoRecord \notin Records

VARIABLES table, lock, req, pc, fresh
vars == <<table, lock, req, pc, fresh>>

Absent   == [version |-> 0, code |-> NoCode, deleted |-> FALSE]
Rows     == [version : 0..MaxVersion, code : Codes \cup {NoCode}, deleted : BOOLEAN]

(* expected_version is at least 1; version 0 stands for a create (or, with *)
(* NoCode, a delete), which has none.                                      *)
Requests == [record : Records \cup {NoRecord}, version : 0..MaxVersion,
             code : Codes \cup {NoCode}]
Request(r, v, c) == [record |-> r, version |-> v, code |-> c]

Row(s)  == table[req[s].record]
Live(r) == table[r].version > 0 /\ ~table[r].deleted

Init ==
  /\ table = [r \in Records |-> Absent]
  /\ lock  = [r \in Records |-> NoOne]
  /\ req   = [s \in Sessions |-> Request(NoRecord, 0, NoCode)]
  /\ pc    = [s \in Sessions |-> "idle"]
  /\ fresh = {}

-----------------------------------------------------------------------------
Goto(s, label) == pc' = [pc EXCEPT ![s] = label]

(* The transaction of s locks row r; if s holds it already, nothing changes*)
Lock(s, r) ==
  /\ lock[r] \in {s, NoOne}
  /\ lock' = [lock EXCEPT ![r] = s]

(* COMMIT or ROLLBACK, with the request's answer.                          *)
End(s) ==
  /\ Goto(s, "idle")
  /\ lock' = [r \in Records |-> IF lock[r] = s THEN NoOne ELSE lock[r]]

(* GetByID, also the one that answers an update: the author knows a live   *)
(* record, whoever wrote it.                                               *)
Read(s, r) ==
  /\ pc[s] = "idle" /\ Live(r)
  /\ req' = [req EXCEPT ![s] = Request(r, table[r].version, table[r].code)]
  /\ fresh' = fresh \cup {s}
  /\ UNCHANGED <<table, lock, pc>>

(* Another row, deleted ones included, has the code s asks for.            *)
CodeTaken(s) ==
  \E r \in Records \ {req[s].record} : table[r].code = req[s].code

-----------------------------------------------------------------------------
(* Update up to its checks of the record.  What was sent before may be     *)
(* sent again, with the version it had then.                               *)
BeginUpdate(s, c) ==
  /\ pc[s] = "idle"
  /\ req[s].version \in 1..MaxVersion - 1
  /\ Live(req[s].record)
  /\ req' = [req EXCEPT ![s].code = c]
  /\ Goto(s, "check")
  /\ UNCHANGED <<table, lock, fresh>>

BeginCreate(s, c) ==
  /\ pc[s] = "idle"
  /\ req' = [req EXCEPT ![s] = Request(NoRecord, 0, c)]
  /\ fresh' = fresh \ {s}
  /\ Goto(s, "check")
  /\ UNCHANGED <<table, lock>>

\* The check before the transaction left out, since there is an index.
Fault_CheckCode(s) ==
  /\ pc[s] = "check"
  /\ Goto(s, "write")
  /\ UNCHANGED <<table, lock, req, fresh>>

(* GetByCode, before the transaction.                                      *)
CheckCode(s) ==
  /\ pc[s] = "check"
  /\ Goto(s, IF CodeTaken(s) THEN "idle" ELSE "write")
  /\ UNCHANGED <<table, lock, req, fresh>>

\* The condition on deleted_at, or on the version, is missing; the version
\* is compared with the one the update is about to write.
Fault_MatchesDeleted(s) == Row(s).version = req[s].version
Fault_MatchesAny(s)     == ~Row(s).deleted
Fault_MatchesNext(s)    == Row(s).version + 1 = req[s].version /\ ~Row(s).deleted
(* WHERE id = $8 AND version = $9 AND deleted_at IS NULL                   *)
Matches(s) == Row(s).version = req[s].version /\ ~Row(s).deleted

(* The UPDATE statement waits for the row's lock, evaluates its condition  *)
(* again, and writes the new row.                                          *)
UpdateRow(s) ==
  /\ pc[s] = "write" /\ req[s].version > 0
  /\ Matches(s)
  /\ Lock(s, req[s].record)
  /\ Goto(s, "index")
  /\ UNCHANGED <<table, req, fresh>>

(* No row matches.  The row is locked nevertheless if the statement waited *)
(* for it.                                                                 *)
UpdateMissed(s) ==
  /\ pc[s] = "write" /\ req[s].version > 0
  /\ ~Matches(s)
  /\ Lock(s, req[s].record) \/ UNCHANGED lock
  /\ Goto(s, "ask")
  /\ UNCHANGED <<table, req, fresh>>

(* GetVersionStateWithTx (SELECT ... FOR UPDATE), the answer "conflict",   *)
(* and ROLLBACK.                                                           *)
AnswerMissed(s) ==
  /\ pc[s] = "ask"
  /\ lock[req[s].record] \in {s, NoOne}
  /\ End(s)
  /\ UNCHANGED <<table, req, fresh>>

(* INSERT takes an identifier from the sequence.                           *)
InsertRow(s, r) ==
  /\ pc[s] = "write" /\ req[s].version = 0
  /\ table[r] = Absent /\ lock[r] = NoOne
  /\ req' = [req EXCEPT ![s].record = r]
  /\ Lock(s, r)
  /\ Goto(s, "index")
  /\ UNCHANGED <<table, fresh>>

-----------------------------------------------------------------------------
Writers == {s \in Sessions : pc[s] \in {"index", "commit", "commit_delete"}}

(* The unique index makes s wait for t: t is replacing a row that has the  *)
(* code s wants, or has entered that code itself.                          *)
Contends(s, t) ==
  /\ t \in Writers \ {s}
  /\ \/ Row(t).code = req[s].code
     \/ pc[t] = "commit" /\ req[t].code = req[s].code

(* The write goes on to the unique index; a duplicate fails it.            *)
InsertCode(s) ==
  /\ pc[s] = "index"
  /\ \A t \in Sessions : ~Contends(s, t)
  /\ \/ CodeTaken(s) /\ End(s)
     \/ ~CodeTaken(s) /\ Goto(s, "commit") /\ UNCHANGED lock
  /\ UNCHANGED <<table, req, fresh>>

(* COMMIT makes row the record of s.                                       *)
Publish(s, row) ==
  /\ table' = [table EXCEPT ![req[s].record] = row]
  /\ fresh' = {t \in fresh : req[t].record # req[s].record}
  /\ End(s)
  /\ UNCHANGED req

CommitWrite(s) ==
  /\ pc[s] = "commit"
  /\ Publish(s, [version |-> Row(s).version + 1, code |-> req[s].code,
                 deleted |-> FALSE])

-----------------------------------------------------------------------------
(* SoftDelete: GetByID, then an UPDATE of deleted_at.                      *)
BeginDelete(s, r) ==
  /\ pc[s] = "idle" /\ Live(r)
  /\ req' = [req EXCEPT ![s] = Request(r, 0, NoCode)]
  /\ fresh' = fresh \ {s}
  /\ Goto(s, "delete")
  /\ UNCHANGED <<table, lock>>

DeleteRow(s) ==
  /\ pc[s] = "delete"
  /\ ~Row(s).deleted
  /\ Lock(s, req[s].record)
  /\ Goto(s, "commit_delete")
  /\ UNCHANGED <<table, req, fresh>>

(* Somebody else has deleted it.  `if err := ...` hides the error from the *)
(* deferred function: nothing is rolled back before the request's context  *)
(* ends (EndRequest).                                                      *)
DeleteMissed(s) ==
  /\ pc[s] = "delete"
  /\ Row(s).deleted
  /\ Lock(s, req[s].record) \/ UNCHANGED lock
  /\ Goto(s, "leaked")
  /\ UNCHANGED <<table, req, fresh>>

CommitDelete(s) ==
  /\ pc[s] = "commit_delete"
  /\ Publish(s, [Row(s) EXCEPT !.deleted = TRUE])

EndRequest(s) ==
  /\ pc[s] = "leaked"
  /\ End(s)
  /\ UNCHANGED <<table, req, fresh>>

(* A statement fails, or the client or the process goes away.              *)
Abort(s) ==
  /\ pc[s] # "idle"
  /\ End(s)
  /\ UNCHANGED <<table, req, fresh>>

-----------------------------------------------------------------------------
Step(s) ==
  \/ \E r \in Records : Read(s, r) \/ BeginDelete(s, r) \/ InsertRow(s, r)
  \/ \E c \in Codes : BeginUpdate(s, c) \/ BeginCreate(s, c)
  \/ CheckCode(s) \/ UpdateRow(s) \/ UpdateMissed(s) \/ AnswerMissed(s)
  \/ InsertCode(s) \/ CommitWrite(s)
  \/ DeleteRow(s) \/ DeleteMissed(s) \/ CommitDelete(s) \/ EndRequest(s)
  \/ Abort(s)

Next == \E s \in Sessions : Step(s)
Spec == Init /\ [][Next]_vars

-----------------------------------------------------------------------------
(* Every variable keeps its type.                                          *)
TypeOK ==
  /\ table \in [Records -> Rows]
  /\ lock \in [Records -> Sessions \cup {NoOne}]
  /\ req \in [Sessions -> Requests]
  /\ pc \in [Sessions -> {"idle", "check", "write", "index", "commit", "ask",
                          "delete", "commit_delete", "leaked"}]
  /\ fresh \subseteq Sessions

(* An update replaces only what its author has read: none overwrites an    *)
(* edit or a deletion made meanwhile, and one that is sent twice is applied*)
(* once (the condition of UpdateWithTx).                                   *)
NoBlindOverwrite ==
  \A s \in Sessions :
    pc[s] \in {"index", "commit"} /\ req[s].version > 0 => s \in fresh

(* Nobody is sent back to reload a record that is as they read it: where   *)
(* the UPDATE finds no row (ErrCustomerVersionConflict), the record has    *)
(* changed.                                                                *)
NoFalseConflict == \A s \in Sessions : pc[s] = "ask" => s \notin fresh

(* A deleted record stays as it is, although deleting it does not change   *)
(* its version and an update may have passed its check for deleted_at.     *)
DeletedStaysDeleted ==
  [][\A r \in Records : table[r].deleted => table'[r] = table[r]]_vars

(* s cannot go on before t ends.                                           *)
WaitsFor(s, t) ==
  \/ pc[s] = "index" /\ Contends(s, t)
  \/ /\ \/ pc[s] = "write" /\ req[s].version > 0 /\ Matches(s)
        \/ pc[s] = "delete" /\ ~Row(s).deleted
        \/ pc[s] = "ask"
     /\ lock[req[s].record] = t /\ t # s

(* No requests wait for each other in a circle, not even when two records  *)
(* are given each other's code at once: CheckCode and the version refuse   *)
(* one of them.                                                             *)
NoDeadlock ==
  \A D \in (SUBSET Sessions) \ {{}} :
    \E s \in D : \A t \in D : ~WaitsFor(s, t)
=============================================================================
