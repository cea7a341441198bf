---------------------------- MODULE StockSystem ----------------------------
(***************************************************************************)
(* The three services over one database: every interleaving of the steps   *)
(* of concurrent sales, purchasing and inventory requests, and what is     *)
(* expected of them.                                                       *)
(***************************************************************************)
EXTENDS Sales, Purchasing, Inventory

(* What a request does once it has arrived, short of failing.              *)
Progress(s) ==
  \/ SaleStep(s)
  \/ PurchaseStep(s)
  \/ InventoryStep(s)
  \/ CommitOrder(s)
  \/ CommitInventory(s)
  \/ EndRequest(s)

Arrive(s) == SaleRequest(s) \/ PurchaseRequest(s) \/ InventoryRequest(s)

Next ==
  \/ \E s \in Sessions : Arrive(s) \/ Progress(s) \/ Abort(s)
  \/ \E p \in Products : SetProductActive(p)

Spec == Init /\ [][Next]_vars

(* PostgreSQL grants a lock in the order it was asked for, so a request    *)
(* that waits again and again for a lock is served: strong fairness.       *)
(* Nothing makes a request arrive, or fail.                                *)
FairSpec == Spec /\ \A s \in Sessions : SF_vars(Progress(s))

-----------------------------------------------------------------------------
PCs == {"idle", "lock", "items", "checked", "insert", "adjust", "transfer",
        "pair", "move", "commit", "leaked"}

TablesOK ==
  /\ rows \subseteq Rows
  /\ stock \in [Rows -> 0..MaxInt]
  /\ ledger \in [Rows -> Int]
  /\ status \in [Orders -> Status]
  /\ site \in [Orders -> Branches]
  /\ lines \in [Orders -> [Products -> 0..MaxInt]]
  /\ done \in [Orders -> [Products -> Int]]
  /\ posted \in [Orders -> [Products -> Int]]
  /\ active \subseteq Products

TransactionsOK ==
  /\ pc \in [Sessions -> PCs]
  /\ req \in [Sessions -> Requests \cup {NoRequest}]
  /\ todo \in [Sessions -> SUBSET Rows]
  /\ wrow \in [Sessions -> [Rows -> 0..MaxInt]]
  /\ wmov \in [Sessions -> [Rows -> Int]]
  /\ wstatus \in [Sessions -> Status]
  /\ wdone \in [Sessions -> [Products -> Int]]
  /\ orderLock \in [Orders -> Sessions \cup {NoOne}]
  /\ rowLock \in [Rows -> Sessions \cup {NoOne}]

(* Every variable has its type.  No quantity, committed or about to be, is *)
(* negative or beyond int64, although the services add before they check.  *)
TypeOK == TablesOK /\ TransactionsOK

-----------------------------------------------------------------------------
(* Safety                                                                  *)

(* The quantity of an inventory row is the sum of its stock movements,     *)
(* whatever requests ran at the same time, failed or were cut off: the     *)
(* services write an absolute quantity and, apart from it, a delta.        *)
LedgerBalanced == \A r \in Rows : stock[r] = ledger[r]

(* A quantity that a transaction has read and is about to overwrite is     *)
(* still the committed one: no transaction's update is lost.               *)
NoLostUpdate ==
  \A r \in Rows, s \in Sessions :
    rowLock[r] = s => wrow[s][r] = stock[r] + wmov[s][r]

(* What an order's movements add up to, given its status.                  *)
Sign(o) == IF o \in Sales THEN -1 ELSE 1

Moved(o, p) ==
  IF status[o] = "COMPLETED" THEN Sign(o) * lines[o][p] ELSE Sign(o) * done[o][p]

(* An order has moved exactly the stock its status and its items' progress *)
(* say: a completed order all of it once, a cancelled order nothing (or    *)
(* out and back), and no retry or concurrent request moved it twice.       *)
MovedOnce == \A o \in Orders, p \in Products : posted[o][p] = Moved(o, p)

(* An order's items agree with its status: nothing is delivered beyond the *)
(* quantity ordered, something but not all in a PARTIALLY_ status, all in  *)
(* FULFILLED or RECEIVED, and nothing in any other.                        *)
ProgressMatchesStatus ==
  \A o \in Orders :
    LET some == \E p \in Products : done[o][p] > 0
        all  == done[o] = lines[o]
    IN /\ \A p \in Products : done[o][p] \in 0..lines[o][p]
       /\ status[o] \in {"PARTIALLY_FULFILLED", "PARTIALLY_RECEIVED"} <=>
            some /\ ~all
       /\ status[o] \in {"FULFILLED", "RECEIVED"} <=> some /\ all

-----------------------------------------------------------------------------
(* Locks                                                                   *)

(* s waits for a lock that t holds.                                        *)
WaitsForOrder(s, t) ==
  /\ pc[s] = "lock"
  /\ status[req[s].order] # Absent /\ orderLock[req[s].order] = t

InsertsRow(s, r) ==
  \/ req[s].op \in {"purchase.receive", "purchase.complete", "inventory.create"}
  \/ req[s].op = "inventory.transfer" /\ r[2] = req[s].to

Wanted(s, r) ==
  \/ pc[s] \in {"checked", "pair"} /\ NextRow(s, r)
  \/ /\ pc[s] = "items" /\ NextRow(s, r)
     /\ req[s].op \notin {"purchase.complete", "purchase.cancel"}
  \/ pc[s] \in {"insert", "adjust"} /\ r = req[s].row

WaitsForRow(s, t) ==
  \E r \in Rows : Wanted(s, r) /\ rowLock[r] = t /\ (r \in rows \/ InsertsRow(s, r))

WaitsFor(s, t) == WaitsForOrder(s, t) \/ WaitsForRow(s, t)

(* No set of transactions waits only for each other: PostgreSQL never has  *)
(* to break a deadlock among them, in any mix of sales, purchases and      *)
(* transfers over shared rows.                                             *)
NoDeadlock ==
  \A S \in (SUBSET Sessions) \ {{}} : \E s \in S : \A t \in S : ~WaitsFor(s, t)

(* A transaction locks rows upwards: every row it has yet to lock comes    *)
(* after every row it holds, and it takes an order only when it holds no   *)
(* row.  This is what rules the deadlock out.                              *)
LocksGoUp ==
  \A s \in Sessions :
    /\ \A q, r \in Rows : rowLock[q] = s /\ r \in todo[s] => Before(q, r)
    /\ pc[s] \in {"idle", "lock", "insert", "adjust", "transfer", "leaked"} =>
         \A q \in Rows : rowLock[q] # s

-----------------------------------------------------------------------------
(* Every operation appears to happen at once, at its COMMIT: the committed *)
(* tables, without the transactions, behave as StockLedger promises.       *)
Ledger == INSTANCE StockLedger
            WITH rows <- rows, stock <- stock, status <- status,
                 site <- site, lines <- lines, done <- done
Refinement == Ledger!Spec

(* Every request that arrives is answered and gives back its locks.        *)
EveryRequestEnds == \A s \in Sessions : pc[s] # "idle" ~> pc[s] = "idle"
=============================================================================
