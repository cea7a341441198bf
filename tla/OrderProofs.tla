---------------------------- MODULE OrderProofs ----------------------------
(***************************************************************************)
(* Theorems about the orders of StockSystem: an order's items agree with   *)
(* its status, and it has moved the stock they say, once.  OInv adds to    *)
(* IInv what a transaction that holds an order has done of what it decided *)
(* when it locked that order.  LInv adds what a transaction of the         *)
(* inventory has in hand, and with it StockSystem implements StockLedger.  *)
(***************************************************************************)
EXTENDS StockSystemProofs

Parted == {"sale.fulfill", "purchase.receive"}    \* with a list of items
Whole  == {"sale.complete", "purchase.complete"}
Undo   == {"sale.cancel", "purchase.cancel"}

(* s holds an order that it is going to change.                            *)
Holding(s) == pc[s] \in {"items", "checked", "commit"} /\ req[s].op \in OrderOps

(* How much of product p the request delivers, and how much of it counts   *)
(* as progress of the item.                                                *)
Planned(s, p) ==
  IF req[s].op \in Parted THEN req[s].items[p]
  ELSE IF req[s].op \in Whole THEN lines[req[s].order][p]
  ELSE IF req[s].op \in Undo /\ status[req[s].order] = "COMPLETED"
       THEN -lines[req[s].order][p]
  ELSE 0
Grown(s, p) == IF req[s].op \in Parted THEN req[s].items[p] ELSE 0

PlannedRows(s) == {r \in Rows : r[2] = site[req[s].order] /\ Planned(s, r[1]) # 0}

(* A delivery of n as a movement of stock: a sale takes it out.            *)
Movement(o, n) == IF o \in Sales THEN -n ELSE n

(* The order's status allowed what the transaction does, which ends in st. *)
Decided(s, st) ==
  LET o == req[s].order
      items == req[s].items
  IN \/ /\ req[s].op \in {"sale.confirm", "purchase.order"}
        /\ status[o] = "DRAFT"
        /\ st = IF o \in Sales THEN "CONFIRMED" ELSE "ORDERED"
     \/ /\ req[s].op = "sale.fulfill"
        /\ status[o] \in {"CONFIRMED", "PARTIALLY_FULFILLED"}
        /\ FulfillmentValid(o, items) /\ st = FulfilledStatus(o, items)
     \/ /\ req[s].op = "purchase.receive"
        /\ status[o] \in {"ORDERED", "PARTIALLY_RECEIVED"}
        /\ ReceiptValid(o, items) /\ st = ReceivedStatus(o, items)
     \/ req[s].op \in Whole /\ status[o] = "DRAFT" /\ st = "COMPLETED"
     \/ req[s].op \in Undo /\ status[o] \in {"DRAFT", "COMPLETED"} /\ st = "CANCELLED"

(* Sales, and cancelled purchases, take rows as they find them.            *)
NeedsRow(s) == req[s].order \in Sales \/ req[s].op = "purchase.cancel"

(* The rows planned are locked and moved, or left to do.                   *)
InHand(s) ==
  LET o == req[s].order
  IN /\ orderLock[o] = s
     /\ Decided(s, wstatus[s])
     /\ todo[s] \subseteq PlannedRows(s)
     /\ \A r \in Rows : rowLock[r] = s <=> r \in PlannedRows(s) \ todo[s]
     /\ \A r \in Rows : rowLock[r] = s =>
          /\ wmov[s][r] = Movement(o, Planned(s, r[1]))
          /\ NeedsRow(s) => r \in rows
     /\ \A p \in Products :
          wdone[s][p] = done[o][p] + (IF <<p, site[o]>> \in todo[s] THEN 0 ELSE Grown(s, p))

(* A list of items was checked, before the transaction, not to be empty.   *)
ListInv ==
  \A s \in Sessions : pc[s] # "idle" =>
    /\ req[s].op \in Parted => \E p \in Products : req[s].items[p] # 0
    /\ req[s].op \in CreateOps => \E p \in Products : req[s].cart.lines[p] > 0

OInv ==
  /\ IInv
  /\ ListInv
  /\ \A s \in Sessions : Holding(s) => InHand(s)
  /\ ProgressMatchesStatus
  /\ MovedOnce

-----------------------------------------------------------------------------
(* The shapes a step can have, as far as orders are concerned.             *)

(* What a step of s leaves alone of the other sessions.                    *)
OthersKept(s) ==
  /\ \A t \in Sessions \ {s} :
       /\ pc'[t] = pc[t] /\ req'[t] = req[t] /\ todo'[t] = todo[t]
       /\ wmov'[t] = wmov[t] /\ wstatus'[t] = wstatus[t] /\ wdone'[t] = wdone[t]
       /\ \A o \in Orders : orderLock[o] = t => orderLock'[o] = t
       /\ \A r \in Rows : rowLock'[r] = t <=> rowLock[r] = t
  /\ rows \subseteq rows'

(* s does not hold an order afterwards, and no order changes.              *)
Quiet(s) ==
  /\ UNCHANGED <<status, site, lines, done, posted>>
  /\ ~(pc'[s] \in {"items", "checked", "commit"} /\ req'[s].op \in OrderOps)

TakesOrder(s) ==
  \E st \in Status :
    /\ req[s].op \in OrderOps /\ req[s].order \in Orders
    /\ pc[s] = "lock" /\ OrderFree(req[s].order)
    /\ Decided(s, st)
    /\ HoldOrder(s, req[s].order, PlannedRows(s), st)

WritesItem(s) ==
  \E r \in todo[s], q \in 0..MaxInt :
    /\ pc[s] \in {"items", "checked"} /\ req[s].op \in OrderOps
    /\ RowFree(r) /\ (NeedsRow(s) => r \in rows)
    /\ WriteRow(s, r, q, Movement(req[s].order, Planned(s, r[1])), Grown(s, r[1]))

OrderShape(s) ==
  \/ Quiet(s) \/ TakesOrder(s) \/ WritesItem(s) \/ Checks(s)
  \/ CommitOrder(s) \/ Creates(s)

-----------------------------------------------------------------------------
LEMMA InitOrders == Init => OInv
<1> SUFFICES ASSUME Init PROVE OInv
  OBVIOUS
<1>1. IInv
  BY InitInvariant
<1>2. ListInv /\ \A s \in Sessions : ~Holding(s)
  BY DEF Init, ListInv, Holding
<1>3. ASSUME NEW o \in Orders
      PROVE  /\ \A p \in Products : done[o][p] = 0 /\ posted[o][p] = 0 /\ lines[o][p] >= 0
             /\ lines[o] \in [Products -> 0..MaxInt]
             /\ status[o] \in {"DRAFT", Absent}
  BY <1>1, IdsAssumption DEF Init, IInv, TypeOK, TablesOK
<1>4. ProgressMatchesStatus
  BY <1>3, IdsAssumption DEF ProgressMatchesStatus, Absent
<1>5. MovedOnce
  <2>1. ASSUME NEW o \in Orders, NEW p \in Products PROVE posted[o][p] = Moved(o, p)
    BY <1>3 DEF Moved, Sign, Absent
  <2> QED
    BY <2>1 DEF MovedOnce
<1> QED
  BY <1>1, <1>2, <1>4, <1>5 DEF OInv

-----------------------------------------------------------------------------
(* Every step leaves the other sessions and their locks alone.             *)
LEMMA EndLeavesOthers ==
  ASSUME IInv, NEW s \in Sessions, End(s), rows \subseteq rows'
  PROVE  OthersKept(s)
<1> USE IdsAssumption DEF IInv, TypeOK, TransactionsOK
<1>1. \A t \in Sessions \ {s} :
        /\ pc'[t] = pc[t] /\ req'[t] = req[t] /\ todo'[t] = todo[t]
        /\ wmov'[t] = wmov[t] /\ wstatus'[t] = wstatus[t] /\ wdone'[t] = wdone[t]
  BY DEF End
<1>2. \A t \in Sessions \ {s} :
        /\ \A o \in Orders : orderLock[o] = t => orderLock'[o] = t
        /\ \A r \in Rows : rowLock'[r] = t <=> rowLock[r] = t
  BY DEF End
<1> QED
  BY <1>1, <1>2 DEF OthersKept

LEMMA HoldLeavesOthers ==
  ASSUME IInv, NEW s \in Sessions, NEW o \in Orders, NEW need, NEW st,
         OrderFree(o), HoldOrder(s, o, need, st)
  PROVE  OthersKept(s)
BY IdsAssumption
DEF IInv, TypeOK, TransactionsOK, OrderFree, HoldOrder, OthersKept, tables

LEMMA LeakLeavesOthers ==
  ASSUME IInv, NEW s \in Sessions, NEW o \in Orders, OrderFree(o), Leak(s, o)
  PROVE  OthersKept(s)
BY IdsAssumption
DEF IInv, TypeOK, TransactionsOK, OrderFree, Leak, OthersKept, tables, buffer

LEMMA WriteLeavesOthers ==
  ASSUME IInv, NEW s \in Sessions, NEW r \in Rows, NEW q, NEW d, NEW n,
         RowFree(r), WriteRow(s, r, q, d, n)
  PROVE  OthersKept(s)
BY IdsAssumption
DEF IInv, TypeOK, TransactionsOK, RowFree, WriteRow, OthersKept, tables

LEMMA StartLeavesOthers ==
  ASSUME IInv, NEW s \in Sessions, NEW r, NEW at, Start(s, r, at)
  PROVE  OthersKept(s)
BY DEF IInv, TypeOK, TransactionsOK, Start, OthersKept, tables, buffer, locks

LEMMA CommitLeavesOthers ==
  ASSUME IInv, NEW s \in Sessions,
         CommitOrder(s) \/ CommitInventory(s) \/ Creates(s) \/ Rollback(s)
  PROVE  OthersKept(s)
<1>1. End(s) /\ rows \subseteq rows'
  BY DEF CommitOrder, CommitInventory, Creates, CommitCreate, PublishStock, Rollback, tables
<1> QED
  BY <1>1, EndLeavesOthers

LEMMA TransferLeavesOthers ==
  ASSUME IInv, NEW s \in Sessions,
         BeginTransfer(s) \/ LocksPair(s) \/ Moves(s) \/ Checks(s)
  PROVE  OthersKept(s)
<1> USE DEF IInv, TypeOK, TransactionsOK, OthersKept, tables, buffer, locks
<1>1. CASE BeginTransfer(s)
  BY <1>1 DEF BeginTransfer
<1>2. CASE LocksPair(s)
  BY <1>2, IdsAssumption DEF LocksPair, RowFree
<1>3. CASE Moves(s)
  BY <1>3 DEF Moves
<1>4. CASE Checks(s)
  BY <1>4 DEF Checks
<1> QED
  BY <1>1, <1>2, <1>3, <1>4

LEMMA StepLeavesOthers ==
  ASSUME IInv, NEW s \in Sessions, Arrive(s) \/ Progress(s) \/ Abort(s)
  PROVE  OthersKept(s)
<1>1. Shape(s)
  BY StepShapes
<1>2. CASE Starts(s)
  BY <1>2, StartLeavesOthers DEF Starts
<1>3. CASE Holds(s)
  BY <1>3, HoldLeavesOthers DEF Holds
<1>4. CASE Leaks(s)
  BY <1>4, LeakLeavesOthers DEF Leaks
<1>5. CASE Writes(s)
  BY <1>5, WriteLeavesOthers DEF Writes
<1> QED
  BY <1>1, <1>2, <1>3, <1>4, <1>5, CommitLeavesOthers, TransferLeavesOthers DEF Shape

-----------------------------------------------------------------------------
(* The kinds of identifiers and the types of a request about an order.     *)
LEMMA OrderRequest ==
  ASSUME IInv, NEW s \in Sessions, pc[s] # "idle", req[s].op \in OrderOps
  PROVE  /\ req[s].order \in Orders
         /\ req[s].op \in SaleOps <=> req[s].order \in Sales
         /\ req[s].op \in PurchaseOps <=> req[s].order \notin Sales
         /\ req[s].op \in Parted => req[s].items \in [Products -> -MaxInt..MaxInt]
         /\ site[req[s].order] \in Branches
         /\ lines[req[s].order] \in [Products -> 0..MaxInt]
         /\ done[req[s].order] \in [Products -> Int]
<1>1. req[s] \in Requests
  BY DEF IInv, RequestInv
<1>2. /\ req[s].op \in SaleOps => req[s].order \in Sales
      /\ req[s].op \in PurchaseOps => req[s].order \in Purchases
      /\ req[s].op \in Parted => req[s].items \in [Products -> -MaxInt..MaxInt]
  BY <1>1, RequestsAssumption DEF Parted
<1>3. Sales \cap Purchases = {}
  BY IdsAssumption
<1>4. req[s].op \in SaleOps \/ req[s].op \in PurchaseOps
  BY DEF OrderOps
<1>5. req[s].order \in Orders
  BY <1>2, <1>4 DEF Orders
<1> QED
  BY <1>2, <1>3, <1>4, <1>5 DEF IInv, TypeOK, TablesOK

(* What a session has in hand does not depend on the orders of others.     *)
LEMMA OthersInHand ==
  ASSUME OInv, NEW s \in Sessions, OthersKept(s), NEW t \in Sessions \ {s},
         Holding(t)',
         LET o == req[t].order
         IN /\ status'[o] = status[o] /\ site'[o] = site[o]
            /\ lines'[o] = lines[o] /\ done'[o] = done[o]
  PROVE  InHand(t)'
<1> DEFINE o == req[t].order
<1>1. /\ pc'[t] = pc[t] /\ req'[t] = req[t] /\ todo'[t] = todo[t]
      /\ wmov'[t] = wmov[t] /\ wstatus'[t] = wstatus[t] /\ wdone'[t] = wdone[t]
      /\ orderLock[o] = t /\ o \in Orders => orderLock'[o] = t
      /\ \A r \in Rows : rowLock'[r] = t <=> rowLock[r] = t
      /\ rows \subseteq rows'
  BY DEF OthersKept
<1>2. Holding(t) /\ InHand(t)
  BY <1>1 DEF OInv, Holding
<1>3. o \in Orders
  BY <1>2, OrderRequest DEF OInv, Holding
<1>4. \A p : Planned(t, p)' = Planned(t, p) /\ Grown(t, p)' = Grown(t, p)
  BY <1>1 DEF Planned, Grown
<1>5. PlannedRows(t)' = PlannedRows(t)
  BY <1>1, <1>4 DEF PlannedRows
<1>6. Decided(t, wstatus[t])'
  BY <1>1, <1>2
  DEF InHand, Decided, FulfillmentValid, FulfilledStatus, ReceiptValid, ReceivedStatus
<1>7. orderLock'[o] = t
  BY <1>1, <1>2, <1>3 DEF InHand
<1>8. NeedsRow(t)' = NeedsRow(t)
  BY <1>1 DEF NeedsRow
<1>9. /\ todo'[t] \subseteq PlannedRows(t)'
      /\ \A r \in Rows : rowLock'[r] = t <=> r \in PlannedRows(t)' \ todo'[t]
      /\ \A r \in Rows : rowLock'[r] = t =>
           /\ wmov'[t][r] = Movement(o, Planned(t, r[1])')
           /\ NeedsRow(t)' => r \in rows'
  BY <1>1, <1>2, <1>4, <1>5, <1>8 DEF InHand
<1>10. \A p \in Products :
         wdone'[t][p] = done'[o][p] + (IF <<p, site'[o]>> \in todo'[t] THEN 0 ELSE Grown(t, p)')
  BY <1>1, <1>2, <1>4 DEF InHand
<1> QED
  BY <1>1, <1>6, <1>7, <1>9, <1>10 DEF InHand, Movement

-----------------------------------------------------------------------------
(* Every step of a session has one of the shapes.                          *)

LEMMA QuietShapes ==
  ASSUME IInv, NEW s \in Sessions,
         \/ Starts(s) \/ Rollback(s) \/ Leaks(s) \/ BeginTransfer(s)
         \/ LocksPair(s) \/ Moves(s) \/ CommitInventory(s)
         \/ Writes(s) /\ pc[s] \in {"insert", "adjust"}
  PROVE  Quiet(s)
<1> USE DEF IInv, TypeOK, TransactionsOK, Quiet
<1>1. CASE Starts(s)
  <2>1. PICK r \in Requests, at \in {"lock", "insert", "adjust", "transfer", "commit"} :
          CheckedRequest(r, at) /\ Start(s, r, at)
    BY <1>1 DEF Starts
  <2>2. at = "commit" => r.op \notin OrderOps
    BY <2>1 DEF CheckedRequest, CreateOps, OrderOps, SaleOps, PurchaseOps
  <2> QED
    BY <2>1, <2>2 DEF Start, tables
<1>2. CASE Rollback(s)
  BY <1>2 DEF Rollback, End, tables
<1>3. CASE Leaks(s)
  BY <1>3 DEF Leaks, Leak, tables
<1>4. CASE BeginTransfer(s)
  BY <1>4 DEF BeginTransfer, tables
<1>5. CASE LocksPair(s)
  <2>1. req[s].op = "inventory.transfer" /\ req' = req
    BY <1>5 DEF LocksPair, RequestInv
  <2> QED
    BY <1>5, <2>1 DEF LocksPair, tables, OrderOps, SaleOps, PurchaseOps
<1>6. CASE Moves(s)
  <2>1. req[s].op = "inventory.transfer" /\ req' = req
    BY <1>6 DEF Moves, RequestInv
  <2> QED
    BY <1>6, <2>1 DEF Moves, tables, OrderOps, SaleOps, PurchaseOps
<1>7. CASE CommitInventory(s)
  BY <1>7 DEF CommitInventory, End
<1>8. CASE Writes(s) /\ pc[s] \in {"insert", "adjust"}
  <2>1. req[s].op \in {"inventory.create", "inventory.adjust"} /\ req' = req
    BY <1>8 DEF Writes, WriteRow, RequestInv
  <2> QED
    BY <1>8, <2>1 DEF Writes, WriteRow, tables, OrderOps, SaleOps, PurchaseOps
<1> QED
  BY <1>1, <1>2, <1>3, <1>4, <1>5, <1>6, <1>7, <1>8

LEMMA InventoryOrderShapes ==
  ASSUME IInv, NEW s \in Sessions, InventoryStep(s)
  PROVE  Quiet(s)
<1>1. Shape(s)
  BY InventoryShapes DEF IInv
<1>2. pc[s] \in {"insert", "adjust", "transfer", "pair", "move"}
  BY DEF InventoryStep, CreateInventory, AdjustStock, BeginTransfer, LockTransferRow,
     MoveStock
<1>3. ~Holds(s) /\ ~Leaks(s) /\ ~Checks(s) /\ ~CommitOrder(s) /\ ~Creates(s)
  BY <1>2 DEF Holds, Leaks, Checks, CommitOrder, Creates, CommitCreate
<1>4. Writes(s) => pc[s] \in {"insert", "adjust"}
  BY <1>2 DEF Writes
<1> QED
  BY <1>1, <1>3, <1>4, QuietShapes DEF Shape

(* The rows that HoldOrder is given are those of what is planned.          *)
LEMMA RowsPlanned ==
  ASSUME IInv, NEW s \in Sessions, pc[s] # "idle", req[s].op \in OrderOps
  PROVE  LET o == req[s].order
         IN /\ req[s].op \in {"sale.confirm", "purchase.order"} => PlannedRows(s) = {}
            /\ /\ req[s].op \in Parted
               /\ \A p \in Products : req[s].items[p] # 0 => req[s].items[p] > 0
               => PlannedRows(s) = InputRows(o, req[s].items)
            /\ req[s].op \in Whole => PlannedRows(s) = ItemRows(o)
            /\ req[s].op \in Undo => PlannedRows(s) =
                 IF status[o] = "COMPLETED" THEN ItemRows(o) ELSE {}
<1> DEFINE o == req[s].order
<1>1. /\ lines[o] \in [Products -> 0..MaxInt]
      /\ req[s].op \in Parted => req[s].items \in [Products -> -MaxInt..MaxInt]
  BY OrderRequest
<1>2. \A r \in Rows : r[1] \in Products
  BY DEF Rows
<1>3. \A r \in Rows : lines[o][r[1]] \in Nat
  <2> DEFINE l == lines[o]
  <2> HIDE DEF l
  <2>1. \A p \in Products : l[p] \in Nat
    BY <1>1, IdsAssumption DEF l
  <2> QED
    BY <1>2, <2>1 DEF l
<1>4. CASE req[s].op \in {"sale.confirm", "purchase.order"}
  BY <1>4 DEF PlannedRows, Planned, Parted, Whole, Undo
<1>5. CASE req[s].op \in Parted
  <2>1. ASSUME \A p \in Products : req[s].items[p] # 0 => req[s].items[p] > 0
        PROVE  PlannedRows(s) = InputRows(o, req[s].items)
    <3>1. \A r \in Rows : Planned(s, r[1]) # 0 <=> req[s].items[r[1]] > 0
      BY <1>2, <1>5, <2>1 DEF Planned
    <3> QED
      BY <3>1 DEF PlannedRows, InputRows
  <2> QED
    BY <1>5, <2>1 DEF Parted, Whole, Undo
<1>6. CASE req[s].op \in Whole
  <2>1. \A r \in Rows : Planned(s, r[1]) = lines[o][r[1]]
    BY <1>6 DEF Planned, Parted, Whole
  <2>2. PlannedRows(s) = {r \in Rows : r[2] = site[o] /\ lines[o][r[1]] # 0}
    BY <2>1 DEF PlannedRows
  <2> QED
    BY <1>6, <1>3, <2>2 DEF ItemRows, Parted, Whole, Undo
<1>7. CASE req[s].op \in Undo /\ status[o] = "COMPLETED"
  <2>1. \A r \in Rows : Planned(s, r[1]) = -lines[o][r[1]]
    BY <1>7 DEF Planned, Parted, Whole, Undo
  <2>2. PlannedRows(s) = {r \in Rows : r[2] = site[o] /\ -lines[o][r[1]] # 0}
    BY <2>1 DEF PlannedRows
  <2> QED
    BY <1>7, <1>3, <2>2 DEF ItemRows, Parted, Whole, Undo
<1>8. CASE req[s].op \in Undo /\ status[o] # "COMPLETED"
  BY <1>8 DEF PlannedRows, Planned, Parted, Whole, Undo
<1>9. req[s].op \in {"sale.confirm", "purchase.order"} \cup Parted \cup Whole \cup Undo
  BY DEF OrderOps, SaleOps, PurchaseOps, Parted, Whole, Undo
<1> QED
  BY <1>4, <1>5, <1>6, <1>7, <1>8, <1>9 DEF Parted, Whole, Undo

LEMMA SaleTakes ==
  ASSUME IInv, NEW s \in Sessions,
         \/ ConfirmSale(s) \/ FulfillSale(s) \/ CompleteSale(s) \/ CancelSale(s)
  PROVE  TakesOrder(s) \/ Leaks(s) \/ Rollback(s)
<1> DEFINE o == req[s].order
<1>1. PICK x \in Sales, op \in SaleOps : SaleLocked(s, op, x)
  BY DEF ConfirmSale, FulfillSale, CompleteSale, CancelSale, SaleOps
<1>2. /\ x = o /\ o \in Sales /\ o \in Orders /\ pc[s] = "lock" /\ req[s].op = op
      /\ req[s].op \in OrderOps /\ OrderFree(o)
  BY <1>1 DEF SaleLocked, OrderOps, Orders
<1> HIDE DEF o
<1>3. CASE ConfirmSale(s)
  <2>1. /\ req[s].op = "sale.confirm"
        /\ \/ status[o] = "DRAFT" /\ HoldOrder(s, o, {}, "CONFIRMED")
           \/ Leak(s, o)
    BY <1>3 DEF ConfirmSale, SaleLocked, o
  <2>2. PlannedRows(s) = {}
    BY <1>2, <2>1, RowsPlanned
  <2>3. status[o] = "DRAFT" => Decided(s, "CONFIRMED")
    BY <1>2, <2>1 DEF Decided, o
  <2> QED
    BY <1>2, <2>1, <2>2, <2>3 DEF TakesOrder, Leaks, Status, SaleStatus, o
<1>4. CASE FulfillSale(s)
  <2> DEFINE items == req[s].items
  <2>1. /\ req[s].op = "sale.fulfill"
        /\ \/ /\ status[o] \in {"CONFIRMED", "PARTIALLY_FULFILLED"}
              /\ FulfillmentValid(o, items)
              /\ HoldOrder(s, o, InputRows(o, items), FulfilledStatus(o, items))
           \/ Rollback(s)
    BY <1>4 DEF FulfillSale, SaleLocked, o
  <2>2. FulfillmentValid(o, items) => PlannedRows(s) = InputRows(o, items)
    BY <1>2, <2>1, RowsPlanned DEF FulfillmentValid, Parted, o
  <2>3. FulfilledStatus(o, items) \in Status
    BY DEF FulfilledStatus, Status, SaleStatus
  <2>4. status[o] \in {"CONFIRMED", "PARTIALLY_FULFILLED"} /\ FulfillmentValid(o, items)
          => Decided(s, FulfilledStatus(o, items))
    BY <2>1 DEF Decided, o
  <2> QED
    BY <1>2, <2>1, <2>2, <2>3, <2>4 DEF TakesOrder, o
<1>5. CASE CompleteSale(s)
  <2>1. /\ req[s].op = "sale.complete"
        /\ \/ status[o] = "DRAFT" /\ HoldOrder(s, o, ItemRows(o), "COMPLETED")
           \/ Rollback(s)
    BY <1>5 DEF CompleteSale, SaleLocked, o
  <2>2. PlannedRows(s) = ItemRows(o)
    BY <1>2, <2>1, RowsPlanned DEF Whole, o
  <2>3. status[o] = "DRAFT" => Decided(s, "COMPLETED")
    BY <2>1 DEF Decided, Whole, o
  <2> QED
    BY <1>2, <2>1, <2>2, <2>3 DEF TakesOrder, Status, SaleStatus, o
<1>6. CASE CancelSale(s)
  <2>1. /\ req[s].op = "sale.cancel"
        /\ \/ status[o] = "DRAFT" /\ HoldOrder(s, o, {}, "CANCELLED")
           \/ status[o] = "COMPLETED" /\ HoldOrder(s, o, ItemRows(o), "CANCELLED")
           \/ Rollback(s)
    BY <1>6 DEF CancelSale, SaleLocked, o
  <2>2. PlannedRows(s) = IF status[o] = "COMPLETED" THEN ItemRows(o) ELSE {}
    BY <1>2, <2>1, RowsPlanned DEF Undo, o
  <2>3. status[o] \in {"DRAFT", "COMPLETED"} => Decided(s, "CANCELLED")
    BY <2>1 DEF Decided, Undo, o
  <2> QED
    BY <1>2, <2>1, <2>2, <2>3 DEF TakesOrder, Status, SaleStatus, o
<1> QED
  BY <1>3, <1>4, <1>5, <1>6

LEMMA PurchaseTakes ==
  ASSUME IInv, NEW s \in Sessions,
         \/ OrderPurchase(s) \/ ReceivePurchase(s)
         \/ CompletePurchase(s) \/ CancelPurchase(s)
  PROVE  TakesOrder(s) \/ Leaks(s) \/ Rollback(s)
<1> DEFINE o == req[s].order
<1>1. PICK x \in Purchases, op \in PurchaseOps : PurchaseLocked(s, op, x)
  BY DEF OrderPurchase, ReceivePurchase, CompletePurchase, CancelPurchase, PurchaseOps
<1>2. /\ x = o /\ o \notin Sales /\ o \in Purchases /\ o \in Orders
      /\ pc[s] = "lock" /\ req[s].op = op /\ req[s].op \in OrderOps /\ OrderFree(o)
  BY <1>1, IdsAssumption DEF PurchaseLocked, OrderOps, Orders
<1> HIDE DEF o
<1>3. CASE OrderPurchase(s)
  <2>1. /\ req[s].op = "purchase.order"
        /\ \/ status[o] = "DRAFT" /\ HoldOrder(s, o, {}, "ORDERED")
           \/ Leak(s, o)
    BY <1>3 DEF OrderPurchase, PurchaseLocked, o
  <2>2. PlannedRows(s) = {}
    BY <1>2, <2>1, RowsPlanned
  <2>3. status[o] = "DRAFT" => Decided(s, "ORDERED")
    BY <1>2, <2>1 DEF Decided, o
  <2> QED
    BY <1>2, <2>1, <2>2, <2>3 DEF TakesOrder, Leaks, Status, PurchaseStatus, o
<1>4. CASE ReceivePurchase(s)
  <2> DEFINE items == req[s].items
  <2>1. /\ req[s].op = "purchase.receive"
        /\ \/ /\ status[o] \in {"ORDERED", "PARTIALLY_RECEIVED"}
              /\ ReceiptValid(o, items)
              /\ HoldOrder(s, o, InputRows(o, items), ReceivedStatus(o, items))
           \/ Rollback(s)
    BY <1>4 DEF ReceivePurchase, PurchaseLocked, o
  <2>2. ReceiptValid(o, items) => PlannedRows(s) = InputRows(o, items)
    BY <1>2, <2>1, RowsPlanned DEF ReceiptValid, Parted, o
  <2>3. ReceivedStatus(o, items) \in Status
    BY DEF ReceivedStatus, Status, PurchaseStatus
  <2>4. status[o] \in {"ORDERED", "PARTIALLY_RECEIVED"} /\ ReceiptValid(o, items)
          => Decided(s, ReceivedStatus(o, items))
    BY <2>1 DEF Decided, o
  <2> QED
    BY <1>2, <2>1, <2>2, <2>3, <2>4 DEF TakesOrder, o
<1>5. CASE CompletePurchase(s)
  <2>1. /\ req[s].op = "purchase.complete"
        /\ \/ status[o] = "DRAFT" /\ HoldOrder(s, o, ItemRows(o), "COMPLETED")
           \/ Rollback(s)
    BY <1>5 DEF CompletePurchase, PurchaseLocked, o
  <2>2. PlannedRows(s) = ItemRows(o)
    BY <1>2, <2>1, RowsPlanned DEF Whole, o
  <2>3. status[o] = "DRAFT" => Decided(s, "COMPLETED")
    BY <2>1 DEF Decided, Whole, o
  <2> QED
    BY <1>2, <2>1, <2>2, <2>3 DEF TakesOrder, Status, PurchaseStatus, o
<1>6. CASE CancelPurchase(s)
  <2>1. /\ req[s].op = "purchase.cancel"
        /\ \/ status[o] = "DRAFT" /\ HoldOrder(s, o, {}, "CANCELLED")
           \/ status[o] = "COMPLETED" /\ HoldOrder(s, o, ItemRows(o), "CANCELLED")
           \/ Rollback(s)
    BY <1>6 DEF CancelPurchase, PurchaseLocked, o
  <2>2. PlannedRows(s) = IF status[o] = "COMPLETED" THEN ItemRows(o) ELSE {}
    BY <1>2, <2>1, RowsPlanned DEF Undo, o
  <2>3. status[o] \in {"DRAFT", "COMPLETED"} => Decided(s, "CANCELLED")
    BY <2>1 DEF Decided, Undo, o
  <2> QED
    BY <1>2, <2>1, <2>2, <2>3 DEF TakesOrder, Status, PurchaseStatus, o
<1> QED
  BY <1>3, <1>4, <1>5, <1>6

(* What a request plans for a row it is going to lock.                     *)
LEMMA PlanOfItem ==
  ASSUME OInv, NEW s \in Sessions, pc[s] \in {"items", "checked"},
         req[s].op \in OrderOps, NEW r \in todo[s]
  PROVE  /\ req[s].op \in Parted =>
              Planned(s, r[1]) = req[s].items[r[1]] /\ Grown(s, r[1]) = req[s].items[r[1]]
         /\ req[s].op \in Whole =>
              Planned(s, r[1]) = lines[req[s].order][r[1]] /\ Grown(s, r[1]) = 0
         /\ req[s].op \in Undo =>
              Planned(s, r[1]) = -lines[req[s].order][r[1]] /\ Grown(s, r[1]) = 0
<1>1. InHand(s)
  BY DEF OInv, Holding
<1>2. r \in Rows /\ Planned(s, r[1]) # 0
  BY <1>1 DEF InHand, PlannedRows
<1> QED
  BY <1>2 DEF Planned, Grown, Parted, Whole, Undo

(* What a sale needs to know of the row it is about to write.              *)
LEMMA SaleRow ==
  ASSUME OInv, NEW s \in Sessions, NEW op \in SaleOps, NEW r \in todo[s],
         NextSaleRow(s, op, r)
  PROVE  LET o == req[s].order
         IN /\ pc[s] = "items" /\ req[s].op = op /\ op \in OrderOps
            /\ o \in Sales /\ r \in Rows
            /\ stock[r] \in 0..MaxInt /\ lines[o][r[1]] \in 0..MaxInt
            /\ op = "sale.fulfill" => req[s].items[r[1]] \in 1..MaxInt
<1>1. /\ pc[s] = "items" /\ req[s].op = op /\ op \in OrderOps
      /\ TypeOK /\ RequestInv /\ IInv
  BY DEF NextSaleRow, OrderOps, OInv, IInv
<1>2. /\ r \in Rows /\ stock[r] \in 0..MaxInt /\ lines[req[s].order][r[1]] \in 0..MaxInt
      /\ op = "sale.fulfill" => req[s].items[r[1]] \in -MaxInt..MaxInt
  BY <1>1, RowTypes
<1>3. op = "sale.fulfill" => req[s].items[r[1]] > 0
  BY <1>1 DEF RequestInv
<1> QED
  BY <1>1, <1>2, <1>3, OrderRequest, IdsAssumption

LEMMA SaleWrites ==
  ASSUME OInv, NEW s \in Sessions,
         FulfillItem(s) \/ CompleteSaleItem(s) \/ CancelSaleItem(s)
  PROVE  WritesItem(s) \/ Rollback(s)
<1> DEFINE o == req[s].order
<1>1. CASE FulfillItem(s)
  <2>1. PICK r \in todo[s] :
          /\ NextSaleRow(s, "sale.fulfill", r) /\ r \in rows /\ RowFree(r)
          /\ LET q == req[s].items[r[1]]
             IN \/ Rollback(s)
                \/ ~(stock[r] < q) /\ WriteRow(s, r, stock[r] - q, -q, q)
    BY <1>1 DEF FulfillItem
  <2> DEFINE q == req[s].items[r[1]]
  <2>2. /\ pc[s] = "items" /\ req[s].op = "sale.fulfill" /\ req[s].op \in OrderOps
        /\ o \in Sales /\ stock[r] \in 0..MaxInt /\ q \in 1..MaxInt
    BY <2>1, SaleRow DEF SaleOps
  <2>3. Planned(s, r[1]) = q /\ Grown(s, r[1]) = q
    BY <2>2, PlanOfItem DEF Parted
  <2>4. ~(stock[r] < q) => stock[r] - q \in 0..MaxInt
    BY <2>2, IdsAssumption
  <2> QED
    BY <2>1, <2>2, <2>3, <2>4 DEF WritesItem, Movement
<1>2. CASE CompleteSaleItem(s)
  <2>1. PICK r \in todo[s] :
          /\ NextSaleRow(s, "sale.complete", r) /\ r \in rows /\ RowFree(r)
          /\ LET q == lines[o][r[1]]
             IN \/ Rollback(s)
                \/ ~(stock[r] < q) /\ WriteRow(s, r, stock[r] - q, -q, 0)
    BY <1>2 DEF CompleteSaleItem
  <2> DEFINE q == lines[o][r[1]]
  <2>2. /\ pc[s] = "items" /\ req[s].op = "sale.complete" /\ req[s].op \in OrderOps
        /\ o \in Sales /\ stock[r] \in 0..MaxInt /\ q \in 0..MaxInt
    BY <2>1, SaleRow DEF SaleOps
  <2>3. Planned(s, r[1]) = q /\ Grown(s, r[1]) = 0
    BY <2>2, PlanOfItem DEF Whole
  <2>4. ~(stock[r] < q) => stock[r] - q \in 0..MaxInt
    BY <2>2, IdsAssumption
  <2> QED
    BY <2>1, <2>2, <2>3, <2>4 DEF WritesItem, Movement
<1>3. CASE CancelSaleItem(s)
  <2>1. PICK r \in todo[s] :
          /\ NextSaleRow(s, "sale.cancel", r) /\ r \in rows /\ RowFree(r)
          /\ LET q == lines[o][r[1]]
                 new == Wrap(stock[r] + q)
             IN \/ Rollback(s)
                \/ QuantityAllowed(new) /\ WriteRow(s, r, new, q, 0)
    BY <1>3 DEF CancelSaleItem
  <2> DEFINE q   == lines[o][r[1]]
             new == Wrap(stock[r] + q)
  <2>2. /\ pc[s] = "items" /\ req[s].op = "sale.cancel" /\ req[s].op \in OrderOps
        /\ o \in Sales /\ stock[r] \in 0..MaxInt /\ q \in 0..MaxInt
    BY <2>1, SaleRow DEF SaleOps
  <2>3. Planned(s, r[1]) = -q /\ Grown(s, r[1]) = 0
    BY <2>2, PlanOfItem DEF Undo
  <2>4. QuantityAllowed(new) => new \in 0..MaxInt
    BY <2>2, NoOverflow, IdsAssumption
  <2>5. Movement(o, Planned(s, r[1])) = q
    BY <2>2, <2>3 DEF Movement
  <2> QED
    BY <2>1, <2>2, <2>3, <2>4, <2>5 DEF WritesItem
<1> QED
  BY <1>1, <1>2, <1>3

(* Likewise for a purchase.                                                *)
LEMMA PurchaseRow ==
  ASSUME OInv, NEW s \in Sessions, NEW op \in PurchaseOps, NEW r \in todo[s],
         NEW at \in {"items", "checked"}, NextPurchaseRow(s, at, op, r)
  PROVE  LET o == req[s].order
         IN /\ pc[s] = at /\ req[s].op = op /\ op \in OrderOps
            /\ o \notin Sales /\ r \in Rows
            /\ stock[r] \in 0..MaxInt /\ lines[o][r[1]] \in 0..MaxInt
            /\ op = "purchase.receive" => req[s].items[r[1]] \in -MaxInt..MaxInt
<1>1. /\ pc[s] = at /\ req[s].op = op /\ op \in OrderOps
      /\ TypeOK /\ IInv
  BY DEF NextPurchaseRow, OrderOps, OInv, IInv
<1>2. /\ r \in Rows /\ stock[r] \in 0..MaxInt /\ lines[req[s].order][r[1]] \in 0..MaxInt
      /\ op = "purchase.receive" => req[s].items[r[1]] \in -MaxInt..MaxInt
  BY <1>1, RowTypes
<1> QED
  BY <1>1, <1>2, OrderRequest

(* AddToRow, when it is asked to add what is planned.                      *)
LEMMA AddsItem ==
  ASSUME OInv, NEW s \in Sessions, NEW r \in todo[s], r \in Rows,
         NEW q \in -MaxInt..MaxInt, NEW n,
         pc[s] \in {"items", "checked"}, req[s].op \in OrderOps, ~NeedsRow(s),
         q = Planned(s, r[1]), n = Grown(s, r[1]),
         RowFree(r), AddToRow(s, r, q, n)
  PROVE  WritesItem(s) \/ Rollback(s)
<1> DEFINE new == Wrap(stock[r] + q)
<1>1. Quantity(r) = stock[r] /\ stock[r] \in 0..MaxInt
  BY DEF OInv, IInv, TypeOK, TablesOK, BufferInv, Quantity
<1>2. \/ Rollback(s)
      \/ QuantityAllowed(new) /\ WriteRow(s, r, new, q, n)
  BY <1>1 DEF AddToRow
<1>3. QuantityAllowed(new) => new \in 0..MaxInt
  <2>1. stock[r] + q \in Int /\ -MaxInt <= stock[r] + q /\ stock[r] + q <= 2 * MaxInt
    BY <1>1, IdsAssumption
  <2> QED
    BY <2>1, NoOverflow
<1>4. Movement(req[s].order, Planned(s, r[1])) = q
  BY DEF NeedsRow, Movement
<1> QED
  BY <1>2, <1>3, <1>4 DEF WritesItem

LEMMA PurchaseWrites ==
  ASSUME OInv, NEW s \in Sessions,
         ReceiveItem(s) \/ CompletePurchaseItem(s) \/ CancelPurchaseItem(s)
  PROVE  WritesItem(s) \/ Rollback(s)
<1> DEFINE o == req[s].order
<1>1. CASE ReceiveItem(s)
  <2>1. PICK r \in todo[s] :
          /\ NextPurchaseRow(s, "items", "purchase.receive", r) /\ RowFree(r)
          /\ AddToRow(s, r, req[s].items[r[1]], req[s].items[r[1]])
    BY <1>1 DEF ReceiveItem
  <2> DEFINE q == req[s].items[r[1]]
  <2>2. /\ pc[s] = "items" /\ req[s].op = "purchase.receive" /\ req[s].op \in OrderOps
        /\ o \notin Sales /\ r \in Rows /\ q \in -MaxInt..MaxInt
    BY <2>1, PurchaseRow DEF PurchaseOps
  <2>3. Planned(s, r[1]) = q /\ Grown(s, r[1]) = q
    BY <2>2, PlanOfItem DEF Parted
  <2>4. ~NeedsRow(s)
    BY <2>2 DEF NeedsRow
  <2> QED
    BY <2>1, <2>2, <2>3, <2>4, AddsItem
<1>2. CASE CompletePurchaseItem(s)
  <2>1. PICK r \in todo[s] :
          /\ NextPurchaseRow(s, "checked", "purchase.complete", r) /\ RowFree(r)
          /\ AddToRow(s, r, lines[o][r[1]], 0)
    BY <1>2 DEF CompletePurchaseItem
  <2> DEFINE q == lines[o][r[1]]
  <2>2. /\ pc[s] = "checked" /\ req[s].op = "purchase.complete" /\ req[s].op \in OrderOps
        /\ o \notin Sales /\ r \in Rows /\ q \in 0..MaxInt
    BY <2>1, PurchaseRow DEF PurchaseOps
  <2>3. Planned(s, r[1]) = q /\ Grown(s, r[1]) = 0
    BY <2>2, PlanOfItem DEF Whole
  <2>4. ~NeedsRow(s) /\ q \in -MaxInt..MaxInt
    BY <2>2, IdsAssumption DEF NeedsRow
  <2> QED
    BY <2>1, <2>2, <2>3, <2>4, AddsItem
<1>3. CASE CancelPurchaseItem(s)
  <2>1. PICK r \in todo[s] :
          /\ NextPurchaseRow(s, "checked", "purchase.cancel", r)
          /\ LET q == lines[o][r[1]]
             IN \/ Rollback(s)
                \/ /\ r \in rows /\ RowFree(r) /\ ~(stock[r] - q < 0)
                   /\ WriteRow(s, r, stock[r] - q, -q, 0)
    BY <1>3 DEF CancelPurchaseItem
  <2> DEFINE q == lines[o][r[1]]
  <2>2. /\ pc[s] = "checked" /\ req[s].op = "purchase.cancel" /\ req[s].op \in OrderOps
        /\ o \notin Sales /\ stock[r] \in 0..MaxInt /\ q \in 0..MaxInt
    BY <2>1, PurchaseRow DEF PurchaseOps
  <2>3. Planned(s, r[1]) = -q /\ Grown(s, r[1]) = 0
    BY <2>2, PlanOfItem DEF Undo
  <2>4. ~(stock[r] - q < 0) => stock[r] - q \in 0..MaxInt
    BY <2>2, IdsAssumption
  <2> QED
    BY <2>1, <2>2, <2>3, <2>4 DEF WritesItem, Movement
<1> QED
  BY <1>1, <1>2, <1>3

LEMMA OrderShapes ==
  ASSUME OInv, NEW s \in Sessions, Arrive(s) \/ Progress(s) \/ Abort(s)
  PROVE  OrderShape(s)
<1> USE DEF OrderShape
<1>1. IInv
  BY DEF OInv
<1>2. CASE Arrive(s)
  BY <1>1, <1>2, StartShapes, QuietShapes
<1>3. CASE SaleStep(s)
  <2>1. CreateSale(s) => Creates(s)
    BY DEF CreateSale, Creates, Orders
  <2>2. SaleNotFound(s) \/ SaleRowMissing(s) => Rollback(s)
    BY DEF SaleNotFound, SaleRowMissing
  <2> QED
    BY <1>1, <1>3, <2>1, <2>2, SaleTakes, SaleWrites, QuietShapes DEF SaleStep
<1>4. CASE PurchaseStep(s)
  <2>1. CreatePurchase(s) => Creates(s)
    BY DEF CreatePurchase, Creates, Orders
  <2>2. PurchaseNotFound(s) => Rollback(s)
    BY DEF PurchaseNotFound
  <2>3. CheckProduct(s) => Checks(s) \/ Rollback(s)
    BY DEF CheckProduct, NextPurchaseRow, Checks
  <2> QED
    BY <1>1, <1>4, <2>1, <2>2, <2>3, PurchaseTakes, PurchaseWrites, QuietShapes
    DEF PurchaseStep
<1>5. CASE InventoryStep(s)
  BY <1>1, <1>5, InventoryOrderShapes
<1>6. CASE CommitOrder(s) \/ CommitInventory(s) \/ EndRequest(s) \/ Abort(s)
  BY <1>1, <1>6, QuietShapes DEF EndRequest, Abort
<1> QED
  BY <1>2, <1>3, <1>4, <1>5, <1>6 DEF Progress

-----------------------------------------------------------------------------
(* Each shape preserves what sessions have in hand.                        *)

LEMMA ListKept ==
  ASSUME OInv, NEW s \in Sessions, Arrive(s) \/ Progress(s) \/ Abort(s)
  PROVE  ListInv'
<1>1. IInv
  BY DEF OInv
<1>2. Shape(s) /\ OthersKept(s)
  BY <1>1, StepShapes, StepLeavesOthers
<1>3. \/ Starts(s)
      \/ pc'[s] = "idle"
      \/ req'[s] = req[s] /\ pc[s] # "idle"
  <2> USE <1>1 DEF IInv, TypeOK, TransactionsOK
  <2>1. CASE \/ Rollback(s) \/ CommitOrder(s) \/ CommitInventory(s) \/ Creates(s)
    <3>1. End(s)
      BY <2>1 DEF Rollback, CommitOrder, CommitInventory, Creates, CommitCreate
    <3> QED
      BY <3>1 DEF End
  <2>2. CASE Holds(s) \/ Leaks(s) \/ Checks(s) \/ BeginTransfer(s)
    BY <2>2 DEF Holds, HoldOrder, Leaks, Leak, Checks, BeginTransfer
  <2>3. CASE Writes(s) \/ LocksPair(s) \/ Moves(s)
    BY <2>3 DEF Writes, WriteRow, LocksPair, Moves
  <2> QED
    BY <1>2, <2>1, <2>2, <2>3 DEF Shape
<1>4. CASE Starts(s)
  <2>1. /\ req'[s].op \in Parted => \E p \in Products : req'[s].items[p] # 0
        /\ req'[s].op \in CreateOps => \E p \in Products : req'[s].cart.lines[p] > 0
    BY <1>1, <1>4 DEF Starts, Start, CheckedRequest, Parted, IInv, TypeOK, TransactionsOK
  <2> QED
    BY <1>2, <2>1 DEF OInv, OthersKept, ListInv
<1>5. CASE ~Starts(s)
  BY <1>2, <1>3, <1>5 DEF OInv, OthersKept, ListInv
<1> QED
  BY <1>4, <1>5

LEMMA TakeInHand ==
  ASSUME OInv, NEW s \in Sessions, TakesOrder(s)
  PROVE  InHand(s)'
<1> DEFINE o == req[s].order
<1>1. PICK st \in Status :
        /\ req[s].op \in OrderOps /\ o \in Orders /\ pc[s] = "lock"
        /\ Decided(s, st) /\ HoldOrder(s, o, PlannedRows(s), st)
  BY DEF TakesOrder
<1>2. IInv /\ TypeOK
  BY DEF OInv, IInv
<1>3. /\ UNCHANGED <<rows, status, site, lines, done, req, rowLock>>
      /\ orderLock'[o] = s /\ wstatus'[s] = st /\ todo'[s] = PlannedRows(s)
      /\ wdone'[s] = done[o]
  BY <1>1, <1>2 DEF HoldOrder, tables, TypeOK, TransactionsOK
<1>4. /\ \A p : Planned(s, p)' = Planned(s, p) /\ Grown(s, p)' = Grown(s, p)
      /\ PlannedRows(s)' = PlannedRows(s)
  BY <1>3 DEF Planned, Grown, PlannedRows
<1>5. Decided(s, wstatus[s])'
  BY <1>1, <1>3
  DEF Decided, FulfillmentValid, FulfilledStatus, ReceiptValid, ReceivedStatus
<1>6. \A r \in Rows : rowLock'[r] # s
  BY <1>1, <1>2, <1>3 DEF IInv, LocksGoUp
<1>7. ASSUME NEW p \in Products
      PROVE  wdone'[s][p] = done'[o][p] + (IF <<p, site'[o]>> \in todo'[s] THEN 0
                                           ELSE Grown(s, p)')
  <2>1. /\ done[o][p] \in Int /\ wdone'[s][p] = done[o][p]
        /\ <<p, site[o]>> \in Rows
    BY <1>1, <1>2, <1>3 DEF TypeOK, TablesOK, Rows
  <2>2. <<p, site[o]>> \notin PlannedRows(s) => Grown(s, p) = 0
    BY <2>1 DEF PlannedRows, Planned, Grown
  <2> QED
    BY <1>3, <1>4, <2>1, <2>2
<1> QED
  BY <1>3, <1>4, <1>5, <1>6, <1>7 DEF InHand

LEMMA WriteInHand ==
  ASSUME OInv, NEW s \in Sessions, WritesItem(s)
  PROVE  InHand(s)'
<1> DEFINE o == req[s].order
<1>1. PICK r \in todo[s], q \in 0..MaxInt :
        /\ pc[s] \in {"items", "checked"} /\ req[s].op \in OrderOps
        /\ RowFree(r) /\ (NeedsRow(s) => r \in rows)
        /\ WriteRow(s, r, q, Movement(o, Planned(s, r[1])), Grown(s, r[1]))
  BY DEF WritesItem
<1>2. IInv /\ TypeOK /\ InHand(s)
  BY <1>1 DEF OInv, IInv, Holding
<1>3. /\ r \in Rows /\ r \in PlannedRows(s) /\ r[1] \in Products
      /\ r = <<r[1], site[o]>>
  BY <1>2 DEF InHand, PlannedRows, Rows
<1>4. /\ UNCHANGED <<rows, status, site, lines, done, req, wstatus, orderLock>>
      /\ todo'[s] = todo[s] \ {r} /\ rowLock'[r] = s
      /\ \A x \in Rows \ {r} : rowLock'[x] = rowLock[x] /\ wmov'[s][x] = wmov[s][x]
      /\ wmov'[s][r] = Movement(o, Planned(s, r[1]))
  BY <1>1, <1>2, <1>3 DEF WriteRow, tables, TypeOK, TransactionsOK
<1>5. /\ \A p \in Products \ {r[1]} : wdone'[s][p] = wdone[s][p]
      /\ wdone'[s][r[1]] = wdone[s][r[1]] + Grown(s, r[1])
  <2> DEFINE f == wdone[s]
             p == r[1]
             n == Grown(s, p)
  <2>1. wdone' = [wdone EXCEPT ![s] = [f EXCEPT ![p] = @ + n]]
    BY <1>1 DEF WriteRow
  <2>2. wdone'[s] = [f EXCEPT ![p] = @ + n] /\ f \in [Products -> Int]
    BY <1>2, <2>1 DEF TypeOK, TransactionsOK
  <2> HIDE DEF f, p, n
  <2>3. /\ \A x \in Products \ {p} : wdone'[s][x] = f[x]
        /\ p \in Products => wdone'[s][p] = f[p] + n
    BY <2>2
  <2> QED
    BY <1>3, <2>3 DEF f, p, n
<1>6. /\ \A p : Planned(s, p)' = Planned(s, p) /\ Grown(s, p)' = Grown(s, p)
      /\ PlannedRows(s)' = PlannedRows(s) /\ NeedsRow(s)' = NeedsRow(s)
  BY <1>4 DEF Planned, Grown, PlannedRows, NeedsRow
<1>7. Decided(s, wstatus[s])'
  BY <1>2, <1>4
  DEF InHand, Decided, FulfillmentValid, FulfilledStatus, ReceiptValid, ReceivedStatus
<1>8. /\ todo'[s] \subseteq PlannedRows(s)
      /\ \A x \in Rows : rowLock'[x] = s <=> x \in PlannedRows(s) \ todo'[s]
      /\ \A x \in Rows : rowLock'[x] = s =>
           /\ wmov'[s][x] = Movement(o, Planned(s, x[1]))
           /\ NeedsRow(s) => x \in rows
  BY <1>1, <1>2, <1>3, <1>4 DEF InHand
<1>9. ASSUME NEW p \in Products
      PROVE  wdone'[s][p] = done[o][p] + (IF <<p, site[o]>> \in todo'[s] THEN 0
                                          ELSE Grown(s, p))
  <2>1. wdone[s][p] = done[o][p] + (IF <<p, site[o]>> \in todo[s] THEN 0 ELSE Grown(s, p))
    BY <1>2 DEF InHand
  <2>2. o \in Orders /\ done[o][p] \in Int
    BY <1>1, <1>2, OrderRequest DEF OInv, TypeOK, TablesOK
  <2>3. CASE p = r[1]
    BY <1>1, <1>3, <1>4, <1>5, <2>1, <2>2, <2>3
  <2>4. CASE p # r[1]
    BY <1>3, <1>4, <1>5, <2>1, <2>4
  <2> QED
    BY <2>3, <2>4
<1>10. orderLock'[o] = s
  BY <1>2, <1>4 DEF InHand
<1> QED
  BY <1>4, <1>6, <1>7, <1>8, <1>9, <1>10 DEF InHand

LEMMA CheckInHand ==
  ASSUME OInv, NEW s \in Sessions, Checks(s), Holding(s)'
  PROVE  InHand(s)'
<1>1. /\ UNCHANGED <<rows, status, site, lines, done, req, todo, wmov, wstatus, wdone,
                     orderLock, rowLock>>
      /\ pc[s] = "items"
  BY DEF Checks, tables, buffer, locks
<1>2. InHand(s)
  BY <1>1 DEF OInv, Holding
<1>3. /\ \A p : Planned(s, p)' = Planned(s, p) /\ Grown(s, p)' = Grown(s, p)
      /\ PlannedRows(s)' = PlannedRows(s) /\ NeedsRow(s)' = NeedsRow(s)
  BY <1>1 DEF Planned, Grown, PlannedRows, NeedsRow
<1>4. Decided(s, wstatus[s])'
  BY <1>1, <1>2
  DEF InHand, Decided, FulfillmentValid, FulfilledStatus, ReceiptValid, ReceivedStatus
<1> QED
  BY <1>1, <1>2, <1>3, <1>4 DEF InHand

-----------------------------------------------------------------------------
(* What a delivery does to the items of its order.                         *)

(* Nothing is delivered beyond what is left, all of it in the end or not.  *)
LEMMA PartDelivered ==
  ASSUME OInv, NEW s \in Sessions, Holding(s), pc[s] = "commit", req[s].op \in Parted
  PROVE  LET o == req[s].order
             all == wdone[s] = lines[o]
         IN /\ \A p \in Products : wdone[s][p] \in 0..lines[o][p]
            /\ \E p \in Products : wdone[s][p] > 0
            /\ all => wstatus[s] \in {"FULFILLED", "RECEIVED"}
            /\ ~all => wstatus[s] \in {"PARTIALLY_FULFILLED", "PARTIALLY_RECEIVED"}
            /\ status[o] # "COMPLETED"
<1> DEFINE o == req[s].order
           items == req[s].items
<1>1. InHand(s) /\ IInv /\ TypeOK /\ o \in Orders /\ todo[s] = {}
  BY OrderRequest DEF OInv, IInv, TodoInv, Holding
<1>2. /\ lines[o] \in [Products -> 0..MaxInt] /\ done[o] \in [Products -> Int]
      /\ wdone[s] \in [Products -> Int] /\ items \in [Products -> -MaxInt..MaxInt]
  BY <1>1, OrderRequest DEF TypeOK, TablesOK, TransactionsOK, Holding
<1>3. \A p \in Products : wdone[s][p] = done[o][p] + items[p]
  BY <1>1 DEF InHand, Grown
<1>4. \A p \in Products : done[o][p] \in 0..lines[o][p]
  BY <1>1 DEF OInv, ProgressMatchesStatus
<1>5. \A p \in Products : items[p] # 0 =>
        items[p] > 0 /\ items[p] <= lines[o][p] - done[o][p]
  BY <1>1 DEF InHand, Decided, FulfillmentValid, ReceiptValid, Parted, Whole, Undo
<1>6. \E p \in Products : items[p] # 0
  BY DEF OInv, ListInv, Holding
<1> HIDE DEF items, o
<1>7. ASSUME NEW p \in Products PROVE wdone[s][p] \in 0..lines[o][p]
  <2>1. /\ lines[o][p] \in Int /\ done[o][p] \in Int /\ items[p] \in Int
        /\ wdone[s][p] = done[o][p] + items[p]
    BY <1>2, <1>3, IdsAssumption
  <2>2. 0 <= done[o][p] /\ done[o][p] <= lines[o][p]
    BY <1>4, <2>1
  <2>3. \/ items[p] = 0
        \/ items[p] > 0 /\ items[p] <= lines[o][p] - done[o][p]
    BY <1>5
  <2> QED
    BY <2>1, <2>2, <2>3
<1>8. \E p \in Products : wdone[s][p] > 0
  <2>1. PICK p \in Products : items[p] # 0
    BY <1>6
  <2>2. items[p] \in Int /\ items[p] > 0 /\ done[o][p] \in Int /\ done[o][p] >= 0
    BY <1>2, <1>4, <1>5, <2>1, IdsAssumption
  <2> QED
    BY <1>3, <2>2
<1>9. wdone[s] = lines[o] <=>
        \A p \in Products : done[o][p] + items[p] >= lines[o][p]
  <2>1. wdone[s] = lines[o] <=> \A p \in Products : wdone[s][p] = lines[o][p]
    BY <1>2
  <2>2. ASSUME NEW p \in Products
        PROVE  wdone[s][p] = lines[o][p] <=> done[o][p] + items[p] >= lines[o][p]
    <3>1. /\ lines[o][p] \in Int /\ wdone[s][p] \in Int /\ wdone[s][p] <= lines[o][p]
      BY <1>2, <1>7, IdsAssumption
    <3> QED
      BY <1>3, <3>1
  <2> QED
    BY <2>1, <2>2
<1>10. CASE req[s].op = "sale.fulfill"
  <2>1. wstatus[s] = FulfilledStatus(o, items) /\ status[o] # "COMPLETED"
    BY <1>1, <1>10 DEF InHand, Decided, Whole, Undo, o, items
  <2> QED
    BY <1>7, <1>8, <1>9, <2>1 DEF FulfilledStatus, o
<1>11. CASE req[s].op = "purchase.receive"
  <2>1. wstatus[s] = ReceivedStatus(o, items) /\ status[o] # "COMPLETED"
    BY <1>1, <1>11 DEF InHand, Decided, Whole, Undo, o, items
  <2>2. (\E p \in Products : done[o][p] + items[p] < lines[o][p]) <=>
          ~(\A p \in Products : done[o][p] + items[p] >= lines[o][p])
    <3>1. \A p \in Products : /\ done[o][p] \in Int /\ items[p] \in Int
                              /\ lines[o][p] \in Int
      BY <1>2, IdsAssumption
    <3> QED
      BY <3>1
  <2> QED
    BY <1>7, <1>8, <1>9, <2>1, <2>2 DEF ReceivedStatus, o
<1> QED
  BY <1>10, <1>11 DEF Parted

(* Any other operation leaves the items alone, and has nothing delivered   *)
(* in parts before it or after it.                                         *)
LEMMA WholeDelivered ==
  ASSUME OInv, NEW s \in Sessions, Holding(s), pc[s] = "commit", req[s].op \notin Parted
  PROVE  LET o == req[s].order
         IN /\ wdone[s] = done[o]
            /\ \A p \in Products : done[o][p] = 0
            /\ wstatus[s] \in {"CONFIRMED", "ORDERED", "COMPLETED", "CANCELLED"}
<1> DEFINE o == req[s].order
<1>1. InHand(s) /\ IInv /\ TypeOK /\ o \in Orders
  BY OrderRequest DEF OInv, IInv, Holding
<1>2. /\ wdone[s] \in [Products -> Int] /\ done[o] \in [Products -> Int]
      /\ lines[o] \in [Products -> 0..MaxInt]
  BY <1>1 DEF TypeOK, TablesOK, TransactionsOK
<1>3. wdone[s] = done[o]
  <2>1. ASSUME NEW p \in Products PROVE wdone[s][p] = done[o][p]
    <3>1. wdone[s][p] = done[o][p] + 0
      BY <1>1 DEF InHand, Grown
    <3> QED
      BY <1>2, <3>1
  <2> QED
    BY <1>2, <2>1
<1>4. /\ status[o] \in {"DRAFT", "COMPLETED"}
      /\ wstatus[s] \in {"CONFIRMED", "ORDERED", "COMPLETED", "CANCELLED"}
  BY <1>1 DEF InHand, Decided, Parted
<1>5. \A p \in Products : done[o][p] = 0
  <2>1. ~(\E p \in Products : done[o][p] > 0)
    BY <1>1, <1>4 DEF OInv, ProgressMatchesStatus
  <2>2. \A p \in Products : done[o][p] >= 0
    BY <1>1, <1>2, IdsAssumption DEF OInv, ProgressMatchesStatus
  <2> QED
    BY <1>2, <2>1, <2>2
<1> QED
  BY <1>3, <1>4, <1>5

-----------------------------------------------------------------------------
(* What an order has moved is what has been delivered of it.               *)
Delivered(o, p) == IF status[o] = "COMPLETED" THEN lines[o][p] ELSE done[o][p]

LEMMA MovedIsDelivered ==
  ASSUME NEW o \in Orders, NEW p \in Products,
         lines[o][p] \in Int, done[o][p] \in Int
  PROVE  Moved(o, p) = Movement(o, Delivered(o, p))
BY DEF Moved, Sign, Movement, Delivered

(* The transaction's movements are those of the rows planned.              *)
LEMMA CommitMoves ==
  ASSUME OInv, NEW s \in Sessions, Holding(s), pc[s] = "commit", NEW p \in Products
  PROVE  LET o == req[s].order
         IN wmov[s][<<p, site[o]>>] = Movement(o, Planned(s, p))
<1> DEFINE o == req[s].order
           r == <<p, site[o]>>
<1>1. InHand(s) /\ IInv /\ todo[s] = {}
  BY DEF OInv, IInv, TodoInv
<1>2. r \in Rows /\ r[1] = p /\ r[2] = site[o]
  BY <1>1, OrderRequest DEF Holding, Rows
<1>3. CASE Planned(s, p) # 0
  <2>1. r \in PlannedRows(s)
    BY <1>2, <1>3 DEF PlannedRows
  <2> QED
    BY <1>1, <1>2, <2>1 DEF InHand
<1>4. CASE Planned(s, p) = 0
  <2>1. r \notin PlannedRows(s)
    BY <1>2, <1>4 DEF PlannedRows
  <2>2. wmov[s][r] = 0
    BY <1>1, <1>2, <2>1 DEF InHand, IInv, BufferInv
  <2>3. \A n \in Int : n >= 0 /\ n <= 0 => Movement(o, n) = n
    BY DEF Movement
  <2> QED
    BY <1>4, <2>2, <2>3
<1> QED
  BY <1>3, <1>4

LEMMA CommitDelivers ==
  ASSUME OInv, NEW s \in Sessions, Holding(s), pc[s] = "commit", NEW p \in Products
  PROVE  LET o == req[s].order
             then == IF wstatus[s] = "COMPLETED" THEN lines[o][p] ELSE wdone[s][p]
         IN /\ Planned(s, p) \in Int
            /\ then = Delivered(o, p) + Planned(s, p)
<1> DEFINE o == req[s].order
<1>1. InHand(s) /\ IInv /\ TypeOK /\ o \in Orders /\ todo[s] = {}
  BY OrderRequest DEF OInv, IInv, TodoInv, Holding
<1>2. /\ lines[o][p] \in Int /\ done[o][p] \in Int /\ wdone[s][p] \in Int
      /\ req[s].op \in Parted => req[s].items[p] \in Int
  <2>1. lines[o][p] \in Int /\ done[o][p] \in Int
    BY <1>1, IdsAssumption DEF TypeOK, TablesOK
  <2>2. wdone[s][p] \in Int
    BY <1>1 DEF TypeOK, TransactionsOK
  <2>3. req[s].op \in Parted => req[s].items[p] \in Int
    BY <1>1, OrderRequest, IdsAssumption DEF Holding
  <2> QED
    BY <2>1, <2>2, <2>3
<1>3. CASE req[s].op \in Parted
  <2>1. Planned(s, p) = req[s].items[p]
    BY <1>3 DEF Planned
  <2>2. wdone[s][p] = done[o][p] + req[s].items[p]
    BY <1>1, <1>3 DEF InHand, Grown
  <2>3. status[o] # "COMPLETED" /\ wstatus[s] # "COMPLETED"
    BY <1>3, PartDelivered
  <2> QED
    BY <1>2, <1>3, <2>1, <2>2, <2>3 DEF Delivered
<1>4. CASE req[s].op \notin Parted
  <2>1. wdone[s][p] = 0 /\ done[o][p] = 0
    BY <1>4, WholeDelivered
  <2>2. CASE req[s].op \in Whole
    <3>1. status[o] = "DRAFT" /\ wstatus[s] = "COMPLETED"
      BY <1>1, <2>2 DEF InHand, Decided, Whole, Undo
    <3>2. Planned(s, p) = lines[o][p]
      BY <1>4, <2>2 DEF Planned
    <3> QED
      BY <1>2, <2>1, <3>1, <3>2 DEF Delivered
  <2>3. CASE req[s].op \in Undo
    <3>1. status[o] \in {"DRAFT", "COMPLETED"} /\ wstatus[s] = "CANCELLED"
      BY <1>1, <2>3 DEF InHand, Decided, Whole, Undo
    <3>2. Planned(s, p) = IF status[o] = "COMPLETED" THEN -lines[o][p] ELSE 0
      BY <1>4, <2>3 DEF Planned, Whole, Undo
    <3> QED
      BY <1>2, <2>1, <3>1, <3>2 DEF Delivered
  <2>4. CASE req[s].op \notin Whole \cup Undo
    <3>1. status[o] = "DRAFT" /\ wstatus[s] # "COMPLETED"
      BY <1>1, <1>4, <2>4 DEF InHand, Decided, Parted
    <3>2. Planned(s, p) = 0
      BY <1>4, <2>4 DEF Planned
    <3> QED
      BY <1>2, <2>1, <3>1, <3>2 DEF Delivered
  <2> QED
    BY <2>2, <2>3, <2>4
<1> QED
  BY <1>3, <1>4

LEMMA CommitOrderKeeps ==
  ASSUME OInv, NEW s \in Sessions, CommitOrder(s)
  PROVE  ProgressMatchesStatus' /\ MovedOnce'
<1>0. PICK o \in Orders : o = req[s].order
  BY OrderRequest DEF OInv, CommitOrder
<1>1. Holding(s) /\ pc[s] = "commit" /\ PublishOrder(s, o)
  BY <1>0 DEF CommitOrder, Holding
<1>2. TypeOK /\ TypeOK'
  BY CommitKeeps DEF OInv, IInv
<1>3. /\ lines' = lines /\ site' = site
      /\ status'[o] = wstatus[s] /\ done'[o] = wdone[s]
      /\ \A p \in Products : posted'[o][p] = posted[o][p] + wmov[s][<<p, site[o]>>]
      /\ \A x \in Orders \ {o} : /\ status'[x] = status[x] /\ done'[x] = done[x]
                                /\ posted'[x] = posted[x]
  BY <1>1, <1>2 DEF PublishOrder, TypeOK, TablesOK
<1>4. ASSUME NEW x \in Orders PROVE ProgressMatchesStatus!(x)'
  <2>1. CASE x # o
    BY <1>3, <2>1 DEF OInv, ProgressMatchesStatus
  <2>2. CASE x = o /\ req[s].op \in Parted
    BY <1>0, <1>1, <1>3, <2>2, PartDelivered
  <2>3. CASE x = o /\ req[s].op \notin Parted
    <3>1. /\ \A p \in Products : done'[o][p] = 0
          /\ status'[o] \in {"CONFIRMED", "ORDERED", "COMPLETED", "CANCELLED"}
      BY <1>0, <1>1, <1>3, <2>3, WholeDelivered
    <3>2. \A p \in Products : 0 \in 0..lines'[o][p]
      BY <1>2, <1>3, IdsAssumption DEF TypeOK, TablesOK
    <3> QED
      BY <2>3, <3>1, <3>2
  <2> QED
    BY <2>1, <2>2, <2>3
<1>5. ASSUME NEW x \in Orders, NEW p \in Products PROVE posted'[x][p] = Moved(x, p)'
  <2>1. CASE x # o
    BY <1>3, <2>1 DEF OInv, MovedOnce, Moved
  <2>2. CASE x = o
    <3>1. /\ lines[o][p] \in Int /\ done[o][p] \in Int /\ done'[o][p] \in Int
      BY <1>2, IdsAssumption DEF TypeOK, TablesOK
    <3>2. posted[o][p] = Movement(o, Delivered(o, p))
      BY <1>2, <3>1, MovedIsDelivered DEF OInv, MovedOnce
    <3>3. Moved(o, p)' = Movement(o, IF wstatus[s] = "COMPLETED" THEN lines[o][p]
                                     ELSE wdone[s][p])
      <4>1. Moved(o, p)' = IF wstatus[s] = "COMPLETED" THEN Sign(o) * lines[o][p]
                           ELSE Sign(o) * wdone[s][p]
        BY <1>3 DEF Moved, Sign
      <4>2. wdone[s][p] \in Int
        BY <1>3, <3>1
      <4> QED
        BY <3>1, <4>1, <4>2 DEF Sign, Movement
    <3>4. posted'[o][p] = Movement(o, Delivered(o, p)) + Movement(o, Planned(s, p))
      BY <1>0, <1>1, <1>3, <3>2, CommitMoves
    <3>5. Delivered(o, p) \in Int /\ Planned(s, p) \in Int
      BY <1>0, <1>1, <3>1, CommitDelivers DEF Delivered
    <3>6. posted'[o][p] = Movement(o, Delivered(o, p) + Planned(s, p))
      BY <3>4, <3>5 DEF Movement
    <3>7. Moved(o, p)' = Movement(o, Delivered(o, p) + Planned(s, p))
      BY <1>0, <1>1, <3>3, CommitDelivers
    <3> QED
      BY <2>2, <3>6, <3>7
  <2> QED
    BY <2>1, <2>2
<1> QED
  BY <1>4, <1>5 DEF ProgressMatchesStatus, MovedOnce

LEMMA CreateKeeps ==
  ASSUME OInv, NEW s \in Sessions, Creates(s)
  PROVE  ProgressMatchesStatus' /\ MovedOnce'
<1>1. PICK o \in Orders : CommitCreate(s, o)
  BY DEF Creates
<1>2. /\ TypeOK /\ TypeOK' /\ status[o] = Absent
  BY <1>1, CommitKeeps DEF OInv, IInv, CommitCreate
<1>3. /\ done' = done /\ posted' = posted /\ status'[o] = "DRAFT"
      /\ \A x \in Orders \ {o} : status'[x] = status[x] /\ lines'[x] = lines[x]
  BY <1>1, <1>2 DEF CommitCreate, TypeOK, TablesOK
<1>4. \A p \in Products : done[o][p] = 0
  <2>1. ~(\E p \in Products : done[o][p] > 0)
    BY <1>2 DEF OInv, ProgressMatchesStatus, Absent
  <2>2. \A p \in Products : done[o][p] \in Int /\ lines[o][p] \in Int
    BY <1>2, IdsAssumption DEF TypeOK, TablesOK
  <2>3. \A p \in Products : done[o][p] \in 0..lines[o][p]
    BY DEF OInv, ProgressMatchesStatus
  <2> QED
    BY <2>1, <2>2, <2>3
<1>5. ASSUME NEW x \in Orders PROVE ProgressMatchesStatus!(x)'
  <2>1. CASE x # o
    BY <1>3, <2>1 DEF OInv, ProgressMatchesStatus
  <2>2. CASE x = o
    <3>1. \A p \in Products : 0 \in 0..lines'[o][p]
      BY <1>2, IdsAssumption DEF TypeOK, TablesOK
    <3> QED
      BY <1>3, <1>4, <2>2, <3>1
  <2> QED
    BY <2>1, <2>2
<1>6. ASSUME NEW x \in Orders, NEW p \in Products PROVE posted'[x][p] = Moved(x, p)'
  <2>1. CASE x # o
    BY <1>3, <2>1 DEF OInv, MovedOnce, Moved
  <2>2. CASE x = o
    BY <1>2, <1>3, <1>4, <2>2 DEF OInv, MovedOnce, Moved, Absent, Sign
  <2> QED
    BY <2>1, <2>2
<1> QED
  BY <1>5, <1>6 DEF ProgressMatchesStatus, MovedOnce

(* A step of s changes no order that another session has in hand.          *)
LEMMA OthersOrders ==
  ASSUME OInv, NEW s \in Sessions, OrderShape(s), NEW t \in Sessions \ {s}, Holding(t)
  PROVE  LET o == req[t].order
         IN /\ status'[o] = status[o] /\ site'[o] = site[o]
            /\ lines'[o] = lines[o] /\ done'[o] = done[o]
<1> DEFINE o == req[t].order
<1>1. InHand(t) /\ o \in Orders /\ TypeOK
  BY OrderRequest DEF OInv, IInv, Holding
<1>2. CASE Quiet(s) \/ TakesOrder(s) \/ WritesItem(s) \/ Checks(s)
  <2>1. UNCHANGED <<status, site, lines, done>>
    BY <1>2 DEF Quiet, TakesOrder, HoldOrder, WritesItem, WriteRow, Checks, tables
  <2> QED
    BY <2>1
<1>3. CASE CommitOrder(s)
  <2>1. InHand(s) /\ PublishOrder(s, req[s].order)
    BY <1>3 DEF CommitOrder, OInv, Holding
  <2>2. req[s].order # o
    BY <1>1, <2>1 DEF InHand
  <2> QED
    BY <1>1, <2>1, <2>2 DEF PublishOrder, TypeOK, TablesOK
<1>4. CASE Creates(s)
  <2>1. PICK x \in Orders : CommitCreate(s, x)
    BY <1>4 DEF Creates
  <2>2. status[o] # Absent
    BY <1>1 DEF InHand, Decided, Absent
  <2> QED
    BY <1>1, <2>1, <2>2 DEF CommitCreate, TypeOK, TablesOK
<1> QED
  BY <1>2, <1>3, <1>4 DEF OrderShape

LEMMA SessionKeepsOrders ==
  ASSUME OInv, NEW s \in Sessions, Arrive(s) \/ Progress(s) \/ Abort(s)
  PROVE  OInv'
<1>1. IInv /\ IInv'
  BY NextKeeps DEF OInv, Next
<1>2. OrderShape(s) /\ OthersKept(s) /\ ListInv'
  BY <1>1, OrderShapes, StepLeavesOthers, ListKept
<1>3. ASSUME NEW t \in Sessions, Holding(t)' PROVE InHand(t)'
  <2>1. CASE t # s
    <3>1. Holding(t)
      BY <1>2, <1>3, <2>1 DEF Holding, OthersKept
    <3> QED
      BY <1>2, <1>3, <2>1, <3>1, OthersOrders, OthersInHand
  <2>2. CASE t = s
    <3>1. CASE Quiet(s)
      BY <1>3, <2>2, <3>1 DEF Quiet, Holding
    <3>2. CASE CommitOrder(s) \/ Creates(s)
      <4>1. pc'[s] = "idle"
        BY <1>1, <3>2
        DEF CommitOrder, Creates, CommitCreate, End, IInv, TypeOK, TransactionsOK
      <4> QED
        BY <1>3, <2>2, <4>1 DEF Holding
    <3> QED
      BY <1>2, <1>3, <2>2, <3>1, <3>2, TakeInHand, WriteInHand, CheckInHand
      DEF OrderShape
  <2> QED
    BY <2>1, <2>2
<1>4. ProgressMatchesStatus' /\ MovedOnce'
  <2>1. CASE Quiet(s) \/ TakesOrder(s) \/ WritesItem(s) \/ Checks(s)
    <3>1. UNCHANGED <<status, lines, done, posted>>
      BY <2>1 DEF Quiet, TakesOrder, HoldOrder, WritesItem, WriteRow, Checks, tables
    <3> QED
      BY <3>1 DEF OInv, ProgressMatchesStatus, MovedOnce, Moved
  <2> QED
    BY <1>2, <2>1, CommitOrderKeeps, CreateKeeps DEF OrderShape
<1> QED
  BY <1>1, <1>2, <1>3, <1>4 DEF OInv

LEMMA NextKeepsOrders == OInv /\ [Next]_vars => OInv'
<1> SUFFICES ASSUME OInv, [Next]_vars PROVE OInv'
  OBVIOUS
<1>1. IInv'
  BY NextKeeps DEF OInv
<1>2. ASSUME UNCHANGED <<tables, pc, req, todo, buffer, locks>> PROVE OInv'
  <2> USE <1>2 DEF OInv, tables, buffer, locks
  <2>1. ListInv' /\ ProgressMatchesStatus' /\ MovedOnce'
    BY DEF ListInv, ProgressMatchesStatus, MovedOnce, Moved
  <2>2. ASSUME NEW s \in Sessions, Holding(s)' PROVE InHand(s)'
    <3>1. InHand(s)
      BY <2>2 DEF Holding
    <3>2. /\ \A p : Planned(s, p)' = Planned(s, p) /\ Grown(s, p)' = Grown(s, p)
          /\ PlannedRows(s)' = PlannedRows(s) /\ NeedsRow(s)' = NeedsRow(s)
      BY DEF Planned, Grown, PlannedRows, NeedsRow
    <3>3. Decided(s, wstatus[s])'
      BY <3>1
      DEF InHand, Decided, FulfillmentValid, FulfilledStatus, ReceiptValid, ReceivedStatus
    <3> QED
      BY <3>1, <3>2, <3>3 DEF InHand
  <2> QED
    BY <1>1, <2>1, <2>2
<1>3. ASSUME NEW p \in Products, SetProductActive(p) PROVE OInv'
  BY <1>2, <1>3 DEF SetProductActive
<1>4. CASE UNCHANGED vars
  BY <1>2, <1>4 DEF vars
<1> QED
  BY <1>3, <1>4, SessionKeepsOrders DEF Next

LEMMA OrdersInvariance == Spec => []OInv
BY InitOrders, NextKeepsOrders, PTL DEF Spec

(* The items of an order agree with its status, whatever requests deliver, *)
(* complete or cancel it at the same time.                                 *)
THEOREM ItemsAgreeWithStatus == Spec => []ProgressMatchesStatus
<1>1. OInv => ProgressMatchesStatus
  BY DEF OInv
<1> QED
  BY <1>1, OrdersInvariance, PTL

(* An order has moved the stock that its status and items say, no more and *)
(* no less, however often it is asked to.                                  *)
THEOREM StockMovedOnce == Spec => []MovedOnce
<1>1. OInv => MovedOnce
  BY DEF OInv
<1> QED
  BY <1>1, OrdersInvariance, PTL

-----------------------------------------------------------------------------
(* StockSystem implements StockLedger: seen from the committed tables,     *)
(* every operation happens at once, when its transaction commits, and all  *)
(* other steps are invisible.  LInv adds to OInv what a transaction of the *)
(* inventory service holds before it commits.                              *)

(* A stock row is about to be opened or adjusted.                          *)
RowInHand(s) ==
  /\ \A r \in Rows : rowLock[r] = s <=> r = req[s].row
  /\ wmov[s][req[s].row] = req[s].qty
  /\ req[s].row \notin rows => req[s].qty >= 0

(* Both rows of a transfer are locked, the source as it was found, or left *)
(* to lock; they are moved before the commit.                              *)
PairInHand(s) ==
  /\ req[s].from # req[s].to /\ req[s].qty > 0
  /\ \A r \in Rows :
       rowLock[r] = s <=> r \in {Source(s), Destination(s)} \ todo[s]
  /\ todo[s] \subseteq {Source(s), Destination(s)}
  /\ Source(s) \in todo[s] \/ Source(s) \in rows
  /\ pc[s] = "commit" =>
       wmov[s][Source(s)] = -req[s].qty /\ wmov[s][Destination(s)] = req[s].qty

StockInHand(s) ==
  /\ pc[s] = "commit" /\ req[s].op \in {"inventory.create", "inventory.adjust"} =>
       RowInHand(s)
  /\ pc[s] \in {"pair", "move", "commit"} /\ req[s].op = "inventory.transfer" =>
       PairInHand(s)

LInv == OInv /\ \A s \in Sessions : StockInHand(s)

-----------------------------------------------------------------------------
LEMMA InitLedger == Init => LInv /\ Ledger!Init
<1> SUFFICES ASSUME Init PROVE LInv /\ Ledger!Init
  OBVIOUS
<1>1. OInv
  BY InitOrders
<1>2. \A s \in Sessions : StockInHand(s)
  BY DEF Init, StockInHand
<1>3. Ledger!Init
  BY DEF Init, Ledger!Init, Ledger!Rows, Ledger!Orders, Ledger!Absent, Rows, Orders, Absent
<1> QED
  BY <1>1, <1>2, <1>3 DEF LInv

(* What others do leaves what a session has in hand.                       *)
LEMMA OthersStockInHand ==
  ASSUME LInv, NEW s \in Sessions, OthersKept(s), NEW t \in Sessions \ {s}
  PROVE  StockInHand(t)'
<1>1. /\ pc'[t] = pc[t] /\ req'[t] = req[t] /\ todo'[t] = todo[t] /\ wmov'[t] = wmov[t]
      /\ \A r \in Rows : rowLock'[r] = t <=> rowLock[r] = t
      /\ rows \subseteq rows'
  BY DEF OthersKept
<1>2. Source(t)' = Source(t) /\ Destination(t)' = Destination(t)
  BY <1>1 DEF Source, Destination
<1>3. RowInHand(t) => RowInHand(t)'
  BY <1>1 DEF RowInHand
<1>4. PairInHand(t) => PairInHand(t)'
  BY <1>1, <1>2 DEF PairInHand
<1> QED
  BY <1>1, <1>3, <1>4 DEF LInv, StockInHand

LEMMA WriteStockInHand ==
  ASSUME LInv, NEW s \in Sessions, Writes(s)
  PROVE  StockInHand(s)'
<1>1. IInv /\ TypeOK /\ RequestInv
  BY DEF LInv, OInv, IInv
<1>2. PICK r \in Rows, q \in 0..MaxInt, d \in -MaxInt..MaxInt, n \in -MaxInt..MaxInt :
        /\ \/ pc[s] \in {"items", "checked"} /\ req[s].op \in OrderOps /\ NextRow(s, r)
           \/ /\ pc[s] \in {"insert", "adjust"} /\ r = req[s].row /\ d = req[s].qty
              /\ pc[s] = "adjust" => r \in rows
        /\ RowFree(r) /\ WriteRow(s, r, q, d, n)
  BY DEF Writes
<1>3. /\ req' = req /\ rows' = rows /\ wmov'[s][r] = d
      /\ rowLock' = [rowLock EXCEPT ![r] = s] /\ pc'[s] \in {"items", "commit"}
  BY <1>1, <1>2 DEF WriteRow, tables, TypeOK, TransactionsOK
<1>4. CASE pc[s] \in {"items", "checked"}
  <2>1. req[s].op \in OrderOps
    BY <1>1, <1>4 DEF RequestInv
  <2> QED
    BY <1>3, <2>1 DEF StockInHand, OrderOps, SaleOps, PurchaseOps
<1>5. CASE pc[s] \in {"insert", "adjust"}
  <2>1. /\ req[s].op \in {"inventory.create", "inventory.adjust"}
        /\ r \notin rows => req[s].qty >= 0
    BY <1>1, <1>2, <1>5 DEF RequestInv
  <2>2. \A x \in Rows : rowLock[x] # s
    BY <1>1, <1>5 DEF IInv, LocksGoUp
  <2>3. \A x \in Rows : rowLock'[x] = s <=> x = r
    BY <1>1, <1>3, <2>2 DEF TypeOK, TransactionsOK
  <2>4. r = req[s].row /\ d = req[s].qty
    BY <1>2, <1>5
  <2> QED
    BY <1>3, <2>1, <2>3, <2>4 DEF StockInHand, RowInHand
<1> QED
  BY <1>2, <1>4, <1>5

LEMMA PairStockInHand ==
  ASSUME LInv, NEW s \in Sessions, BeginTransfer(s) \/ LocksPair(s) \/ Moves(s)
  PROVE  StockInHand(s)'
<1>1. IInv /\ TypeOK /\ RequestInv
  BY DEF LInv, OInv, IInv
<1>2. /\ pc[s] \in {"transfer", "pair", "move"} /\ pc'[s] \in {"pair", "move", "commit"}
      /\ req' = req /\ rows' = rows
  BY <1>1 DEF BeginTransfer, LocksPair, Moves, tables, TypeOK, TransactionsOK
<1>3. /\ req[s].op = "inventory.transfer" /\ req[s].from # req[s].to /\ req[s].qty > 0
      /\ Source(s)' = Source(s) /\ Destination(s)' = Destination(s)
      /\ Source(s) \in Rows /\ Destination(s) \in Rows /\ Source(s) # Destination(s)
  <2>1. req[s].op = "inventory.transfer" /\ req[s].from # req[s].to /\ req[s].qty > 0
    BY <1>1, <1>2 DEF RequestInv
  <2> QED
    BY <1>1, <1>2, <2>1, RequestTypes DEF Source, Destination
<1>4. CASE BeginTransfer(s)
  <2>1. /\ todo'[s] = {Source(s), Destination(s)} /\ rowLock' = rowLock /\ pc'[s] = "pair"
    BY <1>1, <1>4 DEF BeginTransfer, Source, Destination, locks, TypeOK, TransactionsOK
  <2>2. \A r \in Rows : rowLock[r] # s
    BY <1>1, <1>4 DEF BeginTransfer, IInv, LocksGoUp
  <2>3. PairInHand(s)'
    BY <1>2, <1>3, <2>1, <2>2 DEF PairInHand
  <2> QED
    BY <1>2, <1>3, <2>3 DEF StockInHand
<1>5. CASE LocksPair(s)
  <2>1. PICK r \in todo[s] :
          /\ RowFree(r) /\ (r = Source(s) => r \in rows)
          /\ rowLock' = [rowLock EXCEPT ![r] = s]
          /\ todo' = [todo EXCEPT ![s] = @ \ {r}]
          /\ pc'[s] # "commit"
    BY <1>1, <1>5 DEF LocksPair, TypeOK, TransactionsOK
  <2>2. PairInHand(s)
    BY <1>3, <1>5 DEF LocksPair, LInv, StockInHand
  <2>3. r \in {Source(s), Destination(s)} /\ r \in Rows
    BY <1>3, <2>1, <2>2 DEF PairInHand
  <2>4. PairInHand(s)'
    BY <1>1, <1>2, <1>3, <2>1, <2>2, <2>3 DEF PairInHand, TypeOK, TransactionsOK
  <2> QED
    BY <1>2, <1>3, <2>4 DEF StockInHand
<1>6. CASE Moves(s)
  <2>1. PairInHand(s)
    BY <1>3, <1>6 DEF Moves, LInv, StockInHand
  <2>2. /\ rowLock' = rowLock /\ todo' = todo
        /\ wmov'[s][Source(s)] = -req[s].qty /\ wmov'[s][Destination(s)] = req[s].qty
    BY <1>1, <1>3, <1>6 DEF Moves, locks, TypeOK, TransactionsOK
  <2>3. PairInHand(s)'
    BY <1>2, <1>3, <2>1, <2>2 DEF PairInHand
  <2> QED
    BY <1>2, <1>3, <2>3 DEF StockInHand
<1> QED
  BY <1>4, <1>5, <1>6

LEMMA NextKeepsLedger == LInv /\ [Next]_vars => LInv'
<1> SUFFICES ASSUME LInv, [Next]_vars PROVE LInv'
  OBVIOUS
<1>1. OInv' /\ OInv /\ IInv /\ TypeOK /\ RequestInv
  BY NextKeepsOrders DEF LInv, OInv, IInv
<1>2. ASSUME NEW s \in Sessions, Arrive(s) \/ Progress(s) \/ Abort(s),
             NEW t \in Sessions
      PROVE  StockInHand(t)'
  <2>1. CASE t # s
    BY <1>1, <1>2, <2>1, StepLeavesOthers, OthersStockInHand
  <2>2. CASE t = s
    <3>1. Shape(s)
      BY <1>1, <1>2, StepShapes
    <3>2. CASE Starts(s)
      <4>1. PICK r \in Requests, at \in {"lock", "insert", "adjust", "transfer", "commit"} :
              CheckedRequest(r, at) /\ Start(s, r, at)
        BY <3>2 DEF Starts
      <4>2. pc'[s] \in {"pair", "move", "commit"} => req'[s].op \in CreateOps
        BY <1>1, <4>1 DEF CheckedRequest, Start, TypeOK, TransactionsOK
      <4> QED
        BY <2>2, <4>2 DEF StockInHand, CreateOps
    <3>3. CASE Rollback(s) \/ CommitOrder(s) \/ CommitInventory(s) \/ Creates(s)
      <4>1. End(s)
        BY <3>3 DEF Rollback, CommitOrder, CommitInventory, Creates, CommitCreate
      <4> QED
        BY <1>1, <2>2, <4>1 DEF End, StockInHand, TypeOK, TransactionsOK
    <3>4. CASE Holds(s)
      <4>1. pc[s] = "lock" /\ req' = req
        BY <3>4 DEF Holds, HoldOrder
      <4>2. req[s].op \in OrderOps
        BY <1>1, <4>1 DEF RequestInv
      <4> QED
        BY <2>2, <4>1, <4>2 DEF StockInHand, OrderOps, SaleOps, PurchaseOps
    <3>5. CASE Leaks(s) \/ Checks(s)
      BY <1>1, <2>2, <3>5
      DEF Leaks, Leak, Checks, StockInHand, TypeOK, TransactionsOK
    <3> QED
      BY <2>2, <3>1, <3>2, <3>3, <3>4, <3>5, WriteStockInHand, PairStockInHand DEF Shape
  <2> QED
    BY <2>1, <2>2
<1>3. ASSUME UNCHANGED <<tables, pc, req, todo, buffer, locks>>, NEW s \in Sessions
      PROVE  StockInHand(s)'
  BY <1>3 DEF LInv, StockInHand, RowInHand, PairInHand, Source, Destination, tables, buffer,
     locks
<1>4. ASSUME NEW p \in Products, SetProductActive(p), NEW s \in Sessions
      PROVE  StockInHand(s)'
  BY <1>3, <1>4 DEF SetProductActive
<1>5. ASSUME UNCHANGED vars, NEW s \in Sessions PROVE StockInHand(s)'
  BY <1>3, <1>5 DEF vars
<1> QED
  BY <1>1, <1>2, <1>4, <1>5 DEF Next, LInv

-----------------------------------------------------------------------------
(* What a commit does to the stock, when touched are the rows it locked.   *)
LEMMA CommitPosts ==
  ASSUME IInv, NEW s \in Sessions, PublishStock(s), NEW touched \in SUBSET Rows,
         \A r \in Rows : rowLock[r] = s <=> r \in touched
  PROVE  /\ rows' = rows \cup touched
         /\ \A r \in touched : stock[r] + wmov[s][r] \in 0..MaxInt
         /\ stock' = [r \in Rows |-> IF r \in touched THEN stock[r] + wmov[s][r]
                                    ELSE stock[r]]
<1>1. rows' = rows \cup touched
  BY DEF PublishStock
<1>2. ASSUME NEW r \in touched
      PROVE  wrow[s][r] = stock[r] + wmov[s][r] /\ wrow[s][r] \in 0..MaxInt
  BY DEF IInv, NoLostUpdate, TypeOK, TransactionsOK
<1>3. stock' = [r \in Rows |-> IF r \in touched THEN stock[r] + wmov[s][r] ELSE stock[r]]
  BY <1>2 DEF PublishStock
<1> QED
  BY <1>1, <1>2, <1>3

LEMMA InventoryCommits ==
  ASSUME LInv, NEW s \in Sessions, CommitInventory(s)
  PROVE  Ledger!Next
<1>1. /\ IInv /\ PublishStock(s) /\ UNCHANGED <<status, site, lines, done>>
      /\ pc[s] = "commit" /\ req[s].op \in InventoryOps /\ todo[s] = {}
  BY DEF LInv, OInv, IInv, TodoInv, CommitInventory
<1>2. TypeOK /\ req[s].op # "none"
  BY <1>1 DEF IInv, InventoryOps
<1>3. CASE req[s].op \in {"inventory.create", "inventory.adjust"}
  <2>1. PICK r \in Rows, q \in -MaxInt..MaxInt : r = req[s].row /\ q = req[s].qty
    BY <1>2, <1>3, RequestTypes
  <2>2. RowInHand(s)
    BY <1>1, <1>3 DEF LInv, StockInHand
  <2>3. /\ rows' = rows \cup {r} /\ wmov[s][r] = q /\ (r \notin rows => q >= 0)
        /\ \A x \in {r} : stock[x] + wmov[s][x] \in 0..MaxInt
        /\ stock' = [x \in Rows |-> IF x \in {r} THEN stock[x] + wmov[s][x] ELSE stock[x]]
    <3>1. {r} \in SUBSET Rows /\ \A x \in Rows : rowLock[x] = s <=> x \in {r}
      BY <2>1, <2>2 DEF RowInHand
    <3>2. wmov[s][r] = q /\ (r \notin rows => q >= 0)
      BY <2>1, <2>2 DEF RowInHand
    <3> QED
      BY <1>1, <3>1, <3>2, CommitPosts
  <2>4. Ledger!Adjust(r, q)
    BY <1>1, <2>3 DEF Ledger!Adjust, Ledger!Post, Ledger!Rows, Rows
  <2> QED
    BY <2>4 DEF Ledger!Next, Ledger!Rows, Rows
<1>4. CASE req[s].op = "inventory.transfer"
  <2>1. PairInHand(s)
    BY <1>1, <1>4 DEF LInv, StockInHand
  <2>2. PICK p \in Products, b \in Branches, c \in Branches, q \in 1..MaxInt :
          p = req[s].product /\ b = req[s].from /\ c = req[s].to /\ q = req[s].qty
    BY <1>1, <1>2, <1>4, <2>1, RequestsAssumption, RequestTypes DEF PairInHand
  <2>3. /\ Source(s) = <<p, b>> /\ Destination(s) = <<p, c>> /\ b # c
        /\ <<p, b>> \in rows
        /\ wmov[s][<<p, b>>] = -q /\ wmov[s][<<p, c>>] = q
    BY <1>1, <2>1, <2>2 DEF PairInHand, Source, Destination
  <2> DEFINE touched == {<<p, b>>, <<p, c>>}
  <2>4. /\ rows' = rows \cup touched
        /\ \A r \in touched : stock[r] + wmov[s][r] \in 0..MaxInt
        /\ stock' = [r \in Rows |-> IF r \in touched THEN stock[r] + wmov[s][r]
                                   ELSE stock[r]]
    <3>1. touched \in SUBSET Rows /\ \A r \in Rows : rowLock[r] = s <=> r \in touched
      BY <1>1, <2>1, <2>3 DEF PairInHand, Rows
    <3> HIDE DEF touched
    <3> QED
      BY <1>1, <3>1, CommitPosts
  <2>5. \A r \in touched : wmov[s][r] = IF r[2] = b THEN -q ELSE q
    BY <2>3
  <2>6. Ledger!Transfer(p, b, c, q)
    BY <1>1, <2>3, <2>4, <2>5 DEF Ledger!Transfer, Ledger!Post, Ledger!Rows, Rows
  <2> QED
    BY <2>6 DEF Ledger!Next
<1> QED
  BY <1>1, <1>3, <1>4 DEF InventoryOps

-----------------------------------------------------------------------------
(* What the commit of an order does to the tables.                         *)
LEMMA OrderPosts ==
  ASSUME OInv, NEW s \in Sessions, CommitOrder(s), NEW o, o = req[s].order
  PROVE  LET touched == PlannedRows(s)
         IN /\ touched \in SUBSET Rows
            /\ rows' = rows \cup touched
            /\ \A r \in touched : stock[r] + Movement(o, Planned(s, r[1])) \in 0..MaxInt
            /\ stock' = [r \in Rows |-> IF r \in touched
                                       THEN stock[r] + Movement(o, Planned(s, r[1]))
                                       ELSE stock[r]]
            /\ NeedsRow(s) => touched \subseteq rows
            /\ status' = [status EXCEPT ![o] = wstatus[s]]
            /\ done' = [done EXCEPT ![o] = wdone[s]]
            /\ site' = site /\ lines' = lines
<1> DEFINE touched == PlannedRows(s)
<1>1. /\ IInv /\ InHand(s) /\ todo[s] = {} /\ PublishStock(s) /\ PublishOrder(s, o)
  BY DEF CommitOrder, OInv, IInv, TodoInv, Holding
<1>2. touched \in SUBSET Rows
  BY DEF PlannedRows
<1>3. \A r \in Rows : rowLock[r] = s <=> r \in touched
  BY <1>1 DEF InHand
<1>4. \A r \in touched : /\ wmov[s][r] = Movement(o, Planned(s, r[1]))
                         /\ NeedsRow(s) => r \in rows
  BY <1>1, <1>2, <1>3 DEF InHand
<1>5. /\ rows' = rows \cup touched
      /\ \A r \in touched : stock[r] + wmov[s][r] \in 0..MaxInt
      /\ stock' = [r \in Rows |-> IF r \in touched THEN stock[r] + wmov[s][r]
                                 ELSE stock[r]]
  <2> HIDE DEF touched
  <2> QED
    BY <1>1, <1>2, <1>3, CommitPosts
<1>6. stock' = [r \in Rows |-> IF r \in touched
                             THEN stock[r] + Movement(o, Planned(s, r[1]))
                             ELSE stock[r]]
  <2> HIDE DEF touched
  <2> QED
    BY <1>4, <1>5
<1> QED
  BY <1>1, <1>2, <1>4, <1>5, <1>6 DEF PublishOrder

LEMMA AcceptCommits ==
  ASSUME OInv, NEW s \in Sessions, CommitOrder(s), NEW o \in Orders, o = req[s].order,
         req[s].op \in {"sale.confirm", "purchase.order"}
  PROVE  Ledger!Accept(o)
<1>1. Holding(s) /\ pc[s] = "commit" /\ InHand(s) /\ TypeOK /\ IInv
  BY DEF CommitOrder, OInv, IInv, Holding
<1>2. /\ status[o] = "DRAFT"
      /\ wstatus[s] = IF o \in Sales THEN "CONFIRMED" ELSE "ORDERED"
  BY <1>1 DEF InHand, Decided, Whole, Undo
<1>3. PlannedRows(s) = {}
  BY <1>1, RowsPlanned DEF Holding
<1>4. rows' = rows /\ stock' = stock
  <2>1. /\ rows' = rows \cup {}
        /\ stock' = [r \in Rows |-> IF r \in {} THEN stock[r] + Movement(o, Planned(s, r[1]))
                                   ELSE stock[r]]
    BY <1>3, OrderPosts
  <2>2. stock' = [r \in Rows |-> stock[r]]
    BY <2>1
  <2> QED
    BY <1>1, <2>1, <2>2 DEF TypeOK, TablesOK
<1>5. wdone[s] = done[o]
  BY <1>1, WholeDelivered DEF Parted
<1>6. done' = done
  BY <1>1, <1>5, OrderPosts DEF TypeOK, TablesOK
<1> QED
  BY <1>2, <1>4, <1>6, OrderPosts DEF Ledger!Accept, Ledger!Become

LEMMA CompleteCommits ==
  ASSUME OInv, NEW s \in Sessions, CommitOrder(s), NEW o \in Orders, o = req[s].order,
         req[s].op \in Whole
  PROVE  Ledger!Complete(o)
<1>1. Holding(s) /\ pc[s] = "commit" /\ InHand(s) /\ TypeOK /\ IInv
  BY DEF CommitOrder, OInv, IInv, Holding
<1>2. status[o] = "DRAFT" /\ wstatus[s] = "COMPLETED"
  BY <1>1 DEF InHand, Decided, Whole, Undo
<1>3. PlannedRows(s) = Ledger!Touched(o, lines[o])
  BY <1>1, RowsPlanned DEF Holding, ItemRows, Ledger!Touched, Ledger!Rows, Rows
<1>4. \A p : Planned(s, p) = lines[o][p]
  BY DEF Planned, Parted, Whole
<1>5. done' = done
  <2>1. wdone[s] = done[o]
    BY <1>1, WholeDelivered DEF Parted, Whole
  <2> QED
    BY <1>1, <2>1, OrderPosts DEF TypeOK, TablesOK
<1> DEFINE t == Ledger!Touched(o, lines[o])
<1> HIDE DEF t
<1>6. /\ rows' = rows \cup t
      /\ \A r \in t : stock[r] + Movement(o, lines[o][r[1]]) \in 0..MaxInt
      /\ stock' = [r \in Rows |-> IF r \in t THEN stock[r] + Movement(o, lines[o][r[1]])
                                 ELSE stock[r]]
      /\ o \in Sales => t \subseteq rows
  BY <1>3, <1>4, OrderPosts DEF NeedsRow, t
<1>7. CASE o \in Sales
  <2>1. Ledger!Post(t, LAMBDA r : -lines[o][r[1]])
    BY <1>6, <1>7 DEF Ledger!Post, Ledger!Rows, Rows, Movement
  <2> QED
    BY <1>2, <1>5, <1>6, <1>7, <2>1, OrderPosts DEF Ledger!Complete, Ledger!Become, t
<1>8. CASE o \notin Sales
  <2>1. Ledger!Post(t, LAMBDA r : lines[o][r[1]])
    BY <1>6, <1>8 DEF Ledger!Post, Ledger!Rows, Rows, Movement
  <2> QED
    BY <1>2, <1>5, <1>8, <2>1, OrderPosts DEF Ledger!Complete, Ledger!Become, t
<1> QED
  BY <1>7, <1>8

LEMMA CancelCommits ==
  ASSUME OInv, NEW s \in Sessions, CommitOrder(s), NEW o \in Orders, o = req[s].order,
         req[s].op \in Undo
  PROVE  Ledger!Cancel(o)
<1>1. Holding(s) /\ pc[s] = "commit" /\ InHand(s) /\ TypeOK /\ IInv
  BY DEF CommitOrder, OInv, IInv, Holding
<1>2. status[o] \in {"DRAFT", "COMPLETED"} /\ wstatus[s] = "CANCELLED"
  BY <1>1 DEF InHand, Decided, Whole, Undo
<1>3. done' = done
  <2>1. wdone[s] = done[o]
    BY <1>1, WholeDelivered DEF Parted, Undo
  <2> QED
    BY <1>1, <2>1, OrderPosts DEF TypeOK, TablesOK
<1>4. CASE status[o] = "DRAFT"
  <2>1. PlannedRows(s) = {}
    BY <1>1, <1>4, RowsPlanned DEF Holding
  <2>2. /\ rows' = rows \cup {}
        /\ stock' = [r \in Rows |-> IF r \in {} THEN stock[r] + Movement(o, Planned(s, r[1]))
                                   ELSE stock[r]]
    BY <2>1, OrderPosts
  <2>3. stock' = [r \in Rows |-> stock[r]]
    BY <2>2
  <2>4. rows' = rows /\ stock' = stock
    BY <1>1, <2>2, <2>3 DEF TypeOK, TablesOK
  <2> QED
    BY <1>2, <1>3, <1>4, <2>4, OrderPosts DEF Ledger!Cancel, Ledger!Become
<1>5. CASE status[o] = "COMPLETED"
  <2>1. PlannedRows(s) = Ledger!Touched(o, lines[o])
    BY <1>1, <1>5, RowsPlanned DEF Holding, ItemRows, Ledger!Touched, Ledger!Rows, Rows
  <2>2. \A p : Planned(s, p) = -lines[o][p]
    BY <1>5 DEF Planned, Parted, Whole, Undo
  <2>3. NeedsRow(s)
    BY <1>1, OrderRequest DEF NeedsRow, Holding, Undo, SaleOps
  <2> DEFINE t == Ledger!Touched(o, lines[o])
  <2> HIDE DEF t
  <2>4. /\ rows' = rows \cup t /\ t \subseteq rows /\ t \subseteq Rows
        /\ \A r \in t : stock[r] + Movement(o, -lines[o][r[1]]) \in 0..MaxInt
        /\ stock' = [r \in Rows |-> IF r \in t THEN stock[r] + Movement(o, -lines[o][r[1]])
                                   ELSE stock[r]]
    BY <2>1, <2>2, <2>3, OrderPosts DEF t
  <2>5. CASE o \in Sales
    <3>1. \A r \in t : Movement(o, -lines[o][r[1]]) = lines[o][r[1]]
      <4>1. \A r \in t : lines[o][r[1]] \in Int
        <5>1. \A p \in Products : lines[o][p] \in 0..MaxInt
          BY <1>1 DEF TypeOK, TablesOK
        <5>2. \A r \in t : r[1] \in Products
          BY <2>4 DEF Rows
        <5> QED
          BY <5>1, <5>2
      <4> QED
        BY <2>5, <4>1 DEF Movement
    <3>2. Ledger!Post(t, LAMBDA r : lines[o][r[1]])
      BY <2>4, <3>1 DEF Ledger!Post, Ledger!Rows, Rows
    <3> QED
      BY <1>2, <1>3, <1>5, <2>4, <2>5, <3>2, OrderPosts DEF Ledger!Cancel, Ledger!Become, t
  <2>6. CASE o \notin Sales
    <3>1. Ledger!Post(t, LAMBDA r : -lines[o][r[1]])
      BY <2>4, <2>6 DEF Ledger!Post, Ledger!Rows, Rows, Movement
    <3> QED
      BY <1>2, <1>3, <1>5, <2>4, <2>6, <3>1, OrderPosts DEF Ledger!Cancel, Ledger!Become, t
  <2> QED
    BY <2>5, <2>6
<1> QED
  BY <1>2, <1>4, <1>5

LEMMA DeliverCommits ==
  ASSUME OInv, NEW s \in Sessions, CommitOrder(s), NEW o \in Orders, o = req[s].order,
         req[s].op \in Parted, NEW q, q = req[s].items
  PROVE  q \in [Products -> 0..MaxInt] /\ Ledger!Deliver(o, q)
<1>1. /\ Holding(s) /\ pc[s] = "commit" /\ InHand(s) /\ IInv /\ TypeOK
      /\ pc[s] # "idle" /\ req[s].op \in OrderOps /\ todo[s] = {}
  BY DEF CommitOrder, OInv, IInv, Holding, TodoInv
<1>2. /\ q \in [Products -> -MaxInt..MaxInt] /\ lines[o] \in [Products -> 0..MaxInt]
      /\ done[o] \in [Products -> Int] /\ wdone[s] \in [Products -> Int]
  BY <1>1, OrderRequest DEF TypeOK, TransactionsOK
<1>3. \A p \in Products : q[p] # 0 => q[p] > 0 /\ q[p] <= lines[o][p] - done[o][p]
  BY <1>1 DEF InHand, Decided, FulfillmentValid, ReceiptValid, Parted, Whole, Undo
<1>4. ASSUME NEW p \in Products
      PROVE  q[p] \in 0..MaxInt /\ q[p] <= lines[o][p] - done[o][p]
  <2>1. q[p] \in -MaxInt..MaxInt /\ lines[o][p] \in Int /\ done[o][p] \in Int
    BY <1>2, IdsAssumption
  <2>2. done[o][p] <= lines[o][p]
    BY <2>1 DEF OInv, ProgressMatchesStatus
  <2> QED
    BY <1>3, <2>1, <2>2, IdsAssumption
<1>5. q \in [Products -> 0..MaxInt]
  BY <1>2, <1>4
<1>6. \E p \in Products : q[p] > 0
  <2>1. \E p \in Products : q[p] # 0
    BY <1>1 DEF OInv, ListInv
  <2> QED
    BY <1>3, <2>1
<1>7. PlannedRows(s) = Ledger!Touched(o, q)
  <2>1. PlannedRows(s) = InputRows(o, q)
    BY <1>1, <1>3, RowsPlanned
  <2> QED
    BY <2>1 DEF InputRows, Ledger!Touched, Ledger!Rows, Rows
<1>8. \A p : Planned(s, p) = q[p]
  BY DEF Planned
<1>9. done' = [done EXCEPT ![o] = [p \in Products |-> done[o][p] + q[p]]]
  <2>1. \A p \in Products : wdone[s][p] = done[o][p] + q[p]
    BY <1>1 DEF InHand, Grown
  <2>2. wdone[s] = [p \in Products |-> done[o][p] + q[p]]
    BY <1>2, <2>1
  <2> QED
    BY <2>2, OrderPosts
<1>10. done'[o] = wdone[s]
  BY <1>1, OrderPosts DEF TypeOK, TablesOK
<1>11. /\ wdone[s] = lines[o] => wstatus[s] \in {"FULFILLED", "RECEIVED"}
       /\ wdone[s] # lines[o] =>
            wstatus[s] \in {"PARTIALLY_FULFILLED", "PARTIALLY_RECEIVED"}
  BY <1>1, PartDelivered
<1> DEFINE t == Ledger!Touched(o, q)
<1> HIDE DEF t
<1>12. /\ rows' = rows \cup t /\ t \subseteq Rows
       /\ \A r \in t : stock[r] + Movement(o, q[r[1]]) \in 0..MaxInt
       /\ stock' = [r \in Rows |-> IF r \in t THEN stock[r] + Movement(o, q[r[1]])
                                  ELSE stock[r]]
       /\ o \in Sales => t \subseteq rows
       /\ status' = [status EXCEPT ![o] = wstatus[s]]
       /\ site' = site /\ lines' = lines
  BY <1>7, <1>8, OrderPosts DEF NeedsRow, t
<1>13. CASE o \in Sales
  <2>1. req[s].op = "sale.fulfill"
    BY <1>1, <1>13, OrderRequest DEF Parted, PurchaseOps
  <2>2. /\ status[o] \in {"CONFIRMED", "PARTIALLY_FULFILLED"}
        /\ wstatus[s] \in {"FULFILLED", "PARTIALLY_FULFILLED"}
    BY <1>1, <2>1 DEF InHand, Decided, Whole, Undo, FulfilledStatus
  <2>3. wstatus[s] = IF done'[o] = lines[o] THEN "FULFILLED" ELSE "PARTIALLY_FULFILLED"
    BY <1>10, <1>11, <2>2
  <2>4. Ledger!Post(t, LAMBDA r : -q[r[1]])
    BY <1>12, <1>13 DEF Ledger!Post, Ledger!Rows, Rows, Movement
  <2> QED
    BY <1>4, <1>5, <1>6, <1>9, <1>12, <1>13, <2>2, <2>3, <2>4
    DEF Ledger!Deliver, Ledger!Become, t
<1>14. CASE o \notin Sales
  <2>1. req[s].op = "purchase.receive"
    BY <1>1, <1>14, OrderRequest DEF Parted, SaleOps
  <2>2. /\ status[o] \in {"ORDERED", "PARTIALLY_RECEIVED"}
        /\ wstatus[s] \in {"RECEIVED", "PARTIALLY_RECEIVED"}
    BY <1>1, <2>1 DEF InHand, Decided, Whole, Undo, ReceivedStatus
  <2>3. wstatus[s] = IF done'[o] = lines[o] THEN "RECEIVED" ELSE "PARTIALLY_RECEIVED"
    BY <1>10, <1>11, <2>2
  <2>4. Ledger!Post(t, LAMBDA r : q[r[1]])
    BY <1>12, <1>14 DEF Ledger!Post, Ledger!Rows, Rows, Movement
  <2> QED
    BY <1>4, <1>5, <1>6, <1>9, <1>12, <1>14, <2>2, <2>3, <2>4
    DEF Ledger!Deliver, Ledger!Become, t
<1> QED
  BY <1>5, <1>13, <1>14

LEMMA CreateCommits ==
  ASSUME OInv, NEW s \in Sessions, Creates(s)
  PROVE  \E o \in Orders : Ledger!Create(o)
<1>1. PICK o \in Orders : CommitCreate(s, o)
  BY DEF Creates
<1>2. TypeOK /\ pc[s] # "idle" /\ req[s].op \in CreateOps /\ req[s].op # "none"
  BY <1>1 DEF CommitCreate, OInv, IInv, CreateOps
<1>3. /\ req[s].cart \in Ledger!Carts
      /\ \E p \in Products : req[s].cart.lines[p] > 0
  BY <1>2, RequestTypes DEF OInv, ListInv, Ledger!Carts, Carts
<1>4. Ledger!Create(o)
  BY <1>1, <1>3 DEF Ledger!Create, CommitCreate, Ledger!Absent, Absent
<1> QED
  BY <1>4

LEMMA OrderCommits ==
  ASSUME OInv, NEW s \in Sessions, CommitOrder(s)
  PROVE  Ledger!Next
<1>1. PICK o \in Orders : o = req[s].order
  BY OrderRequest DEF OInv, CommitOrder
<1>2. PICK q : q = req[s].items
  OBVIOUS
<1>3. \/ req[s].op \in {"sale.confirm", "purchase.order"} \cup Whole \cup Undo
      \/ req[s].op \in Parted
  BY DEF CommitOrder, OrderOps, SaleOps, PurchaseOps, Parted, Whole, Undo
<1>4. Orders = Ledger!Orders
  BY DEF Orders, Ledger!Orders
<1>5. \/ Ledger!Accept(o) \/ Ledger!Complete(o) \/ Ledger!Cancel(o)
      \/ q \in [Products -> 0..MaxInt] /\ Ledger!Deliver(o, q)
  BY <1>1, <1>2, <1>3, AcceptCommits, CompleteCommits, CancelCommits, DeliverCommits
<1> QED
  BY <1>4, <1>5 DEF Ledger!Next

-----------------------------------------------------------------------------
(* Only a commit shows.                                                    *)
LEMMA StepRefines == LInv /\ [Next]_vars => [Ledger!Next]_Ledger!ledgerVars
<1> SUFFICES ASSUME LInv, [Next]_vars PROVE [Ledger!Next]_Ledger!ledgerVars
  OBVIOUS
<1>1. ASSUME UNCHANGED tables PROVE UNCHANGED Ledger!ledgerVars
  BY <1>1 DEF tables, Ledger!ledgerVars
<1>2. ASSUME NEW s \in Sessions, Arrive(s) \/ Progress(s) \/ Abort(s)
      PROVE  [Ledger!Next]_Ledger!ledgerVars
  <2>1. Shape(s)
    BY <1>2, StepShapes DEF LInv, OInv
  <2>2. CASE CommitOrder(s)
    BY <2>2, OrderCommits DEF LInv
  <2>3. CASE CommitInventory(s)
    BY <2>3, InventoryCommits
  <2>4. CASE Creates(s)
    <3>1. \E o \in Ledger!Orders : Ledger!Create(o)
      BY <2>4, CreateCommits DEF LInv, Orders, Ledger!Orders
    <3> QED
      BY <3>1 DEF Ledger!Next
  <2>5. CASE \/ Starts(s) \/ Rollback(s) \/ Holds(s) \/ Leaks(s) \/ Writes(s) \/ Checks(s)
             \/ BeginTransfer(s) \/ LocksPair(s) \/ Moves(s)
    <3>1. UNCHANGED tables
      BY <2>5
      DEF Starts, Start, Rollback, Holds, HoldOrder, Leaks, Leak, Writes, WriteRow, Checks,
          BeginTransfer, LocksPair, Moves
    <3> QED
      BY <1>1, <3>1
  <2> QED
    BY <2>1, <2>2, <2>3, <2>4, <2>5 DEF Shape
<1>3. ASSUME NEW p \in Products, SetProductActive(p) PROVE UNCHANGED tables
  BY <1>3 DEF SetProductActive
<1>4. ASSUME UNCHANGED vars PROVE UNCHANGED tables
  BY <1>4 DEF vars
<1> QED
  BY <1>1, <1>2, <1>3, <1>4 DEF Next

-----------------------------------------------------------------------------
(* Every operation of the sales, purchasing and inventory services appears *)
(* to happen at once, when it commits: whatever the interleaving, the      *)
(* committed tables behave as StockLedger promises.                        *)
THEOREM Implements == Spec => Refinement
<1>1. Init => LInv /\ Ledger!Init
  BY InitLedger
<1>2. LInv /\ [Next]_vars => LInv'
  BY NextKeepsLedger
<1>3. LInv /\ [Next]_vars => [Ledger!Next]_Ledger!ledgerVars
  BY StepRefines
<1> QED
  BY <1>1, <1>2, <1>3, PTL DEF Spec, Refinement, Ledger!Spec
=============================================================================
