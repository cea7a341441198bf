------------------------- MODULE StockSystemProofs -------------------------
(***************************************************************************)
(* Theorems about StockSystem, for any sessions, orders, products,         *)
(* branches, requests and opening stock.  IInv is the inductive invariant: *)
(* what the types leave open about requests in progress, how buffers and   *)
(* row locks relate to the committed stock, and what is locked when.       *)
(***************************************************************************)
EXTENDS StockSystem, FiniteSetTheorems, TLAPS

(* A session works on the request its program counter says, and that       *)
(* request has passed the checks made before its transaction began.        *)
RequestInv ==
  \A s \in Sessions :
    /\ pc[s] # "idle" => req[s] \in Requests
    /\ pc[s] \in {"lock", "items", "checked"} => req[s].op \in OrderOps
    /\ pc[s] = "insert" => req[s].op = "inventory.create" /\ req[s].qty >= 0
    /\ pc[s] = "adjust" => req[s].op = "inventory.adjust"
    /\ pc[s] \in {"transfer", "pair", "move"} =>
         /\ req[s].op = "inventory.transfer"
         /\ req[s].from # req[s].to /\ req[s].qty > 0
    /\ pc[s] \in {"items", "checked"} /\ req[s].op = "sale.fulfill" =>
         \A r \in todo[s] : req[s].items[r[1]] > 0

Source(s)      == <<req[s].product, req[s].from>>
Destination(s) == <<req[s].product, req[s].to>>

(* Movements are buffered for locked rows only, a locked row's buffered    *)
(* quantity is the committed one plus the buffered movement, and a         *)
(* transfer that has not moved anything yet holds what it has locked.      *)
BufferInv ==
  /\ \A r \in Rows : r \notin rows => stock[r] = 0
  /\ \A s \in Sessions, r \in Rows : rowLock[r] # s => wmov[s][r] = 0
  /\ \A s \in Sessions, r \in Rows :
       pc[s] \in {"idle", "transfer", "pair", "move"} => wmov[s][r] = 0
  /\ \A s \in Sessions :
       pc[s] \in {"pair", "move"} =>
         \A r \in {Source(s), Destination(s)} : rowLock[r] = s \/ r \in todo[s]

(* Rows are left to lock only while a transaction works through them.      *)
TodoInv ==
  \A s \in Sessions : pc[s] \notin {"items", "checked", "pair"} => todo[s] = {}

IInv ==
  /\ TypeOK
  /\ RequestInv
  /\ BufferInv
  /\ LedgerBalanced
  /\ NoLostUpdate
  /\ TodoInv
  /\ LocksGoUp

-----------------------------------------------------------------------------
(* The shapes a step of a session can have.                                *)

CheckedRequest(r, at) ==
  /\ at = "lock" => r.op \in OrderOps
  /\ at = "insert" => r.op = "inventory.create" /\ r.qty >= 0
  /\ at = "adjust" => r.op = "inventory.adjust"
  /\ at = "transfer" =>
       r.op = "inventory.transfer" /\ r.from # r.to /\ r.qty > 0
  /\ at = "commit" => r.op \in CreateOps
  /\ r.op \in {"sale.fulfill", "purchase.receive"} => \E p \in Products : r.items[p] # 0
  /\ r.op \in CreateOps => \E p \in Products : r.cart.lines[p] > 0

Starts(s) ==
  \E r \in Requests, at \in {"lock", "insert", "adjust", "transfer", "commit"} :
    CheckedRequest(r, at) /\ Start(s, r, at)

Holds(s) ==
  \E o \in Orders, need \in SUBSET Rows, st \in Status :
    /\ pc[s] = "lock" /\ OrderFree(o)
    /\ req[s].op = "sale.fulfill" => \A r \in need : req[s].items[r[1]] > 0
    /\ HoldOrder(s, o, need, st)

Leaks(s) == \E o \in Orders : pc[s] = "lock" /\ OrderFree(o) /\ Leak(s, o)

(* A row is written as its committed quantity plus the movement recorded.  *)
Writes(s) ==
  \E r \in Rows, q \in 0..MaxInt, d, n \in -MaxInt..MaxInt :
    /\ \/ pc[s] \in {"items", "checked"} /\ req[s].op \in OrderOps /\ NextRow(s, r)
       \/ /\ pc[s] \in {"insert", "adjust"} /\ r = req[s].row /\ d = req[s].qty
          /\ pc[s] = "adjust" => r \in rows
    /\ RowFree(r) /\ q = stock[r] + d
    /\ WriteRow(s, r, q, d, n)

Checks(s) ==
  /\ pc[s] = "items" /\ pc' = [pc EXCEPT ![s] = "checked"]
  /\ UNCHANGED <<tables, active, req, todo, buffer, locks>>

LocksPair(s) ==
  \E r \in todo[s] :
    /\ pc[s] = "pair" /\ NextRow(s, r) /\ RowFree(r)
    /\ r = Source(s) => r \in rows
    /\ rowLock' = [rowLock EXCEPT ![r] = s]
    /\ wrow' = [wrow EXCEPT ![s][r] = stock[r]]
    /\ todo' = [todo EXCEPT ![s] = @ \ {r}]
    /\ pc' = [pc EXCEPT ![s] = IF todo[s] = {r} THEN "move" ELSE "pair"]
    /\ UNCHANGED <<tables, active, req, wmov, wstatus, wdone, orderLock>>

(* Both quantities change by the movements recorded, and stay in range.    *)
Moves(s) ==
  LET q    == req[s].qty
      src  == Source(s)
      dest == Destination(s)
  IN /\ pc[s] = "move"
     /\ wrow[s][src] - q \in 0..MaxInt /\ wrow[s][dest] + q \in 0..MaxInt
     /\ wrow' = [wrow EXCEPT ![s][src] = @ - q, ![s][dest] = wrow[s][dest] + q]
     /\ wmov' = [wmov EXCEPT ![s][src] = -q, ![s][dest] = q]
     /\ pc' = [pc EXCEPT ![s] = "commit"]
     /\ UNCHANGED <<tables, active, req, todo, wstatus, wdone, locks>>

Creates(s) == \E o \in Orders : CommitCreate(s, o)

Shape(s) ==
  \/ Starts(s) \/ Rollback(s) \/ Holds(s) \/ Leaks(s) \/ Writes(s) \/ Checks(s)
  \/ BeginTransfer(s) \/ LocksPair(s) \/ Moves(s)
  \/ CommitOrder(s) \/ CommitInventory(s) \/ Creates(s)

-----------------------------------------------------------------------------
(* The initial tables and idle sessions satisfy the invariant.             *)
LEMMA InitInvariant == Init => IInv
<1> SUFFICES ASSUME Init PROVE IInv
  OBVIOUS
<1> USE IdsAssumption, TablesAssumption
<1>1. TypeOK
  <2>1. /\ rows \subseteq Rows /\ stock \in [Rows -> 0..MaxInt]
        /\ ledger \in [Rows -> Int]
    BY DEF Init, Rows
  <2>2. /\ status \in [Orders -> Status] /\ site \in [Orders -> Branches]
        /\ lines \in [Orders -> [Products -> 0..MaxInt]]
    BY DEF Init, Status, SaleStatus, Absent, Carts
  <2>3. /\ done \in [Orders -> [Products -> Int]]
        /\ posted \in [Orders -> [Products -> Int]] /\ active \subseteq Products
    BY DEF Init
  <2>4. /\ pc \in [Sessions -> PCs]
        /\ req \in [Sessions -> Requests \cup {NoRequest}]
        /\ todo \in [Sessions -> SUBSET Rows]
    BY DEF Init, PCs
  <2>5. /\ wrow \in [Sessions -> [Rows -> 0..MaxInt]]
        /\ wmov \in [Sessions -> [Rows -> Int]]
        /\ wstatus \in [Sessions -> Status]
        /\ wdone \in [Sessions -> [Products -> Int]]
    BY DEF Init, Status, Absent
  <2>6. /\ orderLock \in [Orders -> Sessions \cup {NoOne}]
        /\ rowLock \in [Rows -> Sessions \cup {NoOne}]
    BY DEF Init
  <2> QED
    BY <2>1, <2>2, <2>3, <2>4, <2>5, <2>6 DEF TypeOK, TablesOK, TransactionsOK
<1>2. RequestInv /\ BufferInv /\ TodoInv
  BY DEF Init, RequestInv, BufferInv, TodoInv
<1>3. LedgerBalanced /\ NoLostUpdate /\ LocksGoUp
  BY DEF Init, LedgerBalanced, NoLostUpdate, LocksGoUp
<1> QED
  BY <1>1, <1>2, <1>3 DEF IInv

-----------------------------------------------------------------------------
(* A sum that the CHECK lets through did not overflow.                     *)
LEMMA NoOverflow ==
  ASSUME NEW n \in Int, -MaxInt <= n, n <= 2 * MaxInt, QuantityAllowed(Wrap(n))
  PROVE  Wrap(n) = n /\ n \in 0..MaxInt
BY IdsAssumption DEF Wrap, QuantityAllowed

(* The operations of the requests, and the types of their parts.           *)
LEMMA RequestTypes ==
  ASSUME TypeOK, NEW s \in Sessions, req[s].op # "none"
  PROVE  /\ req[s] \in Requests
         /\ req[s].op \in CreateOps => req[s].cart \in Carts
         /\ req[s].op \in OrderOps => req[s].order \in Orders
         /\ req[s].op \in {"sale.fulfill", "purchase.receive"} =>
              req[s].items \in [Products -> -MaxInt..MaxInt]
         /\ req[s].op \in {"inventory.create", "inventory.adjust"} =>
              req[s].row \in Rows /\ req[s].qty \in -MaxInt..MaxInt
         /\ req[s].op = "inventory.transfer" =>
              /\ Source(s) \in Rows /\ Destination(s) \in Rows
              /\ req[s].qty \in -MaxInt..MaxInt
<1>1. req[s] \in Requests
  BY DEF TypeOK, TransactionsOK, NoRequest
<1> QED
  BY <1>1, RequestsAssumption DEF OrderOps, Orders, Source, Destination, Rows

(* What the transaction of an order needs to know of the row it works on.  *)
LEMMA RowTypes ==
  ASSUME TypeOK, NEW s \in Sessions, NEW r \in todo[s], req[s].op \in OrderOps
  PROVE  /\ r \in Rows /\ r[1] \in Products /\ stock[r] \in 0..MaxInt
         /\ lines[req[s].order][r[1]] \in 0..MaxInt
         /\ req[s].op \in {"sale.fulfill", "purchase.receive"} =>
              req[s].items[r[1]] \in -MaxInt..MaxInt
<1>1. r \in Rows /\ r[1] \in Products
  BY DEF TypeOK, TransactionsOK, TablesOK, Rows
<1>2. req[s].op # "none"
  BY DEF OrderOps, SaleOps, PurchaseOps
<1>3. /\ req[s].order \in Orders
      /\ req[s].op \in {"sale.fulfill", "purchase.receive"} =>
           req[s].items \in [Products -> -MaxInt..MaxInt]
  BY <1>2, RequestTypes
<1> QED
  BY <1>1, <1>3 DEF TypeOK, TablesOK

LEMMA StartShapes ==
  ASSUME NEW s \in Sessions, Arrive(s)
  PROVE  Starts(s)
<1>1. CASE RequestSaleCreate(s)
  BY <1>1 DEF RequestSaleCreate, Starts, CheckedRequest, CreateOps
<1>2. CASE RequestSale(s)
  BY <1>2 DEF RequestSale, Starts, CheckedRequest, CreateOps, OrderOps, SaleOps,
     PurchaseOps
<1>3. CASE RequestPurchaseCreate(s)
  BY <1>3 DEF RequestPurchaseCreate, Starts, CheckedRequest, CreateOps
<1>4. CASE RequestPurchase(s)
  BY <1>4 DEF RequestPurchase, Starts, CheckedRequest, CreateOps, OrderOps, SaleOps,
     PurchaseOps
<1>5. CASE RequestInventoryCreate(s)
  BY <1>5 DEF RequestInventoryCreate, Starts, CheckedRequest, CreateOps
<1>6. CASE RequestAdjust(s)
  BY <1>6 DEF RequestAdjust, Starts, CheckedRequest, CreateOps
<1>7. CASE RequestTransfer(s)
  BY <1>7 DEF RequestTransfer, Starts, CheckedRequest, CreateOps
<1> QED
  BY <1>1, <1>2, <1>3, <1>4, <1>5, <1>6, <1>7
  DEF Arrive, SaleRequest, PurchaseRequest, InventoryRequest

LEMMA SaleShapes ==
  ASSUME TypeOK, RequestInv, BufferInv, NEW s \in Sessions, SaleStep(s)
  PROVE  Shape(s)
<1> USE DEF Shape
<1>1. CASE CreateSale(s)
  BY <1>1 DEF CreateSale, Creates, Orders
<1>2. CASE SaleNotFound(s)
  BY <1>2 DEF SaleNotFound
<1>3. CASE ConfirmSale(s)
  <2>1. PICK o \in Sales :
          /\ SaleLocked(s, "sale.confirm", o)
          /\ HoldOrder(s, o, {}, "CONFIRMED") \/ Leak(s, o)
    BY <1>3 DEF ConfirmSale
  <2> QED
    BY <2>1 DEF SaleLocked, Holds, Leaks, Orders, Status, SaleStatus
<1>4. CASE FulfillSale(s)
  <2>1. PICK o \in Sales :
          /\ SaleLocked(s, "sale.fulfill", o)
          /\ \/ HoldOrder(s, o, InputRows(o, req[s].items), FulfilledStatus(o, req[s].items))
             \/ Rollback(s)
    BY <1>4 DEF FulfillSale
  <2>2. /\ InputRows(o, req[s].items) \in SUBSET Rows
        /\ \A r \in InputRows(o, req[s].items) : req[s].items[r[1]] > 0
    BY DEF InputRows
  <2>3. FulfilledStatus(o, req[s].items) \in Status
    BY DEF FulfilledStatus, Status, SaleStatus
  <2> QED
    BY <2>1, <2>2, <2>3 DEF SaleLocked, Holds, Orders
<1>5. CASE CompleteSale(s)
  <2>1. PICK o \in Sales :
          /\ SaleLocked(s, "sale.complete", o)
          /\ HoldOrder(s, o, ItemRows(o), "COMPLETED") \/ Rollback(s)
    BY <1>5 DEF CompleteSale
  <2>2. ItemRows(o) \in SUBSET Rows
    BY DEF ItemRows
  <2> QED
    BY <2>1, <2>2 DEF SaleLocked, Holds, Orders, Status, SaleStatus
<1>6. CASE CancelSale(s)
  <2>1. PICK o \in Sales :
          /\ SaleLocked(s, "sale.cancel", o)
          /\ \/ HoldOrder(s, o, {}, "CANCELLED")
             \/ HoldOrder(s, o, ItemRows(o), "CANCELLED")
             \/ Rollback(s)
    BY <1>6 DEF CancelSale
  <2>2. ItemRows(o) \in SUBSET Rows
    BY DEF ItemRows
  <2> QED
    BY <2>1, <2>2 DEF SaleLocked, Holds, Orders, Status, SaleStatus
<1>7. CASE SaleRowMissing(s)
  BY <1>7 DEF SaleRowMissing
<1>8. CASE FulfillItem(s)
  <2>1. PICK r \in todo[s] :
          /\ NextSaleRow(s, "sale.fulfill", r) /\ RowFree(r)
          /\ LET q == req[s].items[r[1]]
             IN \/ Rollback(s)
                \/ ~(stock[r] < q) /\ WriteRow(s, r, stock[r] - q, -q, q)
    BY <1>8 DEF FulfillItem
  <2> DEFINE q == req[s].items[r[1]]
  <2>2. r \in Rows /\ stock[r] \in 0..MaxInt
    BY DEF TypeOK, TablesOK, TransactionsOK
  <2>3. q \in 1..MaxInt
    BY <2>1, <2>2, RowTypes DEF NextSaleRow, RequestInv, OrderOps, SaleOps
  <2>4. CASE ~(stock[r] < q) /\ WriteRow(s, r, stock[r] - q, -q, q)
    <3>1. stock[r] - q \in 0..MaxInt /\ -q \in -MaxInt..MaxInt /\ q \in -MaxInt..MaxInt
      BY <2>2, <2>3, <2>4, IdsAssumption
    <3>2. stock[r] - q = stock[r] + (-q)
      BY <2>2, <2>3
    <3> QED
      BY <2>1, <2>2, <2>4, <3>1, <3>2 DEF NextSaleRow, Writes, OrderOps, SaleOps
  <2> QED
    BY <2>1, <2>4
<1>9. CASE CompleteSaleItem(s)
  <2>1. PICK r \in todo[s] :
          /\ NextSaleRow(s, "sale.complete", r) /\ RowFree(r)
          /\ LET q == lines[req[s].order][r[1]]
             IN \/ Rollback(s)
                \/ ~(stock[r] < q) /\ WriteRow(s, r, stock[r] - q, -q, 0)
    BY <1>9 DEF CompleteSaleItem
  <2> DEFINE q == lines[req[s].order][r[1]]
  <2>2. r \in Rows /\ stock[r] \in 0..MaxInt
    BY DEF TypeOK, TablesOK, TransactionsOK
  <2>3. q \in 0..MaxInt
    BY <2>1, RowTypes DEF NextSaleRow, OrderOps, SaleOps
  <2>4. CASE ~(stock[r] < q) /\ WriteRow(s, r, stock[r] - q, -q, 0)
    <3>1. stock[r] - q \in 0..MaxInt /\ -q \in -MaxInt..MaxInt /\ 0 \in -MaxInt..MaxInt
      BY <2>2, <2>3, <2>4, IdsAssumption
    <3>2. stock[r] - q = stock[r] + (-q)
      BY <2>2, <2>3
    <3> QED
      BY <2>1, <2>2, <2>4, <3>1, <3>2 DEF NextSaleRow, Writes, OrderOps, SaleOps
  <2> QED
    BY <2>1, <2>4
<1>10. CASE CancelSaleItem(s)
  <2>1. PICK r \in todo[s] :
          /\ NextSaleRow(s, "sale.cancel", r) /\ RowFree(r)
          /\ LET q == lines[req[s].order][r[1]]
                 new == Wrap(stock[r] + q)
             IN \/ Rollback(s)
                \/ QuantityAllowed(new) /\ WriteRow(s, r, new, q, 0)
    BY <1>10 DEF CancelSaleItem
  <2> DEFINE q == lines[req[s].order][r[1]]
             new == Wrap(stock[r] + q)
  <2>2. r \in Rows /\ stock[r] \in 0..MaxInt
    BY DEF TypeOK, TablesOK, TransactionsOK
  <2>3. q \in 0..MaxInt
    BY <2>1, RowTypes DEF NextSaleRow, OrderOps, SaleOps
  <2>4. CASE QuantityAllowed(new) /\ WriteRow(s, r, new, q, 0)
    <3>1. new = stock[r] + q /\ new \in 0..MaxInt
      BY <2>2, <2>3, <2>4, NoOverflow, IdsAssumption
    <3>2. q \in -MaxInt..MaxInt /\ 0 \in -MaxInt..MaxInt
      BY <2>3, IdsAssumption
    <3> QED
      BY <2>1, <2>2, <2>4, <3>1, <3>2 DEF NextSaleRow, Writes, OrderOps, SaleOps
  <2> QED
    BY <2>1, <2>4
<1> QED
  BY <1>1, <1>2, <1>3, <1>4, <1>5, <1>6, <1>7, <1>8, <1>9, <1>10 DEF SaleStep

(* A row that AddToRow writes grows by exactly the movement recorded.      *)
LEMMA AddShape ==
  ASSUME TypeOK, BufferInv, NEW s \in Sessions, NEW r \in Rows,
         NEW q \in -MaxInt..MaxInt, NEW n \in -MaxInt..MaxInt,
         pc[s] \in {"items", "checked"}, req[s].op \in OrderOps, NextRow(s, r),
         RowFree(r), AddToRow(s, r, q, n)
  PROVE  Writes(s) \/ Rollback(s)
<1> DEFINE new == Wrap(Quantity(r) + q)
<1>1. Quantity(r) = stock[r] /\ stock[r] \in 0..MaxInt
  BY DEF TypeOK, TablesOK, BufferInv, Quantity
<1>2. CASE QuantityAllowed(new) /\ WriteRow(s, r, new, q, n)
  <2>1. stock[r] + q \in Int /\ -MaxInt <= stock[r] + q /\ stock[r] + q <= 2 * MaxInt
    BY <1>1, IdsAssumption
  <2>2. new = stock[r] + q /\ new \in 0..MaxInt
    BY <1>1, <1>2, <2>1, NoOverflow
  <2> QED
    BY <1>2, <2>2 DEF Writes
<1> QED
  BY <1>2 DEF AddToRow

LEMMA PurchaseShapes ==
  ASSUME TypeOK, RequestInv, BufferInv, NEW s \in Sessions, PurchaseStep(s)
  PROVE  Shape(s)
<1> USE DEF Shape
<1>1. CASE CreatePurchase(s)
  BY <1>1 DEF CreatePurchase, Creates, Orders
<1>2. CASE PurchaseNotFound(s)
  BY <1>2 DEF PurchaseNotFound
<1>3. CASE OrderPurchase(s)
  <2>1. PICK o \in Purchases :
          /\ PurchaseLocked(s, "purchase.order", o)
          /\ HoldOrder(s, o, {}, "ORDERED") \/ Leak(s, o)
    BY <1>3 DEF OrderPurchase
  <2> QED
    BY <2>1 DEF PurchaseLocked, Holds, Leaks, Orders, Status, PurchaseStatus
<1>4. CASE ReceivePurchase(s)
  <2>1. PICK o \in Purchases :
          /\ PurchaseLocked(s, "purchase.receive", o)
          /\ \/ HoldOrder(s, o, InputRows(o, req[s].items), ReceivedStatus(o, req[s].items))
             \/ Rollback(s)
    BY <1>4 DEF ReceivePurchase
  <2>2. InputRows(o, req[s].items) \in SUBSET Rows
    BY DEF InputRows
  <2>3. ReceivedStatus(o, req[s].items) \in Status
    BY DEF ReceivedStatus, Status, PurchaseStatus
  <2> QED
    BY <2>1, <2>2, <2>3 DEF PurchaseLocked, Holds, Orders
<1>5. CASE CompletePurchase(s)
  <2>1. PICK o \in Purchases :
          /\ PurchaseLocked(s, "purchase.complete", o)
          /\ HoldOrder(s, o, ItemRows(o), "COMPLETED") \/ Rollback(s)
    BY <1>5 DEF CompletePurchase
  <2>2. ItemRows(o) \in SUBSET Rows
    BY DEF ItemRows
  <2> QED
    BY <2>1, <2>2 DEF PurchaseLocked, Holds, Orders, Status, PurchaseStatus
<1>6. CASE CancelPurchase(s)
  <2>1. PICK o \in Purchases :
          /\ PurchaseLocked(s, "purchase.cancel", o)
          /\ \/ HoldOrder(s, o, {}, "CANCELLED")
             \/ HoldOrder(s, o, ItemRows(o), "CANCELLED")
             \/ Rollback(s)
    BY <1>6 DEF CancelPurchase
  <2>2. ItemRows(o) \in SUBSET Rows
    BY DEF ItemRows
  <2> QED
    BY <2>1, <2>2 DEF PurchaseLocked, Holds, Orders, Status, PurchaseStatus
<1>7. CASE ReceiveItem(s)
  <2>1. PICK r \in todo[s] :
          /\ NextPurchaseRow(s, "items", "purchase.receive", r) /\ RowFree(r)
          /\ AddToRow(s, r, req[s].items[r[1]], req[s].items[r[1]])
    BY <1>7 DEF ReceiveItem
  <2>2. req[s].op \in OrderOps
    BY <2>1 DEF NextPurchaseRow, OrderOps, PurchaseOps
  <2>3. r \in Rows /\ req[s].items[r[1]] \in -MaxInt..MaxInt
    BY <2>1, <2>2, RowTypes DEF NextPurchaseRow
  <2> QED
    BY <2>1, <2>2, <2>3, AddShape DEF NextPurchaseRow
<1>8. CASE CheckProduct(s)
  BY <1>8 DEF CheckProduct, NextPurchaseRow, Checks
<1>9. CASE CompletePurchaseItem(s)
  <2>1. PICK r \in todo[s] :
          /\ NextPurchaseRow(s, "checked", "purchase.complete", r) /\ RowFree(r)
          /\ AddToRow(s, r, lines[req[s].order][r[1]], 0)
    BY <1>9 DEF CompletePurchaseItem
  <2>2. req[s].op \in OrderOps
    BY <2>1 DEF NextPurchaseRow, OrderOps, PurchaseOps
  <2>3. /\ r \in Rows /\ 0 \in -MaxInt..MaxInt
        /\ lines[req[s].order][r[1]] \in -MaxInt..MaxInt
    BY <2>1, <2>2, RowTypes, IdsAssumption
  <2> QED
    BY <2>1, <2>2, <2>3, AddShape DEF NextPurchaseRow
<1>10. CASE CancelPurchaseItem(s)
  <2>1. PICK r \in todo[s] :
          /\ NextPurchaseRow(s, "checked", "purchase.cancel", r)
          /\ LET q == lines[req[s].order][r[1]]
             IN \/ Rollback(s)
                \/ /\ RowFree(r) /\ ~(stock[r] - q < 0)
                   /\ WriteRow(s, r, stock[r] - q, -q, 0)
    BY <1>10 DEF CancelPurchaseItem
  <2> DEFINE q == lines[req[s].order][r[1]]
  <2>2. req[s].op \in OrderOps
    BY <2>1 DEF NextPurchaseRow, OrderOps, PurchaseOps
  <2>3. r \in Rows /\ stock[r] \in 0..MaxInt /\ q \in 0..MaxInt
    BY <2>2, RowTypes
  <2>4. CASE RowFree(r) /\ ~(stock[r] - q < 0) /\ WriteRow(s, r, stock[r] - q, -q, 0)
    <3>1. stock[r] - q \in 0..MaxInt /\ -q \in -MaxInt..MaxInt /\ 0 \in -MaxInt..MaxInt
      BY <2>3, <2>4, IdsAssumption
    <3>2. stock[r] - q = stock[r] + (-q)
      BY <2>3
    <3> QED
      BY <2>1, <2>2, <2>3, <2>4, <3>1, <3>2 DEF NextPurchaseRow, Writes
  <2> QED
    BY <2>1, <2>4
<1> QED
  BY <1>1, <1>2, <1>3, <1>4, <1>5, <1>6, <1>7, <1>8, <1>9, <1>10 DEF PurchaseStep

LEMMA InventoryShapes ==
  ASSUME TypeOK, RequestInv, BufferInv, TodoInv, NEW s \in Sessions, InventoryStep(s)
  PROVE  Shape(s)
<1> USE DEF Shape
<1>1. CASE CreateInventory(s)
  <2> DEFINE r == req[s].row
             q == req[s].qty
  <2>1. \/ Rollback(s)
        \/ r \notin rows /\ RowFree(r) /\ WriteRow(s, r, q, q, 0)
    BY <1>1 DEF CreateInventory
  <2>2. pc[s] = "insert" /\ req[s].op = "inventory.create" /\ q >= 0
    BY <1>1 DEF CreateInventory, RequestInv
  <2>3. r \in Rows /\ q \in -MaxInt..MaxInt /\ 0 \in -MaxInt..MaxInt
    BY <2>2, RequestTypes, IdsAssumption
  <2>4. CASE r \notin rows /\ RowFree(r) /\ WriteRow(s, r, q, q, 0)
    <3>1. stock[r] = 0
      BY <2>3, <2>4 DEF BufferInv
    <3>2. q \in 0..MaxInt /\ q = stock[r] + q
      BY <2>2, <2>3, <3>1
    <3>3. r = req[s].row /\ q = req[s].qty
      OBVIOUS
    <3> HIDE DEF r, q
    <3> QED
      BY <2>2, <2>3, <2>4, <3>2, <3>3 DEF Writes
  <2> QED
    BY <2>1, <2>4
<1>2. CASE AdjustStock(s)
  <2> DEFINE r == req[s].row
             q == req[s].qty
             new == Wrap(stock[r] + q)
  <2>1. \/ Rollback(s)
        \/ r \in rows /\ ~(new < 0) /\ RowFree(r) /\ WriteRow(s, r, new, q, 0)
    BY <1>2 DEF AdjustStock
  <2>2. pc[s] = "adjust" /\ req[s].op = "inventory.adjust"
    BY <1>2 DEF AdjustStock, RequestInv
  <2>3. r \in Rows /\ q \in -MaxInt..MaxInt /\ 0 \in -MaxInt..MaxInt
    BY <2>2, RequestTypes, IdsAssumption
  <2>4. CASE r \in rows /\ ~(new < 0) /\ RowFree(r) /\ WriteRow(s, r, new, q, 0)
    <3>1. stock[r] \in 0..MaxInt
      BY <2>3 DEF TypeOK, TablesOK
    <3>2. stock[r] + q \in Int /\ -MaxInt <= stock[r] + q /\ stock[r] + q <= 2 * MaxInt
      BY <2>3, <3>1, IdsAssumption
    <3>3. QuantityAllowed(new)
      BY <2>4, <3>2, IdsAssumption DEF QuantityAllowed, Wrap
    <3>4. new = stock[r] + q /\ new \in 0..MaxInt
      BY <3>2, <3>3, NoOverflow
    <3>5. r = req[s].row /\ q = req[s].qty
      OBVIOUS
    <3> HIDE DEF r, q, new
    <3> QED
      BY <2>2, <2>3, <2>4, <3>4, <3>5 DEF Writes
  <2> QED
    BY <2>1, <2>4
<1>3. CASE BeginTransfer(s)
  BY <1>3
<1>4. CASE LockTransferRow(s)
  <2>1. PICK r \in todo[s] :
          /\ pc[s] = "pair" /\ NextRow(s, r)
          /\ \/ Rollback(s)
             \/ /\ RowFree(r) /\ (r = Source(s) => r \in rows)
                /\ rowLock' = [rowLock EXCEPT ![r] = s]
                /\ wrow' = [wrow EXCEPT ![s][r] = IF r \in rows THEN stock[r] ELSE 0]
                /\ todo' = [todo EXCEPT ![s] = @ \ {r}]
                /\ pc' = [pc EXCEPT ![s] = IF todo[s] = {r} THEN "move" ELSE "pair"]
                /\ UNCHANGED <<tables, active, req, wmov, wstatus, wdone, orderLock>>
    BY <1>4 DEF LockTransferRow, Source
  <2>2. (IF r \in rows THEN stock[r] ELSE 0) = stock[r]
    BY DEF BufferInv, TypeOK, TransactionsOK
  <2> QED
    BY <2>1, <2>2 DEF LocksPair
<1>5. CASE MoveStock(s)
  <2> DEFINE q    == req[s].qty
             src  == Source(s)
             dest == Destination(s)
             new  == Wrap(wrow[s][dest] + q)
  <2>1. /\ pc[s] = "move"
        /\ \/ Rollback(s)
           \/ /\ ~(wrow[s][src] < q) /\ QuantityAllowed(new)
              /\ wrow' = [wrow EXCEPT ![s][src] = @ - q, ![s][dest] = new]
              /\ wmov' = [wmov EXCEPT ![s][src] = -q, ![s][dest] = q]
              /\ pc' = [pc EXCEPT ![s] = "commit"]
              /\ UNCHANGED <<tables, active, req, todo, wstatus, wdone, locks>>
    BY <1>5 DEF MoveStock, Source, Destination
  <2>2. req[s].op = "inventory.transfer" /\ q > 0
    BY <2>1 DEF RequestInv
  <2>3. src \in Rows /\ dest \in Rows /\ q \in 1..MaxInt
    BY <2>2, RequestTypes
  <2>4. wrow[s][src] \in 0..MaxInt /\ wrow[s][dest] \in 0..MaxInt
    BY <2>3 DEF TypeOK, TransactionsOK
  <2>5. CASE /\ ~(wrow[s][src] < q) /\ QuantityAllowed(new)
             /\ wrow' = [wrow EXCEPT ![s][src] = @ - q, ![s][dest] = new]
             /\ wmov' = [wmov EXCEPT ![s][src] = -q, ![s][dest] = q]
             /\ pc' = [pc EXCEPT ![s] = "commit"]
             /\ UNCHANGED <<tables, active, req, todo, wstatus, wdone, locks>>
    <3>1. new = wrow[s][dest] + q /\ wrow[s][dest] + q \in 0..MaxInt
      BY <2>3, <2>4, <2>5, NoOverflow, IdsAssumption
    <3>2. wrow[s][src] - q \in 0..MaxInt
      BY <2>3, <2>4, <2>5, IdsAssumption
    <3> QED
      BY <2>1, <2>5, <3>1, <3>2 DEF Moves
  <2> QED
    BY <2>1, <2>5
<1> QED
  BY <1>1, <1>2, <1>3, <1>4, <1>5 DEF InventoryStep

(* Every step of a session has one of the shapes.                          *)
LEMMA StepShapes ==
  ASSUME IInv, NEW s \in Sessions, Arrive(s) \/ Progress(s) \/ Abort(s)
  PROVE  Shape(s)
<1>1. TypeOK /\ RequestInv /\ BufferInv /\ TodoInv
  BY DEF IInv
<1>2. CASE Arrive(s)
  BY <1>2, StartShapes DEF Shape
<1>3. CASE SaleStep(s)
  BY <1>1, <1>3, SaleShapes
<1>4. CASE PurchaseStep(s)
  BY <1>1, <1>4, PurchaseShapes
<1>5. CASE InventoryStep(s)
  BY <1>1, <1>5, InventoryShapes
<1>6. CASE CommitOrder(s) \/ CommitInventory(s) \/ EndRequest(s) \/ Abort(s)
  BY <1>6 DEF Shape, EndRequest, Abort
<1> QED
  BY <1>2, <1>3, <1>4, <1>5, <1>6 DEF Progress

-----------------------------------------------------------------------------
(* Each shape preserves the invariant.                                     *)

(* A transaction that ends keeps it when what it leaves in the tables is   *)
(* balanced and no row that another transaction holds has changed.         *)
LEMMA EndKeeps ==
  ASSUME IInv, NEW s \in Sessions, End(s), TablesOK', LedgerBalanced',
         \A r \in Rows : r \notin rows' => stock'[r] = 0,
         \A r \in Rows : rowLock[r] # s => stock'[r] = stock[r]
  PROVE  IInv'
<1> USE IdsAssumption DEF IInv, TypeOK
<1>1. TransactionsOK'
  <2>1. /\ pc' \in [Sessions -> PCs]
        /\ req' \in [Sessions -> Requests \cup {NoRequest}]
        /\ todo' \in [Sessions -> SUBSET Rows]
    BY DEF End, TransactionsOK, PCs
  <2>2. /\ wrow' \in [Sessions -> [Rows -> 0..MaxInt]]
        /\ wmov' \in [Sessions -> [Rows -> Int]]
        /\ wstatus' \in [Sessions -> Status]
        /\ wdone' \in [Sessions -> [Products -> Int]]
    BY DEF End, TransactionsOK, Status, Absent
  <2>3. /\ orderLock' \in [Orders -> Sessions \cup {NoOne}]
        /\ rowLock' \in [Rows -> Sessions \cup {NoOne}]
    BY DEF End, TransactionsOK
  <2> QED
    BY <2>1, <2>2, <2>3 DEF TransactionsOK
<1>2. \A t \in Sessions :
        \/ t # s /\ pc'[t] = pc[t] /\ req'[t] = req[t] /\ todo'[t] = todo[t]
                 /\ wrow'[t] = wrow[t] /\ wmov'[t] = wmov[t]
        \/ t = s /\ pc'[t] = "idle" /\ todo'[t] = {} /\ wmov'[t] = [r \in Rows |-> 0]
  BY DEF End, TransactionsOK
<1>3. /\ \A r \in Rows, t \in Sessions : rowLock'[r] = t <=> rowLock[r] = t /\ t # s
      /\ \A t \in Sessions :
           Source(t)' = <<req'[t].product, req'[t].from>>
             /\ Destination(t)' = <<req'[t].product, req'[t].to>>
  BY DEF End, TransactionsOK, Source, Destination
<1>4. RequestInv'
  BY <1>2 DEF RequestInv
<1>5. BufferInv'
  <2>1. \A t \in Sessions, r \in Rows : rowLock'[r] # t => wmov'[t][r] = 0
    BY <1>2, <1>3 DEF BufferInv
  <2>2. \A t \in Sessions, r \in Rows :
          pc'[t] \in {"idle", "transfer", "pair", "move"} => wmov'[t][r] = 0
    BY <1>2 DEF BufferInv
  <2>3. ASSUME NEW t \in Sessions, pc'[t] \in {"pair", "move"}
        PROVE  \A r \in {Source(t), Destination(t)}' : rowLock'[r] = t \/ r \in todo'[t]
    <3>1. t # s /\ pc[t] \in {"pair", "move"} /\ req'[t] = req[t] /\ todo'[t] = todo[t]
      BY <1>2, <2>3
    <3>2. Source(t)' = Source(t) /\ Destination(t)' = Destination(t)
      BY <1>3, <3>1 DEF Source, Destination
    <3>3. req[t].op = "inventory.transfer"
      BY <3>1 DEF RequestInv
    <3>4. Source(t) \in Rows /\ Destination(t) \in Rows
      BY <3>3, RequestTypes
    <3> QED
      BY <1>3, <3>1, <3>2, <3>4 DEF BufferInv
  <2> QED
    BY <2>1, <2>2, <2>3 DEF BufferInv
<1>6. NoLostUpdate'
  BY <1>2, <1>3 DEF NoLostUpdate
<1>7. TodoInv'
  BY <1>2 DEF TodoInv
<1>8. LocksGoUp'
  BY <1>2, <1>3 DEF LocksGoUp
<1> QED
  BY <1>1, <1>4, <1>5, <1>6, <1>7, <1>8

LEMMA RollbackKeeps ==
  ASSUME IInv, NEW s \in Sessions, Rollback(s)
  PROVE  IInv'
<1>1. TablesOK' /\ LedgerBalanced'
  BY DEF IInv, Rollback, tables, TypeOK, TablesOK, LedgerBalanced
<1>2. /\ \A r \in Rows : r \notin rows' => stock'[r] = 0
      /\ \A r \in Rows : rowLock[r] # s => stock'[r] = stock[r]
  BY DEF IInv, Rollback, tables, BufferInv
<1> QED
  BY <1>1, <1>2, EndKeeps DEF Rollback

(* What a commit publishes keeps every row equal to its ledger.            *)
LEMMA PublishKeeps ==
  ASSUME IInv, NEW s \in Sessions, PublishStock(s)
  PROVE  /\ rows' \subseteq Rows /\ stock' \in [Rows -> 0..MaxInt]
         /\ ledger' \in [Rows -> Int] /\ LedgerBalanced'
         /\ \A r \in Rows : r \notin rows' => stock'[r] = 0
         /\ \A r \in Rows : rowLock[r] # s => stock'[r] = stock[r]
<1>1. /\ rows' \subseteq Rows /\ stock' \in [Rows -> 0..MaxInt]
      /\ ledger' \in [Rows -> Int]
  BY DEF IInv, TypeOK, TablesOK, TransactionsOK, PublishStock
<1>2. ASSUME NEW r \in Rows PROVE stock'[r] = ledger'[r]
  <2>1. stock[r] = ledger[r] /\ stock[r] \in Int /\ wmov[s][r] \in Int
    BY DEF IInv, TypeOK, TablesOK, TransactionsOK, LedgerBalanced
  <2>2. CASE rowLock[r] = s
    BY <2>1, <2>2 DEF IInv, NoLostUpdate, PublishStock
  <2>3. CASE rowLock[r] # s
    BY <2>1, <2>3 DEF IInv, BufferInv, PublishStock
  <2> QED
    BY <2>2, <2>3
<1>3. /\ \A r \in Rows : r \notin rows' => stock'[r] = 0
      /\ \A r \in Rows : rowLock[r] # s => stock'[r] = stock[r]
  BY DEF IInv, BufferInv, PublishStock
<1> QED
  BY <1>1, <1>2, <1>3 DEF LedgerBalanced

LEMMA CommitKeeps ==
  ASSUME IInv, NEW s \in Sessions,
         CommitOrder(s) \/ CommitInventory(s) \/ Creates(s)
  PROVE  IInv'
<1>1. CASE CommitOrder(s)
  <2> DEFINE o == req[s].order
  <2>1. /\ req[s].op \in OrderOps /\ PublishStock(s) /\ PublishOrder(s, o)
        /\ End(s) /\ active' = active
    BY <1>1 DEF CommitOrder
  <2>2. o \in Orders
    BY <2>1, RequestTypes DEF IInv, OrderOps, SaleOps, PurchaseOps
  <2>3. \A p \in Products : <<p, site[o]>> \in Rows
    BY <2>2 DEF IInv, TypeOK, TablesOK, Rows
  <2>4. /\ status' \in [Orders -> Status] /\ site' \in [Orders -> Branches]
        /\ lines' \in [Orders -> [Products -> 0..MaxInt]]
        /\ done' \in [Orders -> [Products -> Int]]
    BY <2>1, <2>2 DEF IInv, TypeOK, TablesOK, TransactionsOK, PublishOrder
  <2>5. posted' \in [Orders -> [Products -> Int]]
    BY <2>1, <2>2, <2>3 DEF IInv, TypeOK, TablesOK, TransactionsOK, PublishOrder
  <2>6. TablesOK'
    BY <2>1, <2>4, <2>5, PublishKeeps DEF IInv, TypeOK, TablesOK
  <2> QED
    BY <2>1, <2>6, PublishKeeps, EndKeeps
<1>2. CASE CommitInventory(s)
  <2>1. /\ PublishStock(s) /\ End(s)
        /\ UNCHANGED <<active, status, site, lines, done, posted>>
    BY <1>2 DEF CommitInventory
  <2>2. TablesOK'
    BY <2>1, PublishKeeps DEF IInv, TypeOK, TablesOK
  <2> QED
    BY <2>1, <2>2, PublishKeeps, EndKeeps
<1>3. CASE Creates(s)
  <2>1. PICK o \in Orders : CommitCreate(s, o)
    BY <1>3 DEF Creates
  <2>2. req[s].op \in CreateOps /\ End(s)
    BY <2>1 DEF CommitCreate
  <2>3. req[s].cart \in Carts
    BY <2>2, RequestTypes DEF IInv, CreateOps
  <2>4. /\ status' \in [Orders -> Status] /\ site' \in [Orders -> Branches]
        /\ lines' \in [Orders -> [Products -> 0..MaxInt]]
    BY <2>1, <2>3
    DEF IInv, TypeOK, TablesOK, CommitCreate, Carts, Status, SaleStatus
  <2>5. TablesOK' /\ LedgerBalanced'
    BY <2>1, <2>4 DEF IInv, TypeOK, TablesOK, LedgerBalanced, CommitCreate
  <2>6. /\ \A r \in Rows : r \notin rows' => stock'[r] = 0
        /\ \A r \in Rows : rowLock[r] # s => stock'[r] = stock[r]
    BY <2>1 DEF IInv, BufferInv, CommitCreate
  <2> QED
    BY <2>2, <2>5, <2>6, EndKeeps
<1> QED
  BY <1>1, <1>2, <1>3

LEMMA StartKeeps ==
  ASSUME IInv, NEW s \in Sessions, Starts(s)
  PROVE  IInv'
<1> USE DEF IInv, TypeOK
<1>1. PICK r \in Requests, at \in {"lock", "insert", "adjust", "transfer", "commit"} :
        CheckedRequest(r, at) /\ Start(s, r, at)
  BY DEF Starts
<1>2. TablesOK' /\ LedgerBalanced'
  BY <1>1 DEF Start, tables, TablesOK, LedgerBalanced
<1>3. TransactionsOK'
  BY <1>1 DEF Start, buffer, locks, TransactionsOK, PCs
<1>4. RequestInv'
  BY <1>1 DEF Start, TransactionsOK, RequestInv, CheckedRequest
<1>5. BufferInv'
  BY <1>1 DEF Start, buffer, locks, tables, TransactionsOK, BufferInv, Source, Destination
<1>6. NoLostUpdate' /\ TodoInv'
  BY <1>1 DEF Start, buffer, locks, tables, TransactionsOK, NoLostUpdate, TodoInv
<1>7. LocksGoUp'
  BY <1>1 DEF Start, buffer, locks, TransactionsOK, LocksGoUp
<1> QED
  BY <1>2, <1>3, <1>4, <1>5, <1>6, <1>7

LEMMA HoldKeeps ==
  ASSUME IInv, NEW s \in Sessions, Holds(s)
  PROVE  IInv'
<1> USE DEF IInv, TypeOK
<1>1. PICK o \in Orders, need \in SUBSET Rows, st \in Status :
        /\ pc[s] = "lock"
        /\ req[s].op = "sale.fulfill" => \A r \in need : req[s].items[r[1]] > 0
        /\ HoldOrder(s, o, need, st)
  BY DEF Holds
<1>2. TablesOK' /\ LedgerBalanced'
  BY <1>1 DEF HoldOrder, tables, TablesOK, LedgerBalanced
<1>3. TransactionsOK'
  BY <1>1 DEF HoldOrder, TransactionsOK, TablesOK, PCs
<1>4. RequestInv'
  BY <1>1 DEF HoldOrder, TransactionsOK, RequestInv
<1>5. BufferInv'
  BY <1>1 DEF HoldOrder, tables, TransactionsOK, BufferInv, Source, Destination
<1>6. NoLostUpdate' /\ TodoInv'
  BY <1>1 DEF HoldOrder, tables, TransactionsOK, NoLostUpdate, TodoInv
<1>7. LocksGoUp'
  BY <1>1 DEF HoldOrder, TransactionsOK, LocksGoUp
<1> QED
  BY <1>2, <1>3, <1>4, <1>5, <1>6, <1>7

LEMMA LeakKeeps ==
  ASSUME IInv, NEW s \in Sessions, Leaks(s)
  PROVE  IInv'
<1> USE DEF IInv, TypeOK
<1>1. PICK o \in Orders : pc[s] = "lock" /\ Leak(s, o)
  BY DEF Leaks
<1>2. TablesOK' /\ LedgerBalanced'
  BY <1>1 DEF Leak, tables, TablesOK, LedgerBalanced
<1>3. TransactionsOK'
  BY <1>1 DEF Leak, buffer, TransactionsOK, PCs
<1>4. RequestInv' /\ TodoInv'
  BY <1>1 DEF Leak, TransactionsOK, RequestInv, TodoInv
<1>5. BufferInv' /\ NoLostUpdate'
  BY <1>1 DEF Leak, buffer, tables, TransactionsOK, BufferInv, NoLostUpdate, Source, Destination
<1>6. LocksGoUp'
  BY <1>1 DEF Leak, TransactionsOK, LocksGoUp
<1> QED
  BY <1>2, <1>3, <1>4, <1>5, <1>6

LEMMA WriteKeeps ==
  ASSUME IInv, NEW s \in Sessions, Writes(s)
  PROVE  IInv'
<1> USE IdsAssumption DEF IInv, TypeOK
<1>1. PICK r \in Rows, q \in 0..MaxInt, d \in -MaxInt..MaxInt, n \in -MaxInt..MaxInt :
        /\ \/ pc[s] \in {"items", "checked"} /\ req[s].op \in OrderOps /\ NextRow(s, r)
           \/ pc[s] \in {"insert", "adjust"}
        /\ RowFree(r) /\ q = stock[r] + d
        /\ WriteRow(s, r, q, d, n)
  BY DEF Writes
<1>2. TablesOK' /\ LedgerBalanced'
  BY <1>1 DEF WriteRow, tables, TablesOK, LedgerBalanced
<1>3. TransactionsOK'
  <2>1. /\ pc' \in [Sessions -> PCs] /\ todo' \in [Sessions -> SUBSET Rows]
        /\ req' \in [Sessions -> Requests \cup {NoRequest}]
    BY <1>1 DEF WriteRow, TransactionsOK, PCs
  <2>2. /\ wrow' \in [Sessions -> [Rows -> 0..MaxInt]]
        /\ wmov' \in [Sessions -> [Rows -> Int]]
    BY <1>1 DEF WriteRow, TransactionsOK
  <2>3. wdone' \in [Sessions -> [Products -> Int]] /\ wstatus' \in [Sessions -> Status]
    <3>1. r[1] \in Products /\ n \in Int
      BY DEF Rows
    <3>2. wdone[s] \in [Products -> Int]
      BY DEF TransactionsOK
    <3>3. [wdone[s] EXCEPT ![r[1]] = @ + n] \in [Products -> Int]
      <4> DEFINE p == r[1]
                 f == wdone[s]
      <4> HIDE DEF p, f
      <4>1. p \in Products /\ f \in [Products -> Int] /\ n \in Int
        BY <3>1, <3>2 DEF p, f
      <4>2. [f EXCEPT ![p] = @ + n] \in [Products -> Int]
        BY <4>1
      <4> QED
        BY <4>2 DEF p, f
    <3>4. wdone' = [wdone EXCEPT ![s] = [wdone[s] EXCEPT ![r[1]] = @ + n]]
      BY <1>1 DEF WriteRow
    <3> QED
      BY <1>1, <3>3, <3>4 DEF WriteRow, TransactionsOK
  <2>4. /\ orderLock' \in [Orders -> Sessions \cup {NoOne}]
        /\ rowLock' \in [Rows -> Sessions \cup {NoOne}]
    BY <1>1 DEF WriteRow, TransactionsOK
  <2> QED
    BY <2>1, <2>2, <2>3, <2>4 DEF TransactionsOK
<1>4. /\ \A t \in Sessions \ {s} : /\ pc'[t] = pc[t] /\ todo'[t] = todo[t]
                                   /\ wrow'[t] = wrow[t] /\ wmov'[t] = wmov[t]
      /\ pc'[s] \in {"commit", "items"} /\ todo'[s] = todo[s] \ {r}
      /\ pc'[s] = "items" => \E x \in todo[s] : x # r
      /\ \A x \in Rows \ {r} : rowLock'[x] = rowLock[x] /\ wrow'[s][x] = wrow[s][x]
                                /\ wmov'[s][x] = wmov[s][x]
      /\ rowLock'[r] = s /\ wrow'[s][r] = q /\ wmov'[s][r] = d
      /\ req' = req /\ stock' = stock /\ rows' = rows
  BY <1>1 DEF WriteRow, tables, TransactionsOK
<1>5. rowLock[r] = NoOne
  BY <1>1 DEF RowFree
<1>6. RequestInv'
  <2>1. pc'[s] = "items" => pc[s] \in {"items", "checked"} /\ req[s].op \in OrderOps
    BY <1>1, <1>4 DEF TodoInv
  <2>2. ASSUME NEW t \in Sessions PROVE RequestInv!(t)'
    <3>1. CASE t = s
      BY <1>1, <1>4, <2>1, <3>1 DEF RequestInv
    <3>2. CASE t # s
      BY <1>4, <3>2 DEF RequestInv
    <3> QED
      BY <3>1, <3>2
  <2> QED
    BY <2>2 DEF RequestInv
<1>7. BufferInv'
  <2>1. \A t \in Sessions, x \in Rows : rowLock'[x] # t => wmov'[t][x] = 0
    BY <1>4, <1>5 DEF BufferInv
  <2>2. \A t \in Sessions, x \in Rows :
          pc'[t] \in {"idle", "transfer", "pair", "move"} => wmov'[t][x] = 0
    BY <1>4 DEF BufferInv
  <2>3. ASSUME NEW t \in Sessions, pc'[t] \in {"pair", "move"},
               NEW x \in {Source(t), Destination(t)}'
        PROVE  rowLock'[x] = t \/ x \in todo'[t]
    <3>1. t # s /\ pc[t] \in {"pair", "move"} /\ todo'[t] = todo[t] /\ req'[t] = req[t]
      BY <1>4, <2>3
    <3>2. x \in {Source(t), Destination(t)}
      BY <2>3, <3>1 DEF Source, Destination
    <3>3. x \in Rows
      BY <3>1, <3>2, RequestTypes DEF RequestInv
    <3> QED
      BY <1>4, <1>5, <3>1, <3>2, <3>3 DEF BufferInv
  <2>4. \A x \in Rows : x \notin rows' => stock'[x] = 0
    BY <1>4 DEF BufferInv
  <2> QED
    BY <2>1, <2>2, <2>3, <2>4 DEF BufferInv
<1>8. NoLostUpdate'
  BY <1>1, <1>4 DEF NoLostUpdate
<1>9. TodoInv'
  BY <1>1, <1>4 DEF TodoInv, WriteRow, TransactionsOK
<1>10. LocksGoUp'
  <2>1. ASSUME NEW t \in Sessions, NEW x \in Rows, NEW y \in Rows,
               rowLock'[x] = t, y \in todo'[t]
        PROVE  Before(x, y)
    <3>1. CASE t = s /\ x = r
      BY <1>1, <1>4, <2>1, <3>1 DEF NextRow, TodoInv
    <3>2. CASE ~(t = s /\ x = r)
      BY <1>4, <2>1, <3>2 DEF LocksGoUp
    <3> QED
      BY <3>1, <3>2
  <2>2. ASSUME NEW t \in Sessions, NEW x \in Rows,
               pc'[t] \in {"idle", "lock", "insert", "adjust", "transfer", "leaked"}
        PROVE  rowLock'[x] # t
    BY <1>4, <2>2 DEF LocksGoUp
  <2> QED
    BY <2>1, <2>2 DEF LocksGoUp, Before
<1> QED
  BY <1>2, <1>3, <1>6, <1>7, <1>8, <1>9, <1>10

LEMMA CheckKeeps ==
  ASSUME IInv, NEW s \in Sessions, Checks(s)
  PROVE  IInv'
<1> USE DEF IInv, TypeOK, Checks
<1>1. TablesOK' /\ LedgerBalanced'
  BY DEF tables, TablesOK, LedgerBalanced
<1>2. TransactionsOK'
  BY DEF buffer, locks, TransactionsOK, PCs
<1>3. RequestInv' /\ TodoInv'
  BY DEF TransactionsOK, RequestInv, TodoInv
<1>4. BufferInv' /\ NoLostUpdate'
  BY DEF buffer, locks, tables, TransactionsOK, BufferInv, NoLostUpdate, Source, Destination
<1>5. LocksGoUp'
  BY DEF locks, TransactionsOK, LocksGoUp
<1> QED
  BY <1>1, <1>2, <1>3, <1>4, <1>5

LEMMA BeginTransferKeeps ==
  ASSUME IInv, NEW s \in Sessions, BeginTransfer(s)
  PROVE  IInv'
<1> USE DEF IInv, TypeOK
<1>1. /\ pc[s] = "transfer" /\ pc' = [pc EXCEPT ![s] = "pair"]
      /\ todo' = [todo EXCEPT ![s] = {Source(s), Destination(s)}]
      /\ UNCHANGED <<tables, active, req, buffer, locks>>
  BY DEF BeginTransfer, Source, Destination
<1>2. Source(s) \in Rows /\ Destination(s) \in Rows
  BY <1>1, RequestTypes DEF RequestInv
<1>3. TablesOK' /\ LedgerBalanced'
  BY <1>1 DEF tables, TablesOK, LedgerBalanced
<1>4. TransactionsOK'
  BY <1>1, <1>2 DEF buffer, locks, TransactionsOK, PCs
<1>5. RequestInv' /\ TodoInv'
  BY <1>1 DEF TransactionsOK, RequestInv, TodoInv
<1>6. NoLostUpdate'
  BY <1>1 DEF buffer, locks, tables, NoLostUpdate
<1>7. \A t \in Sessions : Source(t)' = Source(t) /\ Destination(t)' = Destination(t)
  BY <1>1 DEF Source, Destination
<1>8. BufferInv'
  BY <1>1, <1>7 DEF buffer, locks, tables, TransactionsOK, BufferInv
<1>9. LocksGoUp'
  BY <1>1 DEF locks, TransactionsOK, LocksGoUp
<1> QED
  BY <1>3, <1>4, <1>5, <1>6, <1>8, <1>9

LEMMA LockPairKeeps ==
  ASSUME IInv, NEW s \in Sessions, LocksPair(s)
  PROVE  IInv'
<1> USE IdsAssumption DEF IInv, TypeOK
<1>1. PICK r \in todo[s] :
        /\ pc[s] = "pair" /\ NextRow(s, r) /\ RowFree(r)
        /\ rowLock' = [rowLock EXCEPT ![r] = s]
        /\ wrow' = [wrow EXCEPT ![s][r] = stock[r]]
        /\ todo' = [todo EXCEPT ![s] = @ \ {r}]
        /\ pc' = [pc EXCEPT ![s] = IF todo[s] = {r} THEN "move" ELSE "pair"]
        /\ UNCHANGED <<tables, active, req, wmov, wstatus, wdone, orderLock>>
  BY DEF LocksPair
<1>2. r \in Rows /\ stock[r] \in 0..MaxInt /\ rowLock[r] = NoOne
  BY <1>1 DEF TransactionsOK, TablesOK, RowFree
<1>3. TablesOK' /\ LedgerBalanced'
  BY <1>1 DEF tables, TablesOK, LedgerBalanced
<1>4. TransactionsOK'
  BY <1>1, <1>2 DEF TransactionsOK, PCs
<1>5. /\ \A t \in Sessions \ {s} : /\ pc'[t] = pc[t] /\ todo'[t] = todo[t]
                                   /\ wrow'[t] = wrow[t]
      /\ pc'[s] \in {"pair", "move"} /\ todo'[s] = todo[s] \ {r}
      /\ pc'[s] = "move" => todo'[s] = {}
      /\ \A x \in Rows \ {r} : rowLock'[x] = rowLock[x] /\ wrow'[s][x] = wrow[s][x]
      /\ rowLock'[r] = s /\ wrow'[s][r] = stock[r]
      /\ req' = req /\ stock' = stock /\ rows' = rows /\ wmov' = wmov
  BY <1>1, <1>2 DEF tables, TransactionsOK
<1>6. RequestInv' /\ TodoInv'
  BY <1>1, <1>5 DEF RequestInv, TodoInv
<1>7. \A t \in Sessions : Source(t)' = Source(t) /\ Destination(t)' = Destination(t)
  BY <1>5 DEF Source, Destination
<1>8. BufferInv'
  <2>1. \A t \in Sessions, x \in Rows : rowLock'[x] # t => wmov'[t][x] = 0
    BY <1>2, <1>5 DEF BufferInv
  <2>2. \A t \in Sessions, x \in Rows :
          pc'[t] \in {"idle", "transfer", "pair", "move"} => wmov'[t][x] = 0
    BY <1>1, <1>5 DEF BufferInv
  <2>3. ASSUME NEW t \in Sessions, pc'[t] \in {"pair", "move"},
               NEW x \in {Source(t), Destination(t)}
        PROVE  rowLock'[x] = t \/ x \in todo'[t]
    <3>1. pc[t] \in {"pair", "move"}
      BY <1>1, <1>5, <2>3
    <3>2. x \in Rows
      BY <3>1, <2>3, RequestTypes DEF RequestInv
    <3> QED
      BY <1>2, <1>5, <2>3, <3>1, <3>2 DEF BufferInv
  <2>4. \A x \in Rows : x \notin rows' => stock'[x] = 0
    BY <1>5 DEF BufferInv
  <2> QED
    BY <1>7, <2>1, <2>2, <2>3, <2>4 DEF BufferInv
<1>9. NoLostUpdate'
  <2>1. wmov[s][r] = 0
    BY <1>2 DEF BufferInv
  <2>2. ASSUME NEW x \in Rows, NEW t \in Sessions, rowLock'[x] = t
        PROVE  wrow'[t][x] = stock'[x] + wmov'[t][x]
    <3>1. CASE x = r
      BY <1>2, <1>5, <2>1, <2>2, <3>1
    <3>2. CASE x # r
      BY <1>5, <2>2, <3>2 DEF NoLostUpdate
    <3> QED
      BY <3>1, <3>2
  <2> QED
    BY <2>2 DEF NoLostUpdate
<1>10. LocksGoUp'
  <2>1. ASSUME NEW t \in Sessions, NEW x \in Rows, NEW y \in Rows,
               rowLock'[x] = t, y \in todo'[t]
        PROVE  Before(x, y)
    <3>1. CASE t = s /\ x = r
      BY <1>1, <1>5, <2>1, <3>1 DEF NextRow
    <3>2. CASE ~(t = s /\ x = r)
      BY <1>2, <1>5, <2>1, <3>2 DEF LocksGoUp
    <3> QED
      BY <3>1, <3>2
  <2>2. ASSUME NEW t \in Sessions, NEW x \in Rows,
               pc'[t] \in {"idle", "lock", "insert", "adjust", "transfer", "leaked"}
        PROVE  rowLock'[x] # t
    BY <1>2, <1>5, <2>2 DEF LocksGoUp
  <2> QED
    BY <2>1, <2>2 DEF LocksGoUp, Before
<1> QED
  BY <1>3, <1>4, <1>6, <1>8, <1>9, <1>10

LEMMA MoveKeeps ==
  ASSUME IInv, NEW s \in Sessions, Moves(s)
  PROVE  IInv'
<1> USE DEF IInv, TypeOK
<1> DEFINE q    == req[s].qty
           src  == Source(s)
           dest == Destination(s)
<1>1. /\ pc[s] = "move"
      /\ wrow[s][src] - q \in 0..MaxInt /\ wrow[s][dest] + q \in 0..MaxInt
      /\ wrow' = [wrow EXCEPT ![s][src] = @ - q, ![s][dest] = wrow[s][dest] + q]
      /\ wmov' = [wmov EXCEPT ![s][src] = -q, ![s][dest] = q]
      /\ pc' = [pc EXCEPT ![s] = "commit"]
      /\ UNCHANGED <<tables, active, req, todo, wstatus, wdone, locks>>
  BY DEF Moves
<1>2. /\ src \in Rows /\ dest \in Rows /\ q \in Int /\ src # dest
      /\ rowLock[src] = s /\ rowLock[dest] = s
  <2>1. req[s].op = "inventory.transfer" /\ req[s].from # req[s].to
    BY <1>1 DEF RequestInv
  <2>2. src \in Rows /\ dest \in Rows /\ q \in Int
    BY <2>1, RequestTypes
  <2>3. src # dest
    BY <2>1 DEF Source, Destination
  <2>4. todo[s] = {}
    BY <1>1 DEF TodoInv
  <2> QED
    BY <1>1, <2>2, <2>3, <2>4 DEF BufferInv
<1>3. TablesOK' /\ LedgerBalanced'
  BY <1>1 DEF tables, TablesOK, LedgerBalanced
<1> HIDE DEF q, src, dest
<1>4. TransactionsOK'
  BY <1>1, <1>2 DEF locks, TransactionsOK, PCs
<1>5. /\ \A t \in Sessions \ {s} : /\ pc'[t] = pc[t] /\ wrow'[t] = wrow[t]
                                   /\ wmov'[t] = wmov[t]
      /\ pc'[s] = "commit"
      /\ \A x \in Rows \ {src, dest} : /\ wrow'[s][x] = wrow[s][x]
                                      /\ wmov'[s][x] = wmov[s][x]
      /\ wrow'[s][src] = wrow[s][src] - q /\ wrow'[s][dest] = wrow[s][dest] + q
      /\ wmov'[s][src] = -q /\ wmov'[s][dest] = q
      /\ UNCHANGED <<rows, stock, req, todo, rowLock>>
  BY <1>1, <1>2 DEF tables, locks, TransactionsOK
<1>6. RequestInv' /\ TodoInv'
  BY <1>1, <1>5 DEF RequestInv, TodoInv
<1>7. BufferInv'
  <2>1. \A t \in Sessions, x \in Rows : rowLock'[x] # t => wmov'[t][x] = 0
    BY <1>2, <1>5 DEF BufferInv
  <2>2. \A t \in Sessions, x \in Rows :
          pc'[t] \in {"idle", "transfer", "pair", "move"} => wmov'[t][x] = 0
    BY <1>5 DEF BufferInv
  <2>3. \A t \in Sessions : Source(t)' = Source(t) /\ Destination(t)' = Destination(t)
    BY <1>5 DEF Source, Destination
  <2> QED
    BY <1>5, <2>1, <2>2, <2>3 DEF BufferInv
<1>8. NoLostUpdate'
  <2>1. wmov[s][src] = 0 /\ wmov[s][dest] = 0
    BY <1>1, <1>2 DEF BufferInv
  <2>2. wrow[s][src] = stock[src] /\ wrow[s][dest] = stock[dest]
    BY <1>2, <2>1 DEF NoLostUpdate, TablesOK
  <2> QED
    BY <1>2, <1>5, <2>2 DEF NoLostUpdate, TablesOK
<1>9. LocksGoUp'
  BY <1>5 DEF LocksGoUp
<1> QED
  BY <1>3, <1>4, <1>6, <1>7, <1>8, <1>9

-----------------------------------------------------------------------------
(* Every step of the system preserves the invariant.                       *)
LEMMA NextKeeps == IInv /\ [Next]_vars => IInv'
<1> SUFFICES ASSUME IInv, [Next]_vars PROVE IInv'
  OBVIOUS
<1>1. ASSUME NEW s \in Sessions, Arrive(s) \/ Progress(s) \/ Abort(s) PROVE IInv'
  BY <1>1, StepShapes, StartKeeps, RollbackKeeps, HoldKeeps, LeakKeeps, WriteKeeps,
     CheckKeeps, BeginTransferKeeps, LockPairKeeps, MoveKeeps, CommitKeeps DEF Shape
<1>2. ASSUME NEW p \in Products, SetProductActive(p) PROVE IInv'
  <2>1. UNCHANGED <<tables, pc, req, todo, buffer, locks>>
        /\ active' \subseteq Products
    BY <1>2 DEF SetProductActive, IInv, TypeOK, TablesOK
  <2>2. TypeOK'
    BY <2>1 DEF IInv, tables, buffer, locks, TypeOK, TablesOK, TransactionsOK
  <2> QED
    BY <2>1, <2>2 DEF IInv, tables, buffer, locks, RequestInv, BufferInv, Source,
       Destination, LedgerBalanced, NoLostUpdate, TodoInv, LocksGoUp, NextRow
<1>3. CASE UNCHANGED vars
  <2> USE <1>3 DEF vars, tables, buffer, locks
  <2>1. TypeOK'
    BY DEF IInv, TypeOK, TablesOK, TransactionsOK
  <2>2. RequestInv' /\ BufferInv'
    BY DEF IInv, RequestInv, BufferInv, Source, Destination
  <2>3. LedgerBalanced' /\ NoLostUpdate' /\ TodoInv' /\ LocksGoUp'
    BY DEF IInv, LedgerBalanced, NoLostUpdate, TodoInv, LocksGoUp
  <2> QED
    BY <2>1, <2>2, <2>3 DEF IInv
<1> QED
  BY <1>1, <1>2, <1>3 DEF Next

LEMMA Invariance == Spec => []IInv
BY InitInvariant, NextKeeps, PTL DEF Spec

(* Every variable keeps its type; in particular no quantity is negative or *)
(* overflows, although the services add before they check.                 *)
THEOREM TypeCorrect == Spec => []TypeOK
<1>1. IInv => TypeOK
  BY DEF IInv
<1> QED
  BY <1>1, Invariance, PTL

(* The stock of every row is the sum of its movements, however requests    *)
(* interleave, fail, or are cut off.                                       *)
THEOREM LedgerAlwaysBalanced == Spec => []LedgerBalanced
<1>1. IInv => LedgerBalanced
  BY DEF IInv
<1> QED
  BY <1>1, Invariance, PTL

(* No transaction overwrites a quantity that has changed since it read it. *)
THEOREM NoUpdateIsLost == Spec => []NoLostUpdate
<1>1. IInv => NoLostUpdate
  BY DEF IInv
<1> QED
  BY <1>1, Invariance, PTL

(* Rows are locked upwards, which is why transactions cannot deadlock.     *)
THEOREM RowsLockedInOrder == Spec => []LocksGoUp
<1>1. IInv => LocksGoUp
  BY DEF IInv
<1> QED
  BY <1>1, Invariance, PTL

-----------------------------------------------------------------------------
(* No deadlock.                                                            *)

(* Who waits for an order holds none, and who holds one does not wait for  *)
(* another.                                                                *)
HolderInv ==
  \A o \in Orders, s \in Sessions :
    orderLock[o] = s => pc[s] \in {"items", "checked", "commit", "leaked"}

LEMMA HolderInvariance == Spec => []HolderInv
<1>1. Init => HolderInv
  BY IdsAssumption DEF Init, HolderInv
<1>2. ASSUME IInv, HolderInv, [Next]_vars PROVE HolderInv'
  <2>1. ASSUME NEW s \in Sessions, Arrive(s) \/ Progress(s) \/ Abort(s)
        PROVE  HolderInv'
    <3>1. Shape(s)
      BY <1>2, <2>1, StepShapes
    <3> USE <1>2, IdsAssumption DEF IInv, TypeOK, TransactionsOK, HolderInv
    <3>2. CASE End(s)
      BY <3>2 DEF End
    <3>3. CASE Starts(s)
      BY <3>3 DEF Starts, Start, locks
    <3>4. CASE Holds(s)
      BY <3>4 DEF Holds, HoldOrder
    <3>5. CASE Leaks(s)
      BY <3>5 DEF Leaks, Leak
    <3>6. CASE Writes(s)
      BY <3>6 DEF Writes, WriteRow
    <3>7. CASE Checks(s) \/ BeginTransfer(s) \/ LocksPair(s) \/ Moves(s)
      BY <3>7 DEF Checks, BeginTransfer, LocksPair, Moves, locks
    <3> QED
      BY <3>1, <3>2, <3>3, <3>4, <3>5, <3>6, <3>7
      DEF Shape, Rollback, CommitOrder, CommitInventory, Creates, CommitCreate
  <2>2. ASSUME NEW p \in Products, SetProductActive(p) PROVE HolderInv'
    BY <1>2, <2>2 DEF SetProductActive, HolderInv, locks
  <2>3. ASSUME UNCHANGED vars PROVE HolderInv'
    BY <1>2, <2>3 DEF vars, HolderInv, locks
  <2> QED
    BY <1>2, <2>1, <2>2, <2>3 DEF Next
<1> QED
  BY <1>1, <1>2, Invariance, PTL DEF Spec

(* Of finitely many sessions, each with a row, one has a row that none of  *)
(* the others' comes after.                                                *)
LEMMA HighestRow ==
  ASSUME NEW W, IsFiniteSet(W), W # {}, NEW w \in [W -> Rows]
  PROVE  \E s \in W : \A t \in W : ~Before(w[s], w[t])
<1>1. PICK n \in Nat : \E f : f \in Surjection(1..n, W)
  BY FS_NatSurjection DEF ExistsSurjection
<1>2. PICK f \in [1..n -> W] : \A t \in W : \E i \in 1..n : f[i] = t
  BY <1>1 DEF Surjection
<1>3. /\ \A r \in Rows : ~Before(r, r)
      /\ \A q, r, x \in Rows : Before(q, r) /\ Before(r, x) => Before(q, x)
  <2>1. \A r \in Rows : r[1] \in Products /\ r[2] \in Branches
    BY DEF Rows
  <2>2. Products \subseteq Int /\ Branches \subseteq Int
    BY IdsAssumption
  <2>3. \A r \in Rows : r[1] \in Int /\ r[2] \in Int
    BY <2>1, <2>2
  <2> QED
    BY <2>3 DEF Before
<1> DEFINE Tops(k) == {s \in W : \A i \in 1..(n - k) : ~Before(w[s], w[f[i]])}
           K == {k \in Nat : k <= n /\ Tops(k) # {}}
<1>4. n \in K
  BY <1>1
<1>5. PICK k \in K : \A j \in K : ~(j < k)
  <2>1. \E k \in K : \A j \in K : ~(<<j, k>> \in OpToRel(<, Nat))
    BY <1>4, NatLessThanWellFounded, WFMin
  <2> QED
    BY <2>1 DEF OpToRel
<1>6. k = 0
  <2> SUFFICES ASSUME k # 0 PROVE FALSE
    OBVIOUS
  <2>1. PICK s \in W : \A i \in 1..(n - k) : ~Before(w[s], w[f[i]])
    BY <1>5
  <2> DEFINE m == n - k + 1
  <2>2. /\ m \in 1..n /\ f[m] \in W /\ 1..(n - (k - 1)) = 1..(n - k) \cup {m}
        /\ k - 1 \in Nat /\ k - 1 < k
    BY <1>2, <1>5
  <2> HIDE DEF m
  <2>3. ASSUME NEW i \in 1..(n - k) PROVE i \in 1..n /\ w[f[i]] \in Rows
    BY <1>2, <1>5, <2>3
  <2>4. \E x \in W : \A i \in 1..(n - k) \cup {m} : ~Before(w[x], w[f[i]])
    <3>1. CASE Before(w[s], w[f[m]])
      BY <1>3, <2>1, <2>2, <2>3, <3>1
    <3>2. CASE ~Before(w[s], w[f[m]])
      BY <2>1, <3>2
    <3> QED
      BY <3>1, <3>2
  <2>5. k - 1 \in K
    <3>1. Tops(k - 1) # {}
      BY <2>2, <2>4
    <3>2. k - 1 <= n
      BY <1>5, <2>2
    <3> QED
      BY <2>2, <3>1, <3>2
  <2> QED
    BY <1>5, <2>2, <2>5
<1> QED
  BY <1>2, <1>5, <1>6

(* Who holds the row that another waits for holds no order it could wait   *)
(* for, and wants a row that comes after it.                               *)
LEMMA WaitsUpwards ==
  ASSUME IInv, HolderInv, NEW s \in Sessions, NEW t \in Sessions, NEW u \in Sessions
  PROVE  /\ WaitsForOrder(s, t) => ~WaitsForOrder(t, u)
         /\ \A q \in Rows : rowLock[q] = t =>
              /\ ~WaitsForOrder(t, u)
              /\ \A r \in Rows : Wanted(t, r) => Before(q, r)
<1>1. WaitsForOrder(s, t) => pc[t] # "lock"
  <2>1. WaitsForOrder(s, t) => req[s].order \in Orders
    BY RequestTypes DEF WaitsForOrder, IInv, RequestInv, OrderOps, SaleOps, PurchaseOps
  <2> QED
    BY <2>1 DEF WaitsForOrder, HolderInv
<1>2. ASSUME NEW q \in Rows, rowLock[q] = t
      PROVE  /\ pc[t] \notin {"lock", "insert", "adjust"}
             /\ \A r \in todo[t] : Before(q, r)
  <2>1. \A r \in todo[t] : r \in Rows
    BY DEF IInv, TypeOK, TransactionsOK
  <2> QED
    BY <1>2, <2>1 DEF IInv, LocksGoUp
<1> QED
  BY <1>1, <1>2 DEF WaitsForOrder, Wanted, NextRow

(* In no state does every one of a set of transactions wait for another of *)
(* them, so that PostgreSQL never breaks a deadlock by failing a request.  *)
THEOREM NoneDeadlocks == Spec => []NoDeadlock
<1>1. ASSUME IInv, HolderInv PROVE NoDeadlock
  <2> SUFFICES ASSUME NEW S \in (SUBSET Sessions) \ {{}},
                      \A s \in S : \E t \in S : WaitsFor(s, t)
               PROVE  FALSE
    BY DEF NoDeadlock
  <2> USE <1>1
  <2> DEFINE W == {s \in S : \E t \in S : WaitsForRow(s, t)}
             w == [s \in W |-> CHOOSE r \in Rows : Wanted(s, r) /\ rowLock[r] \in S]
  <2>1. IsFiniteSet(W)
    BY SessionsAssumption, FS_Subset
  <2>2. W # {}
    <3>1. PICK s \in S : s \in Sessions
      OBVIOUS
    <3>2. PICK t \in S : WaitsFor(s, t)
      OBVIOUS
    <3>3. PICK u \in S : WaitsFor(t, u)
      OBVIOUS
    <3> QED
      BY <3>2, <3>3, WaitsUpwards DEF WaitsFor
  <2>3. ASSUME NEW s \in W
        PROVE  w[s] \in Rows /\ Wanted(s, w[s]) /\ rowLock[w[s]] \in S
    BY DEF WaitsForRow
  <2>4. w \in [W -> Rows]
    BY <2>3
  <2> HIDE DEF w
  <2>5. ASSUME NEW s \in W PROVE \E t \in W : Before(w[s], w[t])
    <3>1. PICK t \in S : rowLock[w[s]] = t
      BY <2>3
    <3>2. PICK u \in S : WaitsFor(t, u)
      OBVIOUS
    <3>3. t \in W
      BY <2>3, <3>1, <3>2, WaitsUpwards DEF WaitsFor
    <3>4. t \in Sessions /\ w[s] \in Rows /\ w[t] \in Rows /\ Wanted(t, w[t])
      BY <2>3, <3>3
    <3>5. Before(w[s], w[t])
      BY <3>1, <3>4, WaitsUpwards
    <3> QED
      BY <3>3, <3>5
  <2> HIDE DEF W
  <2> QED
    BY <2>1, <2>2, <2>4, <2>5, HighestRow
<1> QED
  BY <1>1, Invariance, HolderInvariance, PTL
=============================================================================
