------------------------------ MODULE StockTx ------------------------------
(***************************************************************************)
(* The stock database and its transactions, as the sales, purchasing and   *)
(* inventory services use them (backend/internal/*, PostgreSQL at READ     *)
(* COMMITTED).  A session is one HTTP request's transaction: it locks the  *)
(* order row (SELECT ... FOR UPDATE), then inventory rows one at a time,   *)
(* buffers what it writes and publishes all of it at COMMIT.               *)
(*                                                                         *)
(* Committed tables:                                                       *)
(*   rows, stock   inventory rows that exist, and their quantity           *)
(*   ledger        sum of stock_movements.quantity_delta by inventory row  *)
(*   status, site, lines, done   sales and purchases with their items      *)
(*                 (quantity and fulfilled_/received_quantity by product)  *)
(*   posted        sum of the movements an order has caused, by product    *)
(*   active        products a transaction may move (is_active, not deleted)*)
(* Transactions in progress:                                               *)
(*   pc, req, todo     where a session is, its request, rows left to lock  *)
(*   wrow, wmov        uncommitted quantities and movements                *)
(*   wstatus, wdone    uncommitted order status and item progress          *)
(*   orderLock, rowLock   who holds each row lock                          *)
(***************************************************************************)
EXTENDS Integers, FiniteSets

CONSTANTS
  Sessions,    (* concurrent requests                                      *)
  Sales,       (* sale identifiers                                         *)
  Purchases,   (* purchase identifiers                                     *)
  Products,    (* product identifiers, ordered as the code orders them     *)
  Branches,    (* branch identifiers, likewise                             *)
  Requests,    (* what clients may ask                                     *)
  Opening,     (* quantities of the inventory rows that exist at the start *)
  Drafts,      (* orders that exist at the start: their site and lines     *)
  Toggled,     (* products whose is_active the environment switches        *)
  MaxInt,      (* the largest int64                                        *)
  NoOne        (* the holder of a free lock                                *)

Orders == Sales \cup Purchases
Rows   == Products \X Branches
Carts  == [site : Branches, lines : [Products -> 0..MaxInt]]

CreateOps    == {"sale.create", "purchase.create"}
SaleOps      == {"sale.confirm", "sale.fulfill", "sale.complete", "sale.cancel"}
PurchaseOps  == {"purchase.order", "purchase.receive", "purchase.complete",
                 "purchase.cancel"}
OrderOps     == SaleOps \cup PurchaseOps
InventoryOps == {"inventory.create", "inventory.adjust", "inventory.transfer"}
NoRequest    == [op |-> "none"]

ASSUME IdsAssumption ==
  /\ Products \subseteq Nat /\ Branches \subseteq Nat /\ Branches # {}
  /\ NoOne \notin Sessions
  /\ Sales \cap Purchases = {}
  /\ MaxInt \in Nat \ {0}
  /\ Toggled \subseteq Products

ASSUME SessionsAssumption == IsFiniteSet(Sessions)

ASSUME TablesAssumption ==
  /\ DOMAIN Opening \subseteq Rows
  /\ \A r \in DOMAIN Opening : Opening[r] \in 0..MaxInt
  /\ DOMAIN Drafts \subseteq Orders
  /\ \A o \in DOMAIN Drafts : Drafts[o] \in Carts

ASSUME RequestsAssumption ==
  \A r \in Requests :
    /\ r.op \in CreateOps \cup OrderOps \cup InventoryOps
    /\ r.op \in CreateOps => r.cart \in Carts
    /\ r.op \in SaleOps => r.order \in Sales
    /\ r.op \in PurchaseOps => r.order \in Purchases
    /\ r.op \in {"sale.fulfill", "purchase.receive"} =>
         r.items \in [Products -> -MaxInt..MaxInt]
    /\ r.op \in {"inventory.create", "inventory.adjust"} =>
         r.row \in Rows /\ r.qty \in -MaxInt..MaxInt
    /\ r.op = "inventory.transfer" =>
         /\ r.product \in Products /\ r.from \in Branches /\ r.to \in Branches
         /\ r.qty \in -MaxInt..MaxInt

VARIABLES rows, stock, ledger, status, site, lines, done, posted, active,
          pc, req, todo, wrow, wmov, wstatus, wdone, orderLock, rowLock

tables == <<rows, stock, ledger, status, site, lines, done, posted>>
locks  == <<orderLock, rowLock>>
buffer == <<wrow, wmov, wstatus, wdone>>
vars   == <<tables, active, pc, req, todo, buffer, locks>>

SaleStatus     == {"DRAFT", "CONFIRMED", "PARTIALLY_FULFILLED", "FULFILLED",
                   "COMPLETED", "CANCELLED"}
PurchaseStatus == {"DRAFT", "ORDERED", "PARTIALLY_RECEIVED", "RECEIVED",
                   "COMPLETED", "CANCELLED"}
Absent         == "ABSENT"      \* no such row in sales or purchases
Status         == SaleStatus \cup PurchaseStatus \cup {Absent}

-----------------------------------------------------------------------------
(* Go's int64 sum of two int64 values.                                     *)
Wrap(n) ==
  IF n > MaxInt THEN n - 2 * (MaxInt + 1)
  ELSE IF n < -(MaxInt + 1) THEN n + 2 * (MaxInt + 1)
  ELSE n

Fault_QuantityAllowed(n) == TRUE          \* the table without its CHECK
(* CHECK (quantity >= 0) on inventory.                                      *)
QuantityAllowed(n) == n >= 0

(* The order in which one transaction locks inventory rows.                *)
Before(q, r) == q[1] < r[1] \/ (q[1] = r[1] /\ q[2] < r[2])

Fault_NextRow(s, r) == r \in todo[s]      \* in the order of the request
(* r is the row session s locks next: the least of those it has left.      *)
NextRow(s, r) == r \in todo[s] /\ \A q \in todo[s] \ {r} : Before(r, q)

Fault_RowFree(r)   == TRUE                \* SELECT without FOR UPDATE

RowFree(r)   == rowLock[r] = NoOne
OrderFree(o) == orderLock[o] = NoOne

HasItems(o)  == \E p \in Products : lines[o][p] > 0
ItemRows(o)  == {r \in Rows : r[2] = site[o] /\ lines[o][r[1]] > 0}
InputRows(o, items) == {r \in Rows : r[2] = site[o] /\ items[r[1]] > 0}

-----------------------------------------------------------------------------
Init ==
  /\ rows   = DOMAIN Opening
  /\ stock  = [r \in Rows |-> IF r \in DOMAIN Opening THEN Opening[r] ELSE 0]
  /\ ledger = stock
  /\ status = [o \in Orders |-> IF o \in DOMAIN Drafts THEN "DRAFT" ELSE Absent]
  /\ site   = [o \in Orders |-> IF o \in DOMAIN Drafts THEN Drafts[o].site
                                ELSE CHOOSE b \in Branches : TRUE]
  /\ lines  = [o \in Orders |-> IF o \in DOMAIN Drafts THEN Drafts[o].lines
                                ELSE [p \in Products |-> 0]]
  /\ done   = [o \in Orders |-> [p \in Products |-> 0]]
  /\ posted = [o \in Orders |-> [p \in Products |-> 0]]
  /\ active = Products
  /\ pc  = [s \in Sessions |-> "idle"]
  /\ req = [s \in Sessions |-> NoRequest]
  /\ todo = [s \in Sessions |-> {}]
  /\ wrow = [s \in Sessions |-> [r \in Rows |-> 0]]
  /\ wmov = [s \in Sessions |-> [r \in Rows |-> 0]]
  /\ wstatus = [s \in Sessions |-> Absent]
  /\ wdone = [s \in Sessions |-> [p \in Products |-> 0]]
  /\ orderLock = [o \in Orders |-> NoOne]
  /\ rowLock   = [r \in Rows |-> NoOne]

-----------------------------------------------------------------------------
(* A request arrives and its checks outside the transaction have passed.   *)
Start(s, r, at) ==
  /\ pc[s] = "idle"
  /\ pc'  = [pc EXCEPT ![s] = at]
  /\ req' = [req EXCEPT ![s] = r]
  /\ UNCHANGED <<tables, active, todo, buffer, locks>>

(* The transaction is over: its locks are free, its buffers are gone.      *)
End(s) ==
  /\ pc'   = [pc EXCEPT ![s] = "idle"]
  /\ req'  = [req EXCEPT ![s] = NoRequest]
  /\ todo' = [todo EXCEPT ![s] = {}]
  /\ wrow' = [wrow EXCEPT ![s] = [r \in Rows |-> 0]]
  /\ wmov' = [wmov EXCEPT ![s] = [r \in Rows |-> 0]]
  /\ wstatus' = [wstatus EXCEPT ![s] = Absent]
  /\ wdone' = [wdone EXCEPT ![s] = [p \in Products |-> 0]]
  /\ orderLock' = [o \in Orders |-> IF orderLock[o] = s THEN NoOne ELSE orderLock[o]]
  /\ rowLock' = [r \in Rows |-> IF rowLock[r] = s THEN NoOne ELSE rowLock[r]]

(* ROLLBACK: nothing the transaction wrote is ever seen.                   *)
Rollback(s) == End(s) /\ UNCHANGED <<tables, active>>

(* SELECT ... FOR UPDATE of the order, its status passed every check: the  *)
(* transaction will lock the rows in need and then write status st.        *)
HoldOrder(s, o, need, st) ==
  /\ orderLock' = [orderLock EXCEPT ![o] = s]
  /\ wstatus' = [wstatus EXCEPT ![s] = st]
  /\ wdone' = [wdone EXCEPT ![s] = done[o]]
  /\ todo' = [todo EXCEPT ![s] = need]
  /\ pc' = [pc EXCEPT ![s] = IF need = {} THEN "commit" ELSE "items"]
  /\ UNCHANGED <<tables, active, req, wrow, wmov, rowLock>>

(* The request returns without rolling back: the order stays locked until  *)
(* the request's context is cancelled.                                     *)
Leak(s, o) ==
  /\ orderLock' = [orderLock EXCEPT ![o] = s]
  /\ pc' = [pc EXCEPT ![s] = "leaked"]
  /\ UNCHANGED <<tables, active, req, todo, buffer, rowLock>>

(* Row r is locked, quantity q is written and a movement of d is inserted; *)
(* n is what the item's progress (fulfilled, received) grows by.           *)
WriteRow(s, r, q, d, n) ==
  /\ rowLock' = [rowLock EXCEPT ![r] = s]
  /\ wrow' = [wrow EXCEPT ![s][r] = q]
  /\ wmov' = [wmov EXCEPT ![s][r] = d]
  /\ wdone' = [wdone EXCEPT ![s][r[1]] = @ + n]
  /\ todo' = [todo EXCEPT ![s] = @ \ {r}]
  /\ pc' = [pc EXCEPT ![s] = IF todo[s] \subseteq {r} THEN "commit" ELSE "items"]
  /\ UNCHANGED <<tables, active, req, wstatus, orderLock>>

-----------------------------------------------------------------------------
(* COMMIT, in parts: inventory rows and movements ...                      *)
PublishStock(s) ==
  /\ rows'   = rows \cup {r \in Rows : rowLock[r] = s}
  /\ stock'  = [r \in Rows |-> IF rowLock[r] = s THEN wrow[s][r] ELSE stock[r]]
  /\ ledger' = [r \in Rows |-> ledger[r] + wmov[s][r]]

(* ... and the order.                                                      *)
PublishOrder(s, o) ==
  /\ status' = [status EXCEPT ![o] = wstatus[s]]
  /\ done'   = [done EXCEPT ![o] = wdone[s]]
  /\ posted' = [posted EXCEPT ![o] =
                  [p \in Products |-> posted[o][p] + wmov[s][<<p, site[o]>>]]]
  /\ UNCHANGED <<site, lines>>

CommitOrder(s) ==
  /\ pc[s] = "commit" /\ req[s].op \in OrderOps
  /\ PublishStock(s)
  /\ PublishOrder(s, req[s].order)
  /\ End(s)
  /\ UNCHANGED active

CommitInventory(s) ==
  /\ pc[s] = "commit" /\ req[s].op \in InventoryOps
  /\ PublishStock(s)
  /\ End(s)
  /\ UNCHANGED <<active, status, site, lines, done, posted>>

(* A new order becomes visible, in status DRAFT, under an unused id.       *)
CommitCreate(s, o) ==
  /\ pc[s] = "commit" /\ req[s].op \in CreateOps
  /\ status[o] = Absent
  /\ status' = [status EXCEPT ![o] = "DRAFT"]
  /\ site'   = [site EXCEPT ![o] = req[s].cart.site]
  /\ lines'  = [lines EXCEPT ![o] = req[s].cart.lines]
  /\ End(s)
  /\ UNCHANGED <<rows, stock, ledger, done, posted, active>>

(* A statement fails, the user may not use the branch, or the client goes  *)
(* away and the request's context is cancelled: the driver rolls back.     *)
Abort(s) ==
  /\ pc[s] \notin {"idle", "leaked"}
  /\ Rollback(s)

\* The transaction was begun with a context that outlives the request.
Fault_EndRequest(s) ==
  /\ pc[s] = "leaked"
  /\ pc'  = [pc EXCEPT ![s] = "idle"]
  /\ req' = [req EXCEPT ![s] = NoRequest]
  /\ UNCHANGED <<tables, active, todo, buffer, locks>>

(* The HTTP request of a leaked transaction ends and cancels its context.  *)
EndRequest(s) ==
  /\ pc[s] = "leaked"
  /\ Rollback(s)

(* products.Update or SoftDelete, seen from here: is_active switches.      *)
SetProductActive(p) ==
  /\ p \in Toggled
  /\ active' = IF p \in active THEN active \ {p} ELSE active \cup {p}
  /\ UNCHANGED <<tables, pc, req, todo, buffer, locks>>
=============================================================================
