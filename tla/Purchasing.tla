----------------------------- MODULE Purchasing -----------------------------
(***************************************************************************)
(* backend/internal/purchasing/service.go: what each request does to the   *)
(* purchase and to the stock of its branch.  Unlike a sale, a purchase     *)
(* creates the inventory rows it needs (EnsureInventoryWithTx), and it     *)
(* asks whether a product is active, outside its own transaction, before   *)
(* it locks that product's row.                                            *)
(***************************************************************************)
EXTENDS StockTx

RequestPurchaseCreate(s) ==
  \E r \in Requests :
    /\ r.op = "purchase.create"
    /\ \E p \in Products : r.cart.lines[p] > 0
    /\ \A p \in Products : r.cart.lines[p] > 0 => p \in active
    /\ Start(s, r, "commit")

CreatePurchase(s) ==
  /\ req[s].op = "purchase.create"
  /\ \E o \in Purchases : CommitCreate(s, o)

RequestPurchase(s) ==
  \E r \in Requests :
    /\ r.op \in PurchaseOps
    /\ r.op = "purchase.receive" => \E p \in Products : r.items[p] # 0
    /\ Start(s, r, "lock")

PurchaseLocked(s, op, o) ==
  /\ pc[s] = "lock" /\ req[s].op = op /\ req[s].order = o
  /\ status[o] # Absent /\ OrderFree(o)

PurchaseNotFound(s) ==
  /\ pc[s] = "lock" /\ req[s].op \in PurchaseOps
  /\ status[req[s].order] = Absent
  /\ Rollback(s)

-----------------------------------------------------------------------------
(* OrderPurchase refuses the way ConfirmSale does: without a rollback.     *)
OrderPurchase(s) ==
  \E o \in Purchases :
    /\ PurchaseLocked(s, "purchase.order", o)
    /\ IF status[o] = "DRAFT" /\ HasItems(o)
       THEN HoldOrder(s, o, {}, "ORDERED")
       ELSE Leak(s, o)

\* Compared with the quantity ordered, not with what remains of it.
Fault_ReceiptValid(o, items) ==
  \A p \in Products : items[p] # 0 => items[p] > 0 /\ items[p] <= lines[o][p]

ReceiptValid(o, items) ==
  \A p \in Products : items[p] # 0 =>
    items[p] > 0 /\ items[p] <= lines[o][p] - done[o][p]

\* The comparison is off by one.
Fault_ReceivedStatus(o, items) ==
  IF \E p \in Products : done[o][p] + items[p] <= lines[o][p]
  THEN "PARTIALLY_RECEIVED" ELSE "RECEIVED"

ReceivedStatus(o, items) ==
  IF \E p \in Products : done[o][p] + items[p] < lines[o][p]
  THEN "PARTIALLY_RECEIVED" ELSE "RECEIVED"

ReceivePurchase(s) ==
  \E o \in Purchases :
    /\ PurchaseLocked(s, "purchase.receive", o)
    /\ LET items == req[s].items
       IN IF /\ status[o] \in {"ORDERED", "PARTIALLY_RECEIVED"}
             /\ ReceiptValid(o, items)
          THEN HoldOrder(s, o, InputRows(o, items), ReceivedStatus(o, items))
          ELSE Rollback(s)

CompletePurchase(s) ==
  \E o \in Purchases :
    /\ PurchaseLocked(s, "purchase.complete", o)
    /\ IF status[o] = "DRAFT" /\ HasItems(o)
       THEN HoldOrder(s, o, ItemRows(o), "COMPLETED")
       ELSE Rollback(s)

CancelPurchase(s) ==
  \E o \in Purchases :
    /\ PurchaseLocked(s, "purchase.cancel", o)
    /\ CASE status[o] = "DRAFT" -> HoldOrder(s, o, {}, "CANCELLED")
         [] status[o] = "COMPLETED" /\ HasItems(o) ->
              HoldOrder(s, o, ItemRows(o), "CANCELLED")
         [] OTHER -> Rollback(s)

-----------------------------------------------------------------------------
NextPurchaseRow(s, at, op, r) == pc[s] = at /\ req[s].op = op /\ NextRow(s, r)

(* EnsureInventoryWithTx: insert the row with quantity 0 unless it exists, *)
(* then lock it.  A row another transaction is inserting makes both wait.  *)
Quantity(r) == IF r \in rows THEN stock[r] ELSE 0

(* Write the sum Go computes, unless the table's CHECK refuses it.         *)
AddToRow(s, r, q, n) ==
  LET new == Wrap(Quantity(r) + q)
  IN IF QuantityAllowed(new) THEN WriteRow(s, r, new, q, n) ELSE Rollback(s)

ReceiveItem(s) ==
  \E r \in todo[s] :
    /\ NextPurchaseRow(s, "items", "purchase.receive", r) /\ RowFree(r)
    /\ LET q == req[s].items[r[1]] IN AddToRow(s, r, q, q)

(* productSvc.GetByID for the next line, on a connection of its own.       *)
CheckProduct(s) ==
  \E op \in {"purchase.complete", "purchase.cancel"}, r \in todo[s] :
    /\ NextPurchaseRow(s, "items", op, r)
    /\ IF r[1] \in active
       THEN /\ pc' = [pc EXCEPT ![s] = "checked"]
            /\ UNCHANGED <<tables, active, req, todo, buffer, locks>>
       ELSE Rollback(s)

CompletePurchaseItem(s) ==
  \E r \in todo[s] :
    /\ NextPurchaseRow(s, "checked", "purchase.complete", r) /\ RowFree(r)
    /\ AddToRow(s, r, lines[req[s].order][r[1]], 0)

(* A missing row is reported as insufficient stock.                        *)
CancelPurchaseItem(s) ==
  \E r \in todo[s] :
    /\ NextPurchaseRow(s, "checked", "purchase.cancel", r)
    /\ r \in rows => RowFree(r)
    /\ LET q == lines[req[s].order][r[1]]
       IN IF r \notin rows \/ stock[r] - q < 0 THEN Rollback(s)
          ELSE WriteRow(s, r, stock[r] - q, -q, 0)

-----------------------------------------------------------------------------
PurchaseRequest(s) == RequestPurchaseCreate(s) \/ RequestPurchase(s)

PurchaseStep(s) ==
  \/ CreatePurchase(s)
  \/ PurchaseNotFound(s)
  \/ OrderPurchase(s)
  \/ ReceivePurchase(s)
  \/ CompletePurchase(s)
  \/ CancelPurchase(s)
  \/ ReceiveItem(s)
  \/ CheckProduct(s)
  \/ CompletePurchaseItem(s)
  \/ CancelPurchaseItem(s)
=============================================================================
