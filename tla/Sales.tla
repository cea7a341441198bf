------------------------------- MODULE Sales -------------------------------
(***************************************************************************)
(* backend/internal/sales/service.go: what each request does to the sale   *)
(* and to the stock of its branch, one action per step that other requests *)
(* can come between.  Permission checks happen before Start and are left   *)
(* out; every other refusal ends in Rollback.                              *)
(***************************************************************************)
EXTENDS StockTx

(* CreateSale reads its products before the transaction begins.            *)
RequestSaleCreate(s) ==
  \E r \in Requests :
    /\ r.op = "sale.create"
    /\ \E p \in Products : r.cart.lines[p] > 0
    /\ \A p \in Products : r.cart.lines[p] > 0 => p \in active
    /\ Start(s, r, "commit")

CreateSale(s) ==
  /\ req[s].op = "sale.create"
  /\ \E o \in Sales : CommitCreate(s, o)

(* FulfillSale refuses an empty list before it begins a transaction.       *)
RequestSale(s) ==
  \E r \in Requests :
    /\ r.op \in SaleOps
    /\ r.op = "sale.fulfill" => \E p \in Products : r.items[p] # 0
    /\ Start(s, r, "lock")

(* GetSaleByIDForUpdate: wait for the lock; no such sale is an error.      *)
SaleLocked(s, op, o) ==
  /\ pc[s] = "lock" /\ req[s].op = op /\ req[s].order = o
  /\ status[o] # Absent /\ OrderFree(o)

SaleNotFound(s) ==
  /\ pc[s] = "lock" /\ req[s].op \in SaleOps
  /\ status[req[s].order] = Absent
  /\ Rollback(s)

-----------------------------------------------------------------------------
\* No check that the sale is a draft.
Fault_ConfirmSale(s) ==
  \E o \in Sales :
    /\ SaleLocked(s, "sale.confirm", o)
    /\ IF HasItems(o) THEN HoldOrder(s, o, {}, "CONFIRMED") ELSE Leak(s, o)

(* ConfirmSale has an unnamed result: a refusal returns an error that the  *)
(* deferred function does not see, so nothing is rolled back.              *)
ConfirmSale(s) ==
  \E o \in Sales :
    /\ SaleLocked(s, "sale.confirm", o)
    /\ IF status[o] = "DRAFT" /\ HasItems(o)
       THEN HoldOrder(s, o, {}, "CONFIRMED")
       ELSE Leak(s, o)

(* An input list that names a line twice is refused, so an accepted list   *)
(* is a function from products (one line each) to quantities.              *)
FulfillmentValid(o, items) ==
  \A p \in Products : items[p] # 0 =>
    items[p] > 0 /\ items[p] <= lines[o][p] - done[o][p]

\* One fulfilled line is taken for all.
Fault_FulfilledStatus(o, items) ==
  IF \E p \in Products : lines[o][p] > 0 /\ done[o][p] + items[p] >= lines[o][p]
  THEN "FULFILLED" ELSE "PARTIALLY_FULFILLED"

FulfilledStatus(o, items) ==
  IF \A p \in Products : done[o][p] + items[p] >= lines[o][p]
  THEN "FULFILLED" ELSE "PARTIALLY_FULFILLED"

FulfillSale(s) ==
  \E o \in Sales :
    /\ SaleLocked(s, "sale.fulfill", o)
    /\ LET items == req[s].items
       IN IF /\ status[o] \in {"CONFIRMED", "PARTIALLY_FULFILLED"}
             /\ FulfillmentValid(o, items)
          THEN HoldOrder(s, o, InputRows(o, items), FulfilledStatus(o, items))
          ELSE Rollback(s)

\* A confirmed sale may be completed as well, all its lines at once.
Fault_CompleteSale(s) ==
  \E o \in Sales :
    /\ SaleLocked(s, "sale.complete", o)
    /\ IF status[o] \notin {"COMPLETED", "CANCELLED"} /\ HasItems(o)
       THEN HoldOrder(s, o, ItemRows(o), "COMPLETED")
       ELSE Rollback(s)

CompleteSale(s) ==
  \E o \in Sales :
    /\ SaleLocked(s, "sale.complete", o)
    /\ IF status[o] = "DRAFT" /\ HasItems(o)
       THEN HoldOrder(s, o, ItemRows(o), "COMPLETED")
       ELSE Rollback(s)

CancelSale(s) ==
  \E o \in Sales :
    /\ SaleLocked(s, "sale.cancel", o)
    /\ CASE status[o] = "DRAFT" -> HoldOrder(s, o, {}, "CANCELLED")
         [] status[o] = "COMPLETED" /\ HasItems(o) ->
              HoldOrder(s, o, ItemRows(o), "CANCELLED")
         [] OTHER -> Rollback(s)

-----------------------------------------------------------------------------
(* The loops over the order's lines, in ascending (product, branch) order: *)
(* each turn locks the row (GetByProductAndBranchForUpdate), checks it and *)
(* writes it.                                                              *)
NextSaleRow(s, op, r) == pc[s] = "items" /\ req[s].op = op /\ NextRow(s, r)

SaleRowMissing(s) ==
  /\ \E op \in SaleOps, r \in todo[s] : NextSaleRow(s, op, r) /\ r \notin rows
  /\ Rollback(s)

FulfillItem(s) ==
  \E r \in todo[s] :
    /\ NextSaleRow(s, "sale.fulfill", r) /\ r \in rows /\ RowFree(r)
    /\ LET q == req[s].items[r[1]]
       IN IF stock[r] < q THEN Rollback(s)
          ELSE WriteRow(s, r, stock[r] - q, -q, q)

CompleteSaleItem(s) ==
  \E r \in todo[s] :
    /\ NextSaleRow(s, "sale.complete", r) /\ r \in rows /\ RowFree(r)
    /\ LET q == lines[req[s].order][r[1]]
       IN IF stock[r] < q THEN Rollback(s)
          ELSE WriteRow(s, r, stock[r] - q, -q, 0)

CancelSaleItem(s) ==
  \E r \in todo[s] :
    /\ NextSaleRow(s, "sale.cancel", r) /\ r \in rows /\ RowFree(r)
    /\ LET q == lines[req[s].order][r[1]]
           new == Wrap(stock[r] + q)
       IN IF QuantityAllowed(new) THEN WriteRow(s, r, new, q, 0)
          ELSE Rollback(s)

-----------------------------------------------------------------------------
SaleRequest(s) == RequestSaleCreate(s) \/ RequestSale(s)

SaleStep(s) ==
  \/ CreateSale(s)
  \/ SaleNotFound(s)
  \/ ConfirmSale(s)
  \/ FulfillSale(s)
  \/ CompleteSale(s)
  \/ CancelSale(s)
  \/ SaleRowMissing(s)
  \/ FulfillItem(s)
  \/ CompleteSaleItem(s)
  \/ CancelSaleItem(s)
=============================================================================
