------------------------------ MODULE Inventory ------------------------------
(***************************************************************************)
(* backend/internal/inventory/service.go: opening a stock row, adjusting   *)
(* it, and moving stock between two branches.  Each request reads whether  *)
(* its product is active before its transaction begins.                    *)
(***************************************************************************)
EXTENDS StockTx

(* CreateInventory refuses a negative quantity before the transaction.     *)
RequestInventoryCreate(s) ==
  \E r \in Requests :
    /\ r.op = "inventory.create"
    /\ r.row[1] \in active /\ r.qty >= 0
    /\ Start(s, r, "insert")

(* INSERT: the unique (product, branch) key makes it fail if the row is    *)
(* there, and wait for a transaction that is inserting it.                 *)
CreateInventory(s) ==
  /\ pc[s] = "insert"
  /\ LET r == req[s].row
     IN IF r \in rows THEN Rollback(s)
        ELSE RowFree(r) /\ WriteRow(s, r, req[s].qty, req[s].qty, 0)

-----------------------------------------------------------------------------
(* AdjustStock resolves the inventory id to its product and branch without *)
(* a lock, then refuses a zero delta.                                      *)
RequestAdjust(s) ==
  \E r \in Requests :
    /\ r.op = "inventory.adjust"
    /\ r.row \in rows /\ r.row[1] \in active /\ r.qty # 0
    /\ Start(s, r, "adjust")

AdjustStock(s) ==
  /\ pc[s] = "adjust"
  /\ LET r == req[s].row
         new == Wrap(stock[r] + req[s].qty)
     IN /\ RowFree(r)
        /\ IF r \notin rows \/ new < 0 THEN Rollback(s)
           ELSE WriteRow(s, r, new, req[s].qty, 0)

-----------------------------------------------------------------------------
RequestTransfer(s) ==
  \E r \in Requests :
    /\ r.op = "inventory.transfer"
    /\ r.from # r.to /\ r.qty > 0 /\ r.product \in active
    /\ Start(s, r, "transfer")

(* Both rows are to be locked, lower branch id first.                      *)
BeginTransfer(s) ==
  /\ pc[s] = "transfer"
  /\ todo' = [todo EXCEPT ![s] = {<<req[s].product, req[s].from>>,
                                  <<req[s].product, req[s].to>>}]
  /\ pc' = [pc EXCEPT ![s] = "pair"]
  /\ UNCHANGED <<tables, active, req, buffer, locks>>

(* The source must exist; the destination is inserted when it does not.    *)
LockTransferRow(s) ==
  \E r \in todo[s] :
    /\ pc[s] = "pair" /\ NextRow(s, r)
    /\ LET isSource == r = <<req[s].product, req[s].from>>
       IN IF isSource /\ r \notin rows THEN Rollback(s)
          ELSE /\ RowFree(r)
               /\ rowLock' = [rowLock EXCEPT ![r] = s]
               /\ wrow' = [wrow EXCEPT ![s][r] = IF r \in rows THEN stock[r] ELSE 0]
               /\ todo' = [todo EXCEPT ![s] = @ \ {r}]
               /\ pc' = [pc EXCEPT ![s] = IF todo[s] = {r} THEN "move" ELSE "pair"]
               /\ UNCHANGED <<tables, active, req, wmov, wstatus, wdone, orderLock>>

\* Only the movement out of the source is recorded.
Fault_MoveStock(s) ==
  /\ pc[s] = "move"
  /\ LET q    == req[s].qty
         src  == <<req[s].product, req[s].from>>
         dest == <<req[s].product, req[s].to>>
         new  == Wrap(wrow[s][dest] + q)
     IN IF wrow[s][src] < q \/ ~QuantityAllowed(new) THEN Rollback(s)
        ELSE /\ wrow' = [wrow EXCEPT ![s][src] = @ - q, ![s][dest] = new]
             /\ wmov' = [wmov EXCEPT ![s][src] = -q]
             /\ pc' = [pc EXCEPT ![s] = "commit"]
             /\ UNCHANGED <<tables, active, req, todo, wstatus, wdone, locks>>

MoveStock(s) ==
  /\ pc[s] = "move"
  /\ LET q    == req[s].qty
         src  == <<req[s].product, req[s].from>>
         dest == <<req[s].product, req[s].to>>
         new  == Wrap(wrow[s][dest] + q)
     IN IF wrow[s][src] < q \/ ~QuantityAllowed(new) THEN Rollback(s)
        ELSE /\ wrow' = [wrow EXCEPT ![s][src] = @ - q, ![s][dest] = new]
             /\ wmov' = [wmov EXCEPT ![s][src] = -q, ![s][dest] = q]
             /\ pc' = [pc EXCEPT ![s] = "commit"]
             /\ UNCHANGED <<tables, active, req, todo, wstatus, wdone, locks>>

-----------------------------------------------------------------------------
InventoryRequest(s) ==
  RequestInventoryCreate(s) \/ RequestAdjust(s) \/ RequestTransfer(s)

InventoryStep(s) ==
  \/ CreateInventory(s)
  \/ AdjustStock(s)
  \/ BeginTransfer(s)
  \/ LockTransferRow(s)
  \/ MoveStock(s)
=============================================================================
