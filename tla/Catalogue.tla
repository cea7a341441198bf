----------------------------- MODULE Catalogue -----------------------------
(***************************************************************************)
(* Products and the categories they refer to                               *)
(* (backend/internal/master/products and categories).  Versions and        *)
(* deletion of products are those of VersionedRecords; here a product has  *)
(* two unique keys, of which the barcode is optional, and a foreign key,   *)
(* and its checks before the transaction are one statement each.  A        *)
(* category is really deleted.  Creating and editing one is as in          *)
(* VersionedRecords and left out.                                          *)
(*                                                                         *)
(*   products, categories   the committed rows; categories that exist      *)
(*   rowLock        the transaction that holds a product's row             *)
(*   catLock        the transaction that deletes a category                *)
(*   catSharers     the transactions whose foreign key checks keep it      *)
(*   req, pc        what each session asks for, and its next statement     *)
(*   view           the product each session has loaded, with its version  *)
(***************************************************************************)
EXTENDS Naturals

CONSTANTS
  Sessions, Products, Categories, Skus, Barcodes,
  Asks,        (* what clients ask                                         *)
  MaxVersion,  (* bound: no author starts an update of a newer version     *)
  None         (* no session, product, category, SKU or barcode            *)

Ops == {"product.create", "product.update", "product.delete", "category.delete"}

(* The keys and the category a product shall have, or the category to go.  *)
Requests == [op : Ops, product : Products \cup {None}, sku : Skus \cup {None},
             barcode : Barcodes \cup {None}, category : Categories \cup {None}]
Request(op, p, sku, barcode, c) ==
  [op |-> op, product |-> p, sku |-> sku, barcode |-> barcode, category |-> c]
NoRequest == Request("none", None, None, None, None)

ASSUME CatalogueAssumption ==
  /\ MaxVersion \in Nat \ {0} /\ Asks \subseteq Requests
  /\ \A q \in Asks : q.op \in {"product.update", "product.delete"} =>
                      q.product \in Products
  (* validateProduct refuses a product without a SKU.                      *)
  /\ \A q \in Asks : q.op \in {"product.create", "product.update"} =>
                      q.sku \in Skus
  /\ None \notin Sessions \cup Products \cup Categories \cup Skus \cup Barcodes

VARIABLES products, categories, rowLock, catLock, catSharers, req, pc, view

tables == <<products, categories>>
locks  == <<rowLock, catLock, catSharers>>
vars   == <<tables, locks, req, pc, view>>

Absent == [version |-> 0, sku |-> None, barcode |-> None, category |-> None,
           deleted |-> FALSE]
Row(s)  == products[req[s].product]
Live(p) == products[p].version > 0 /\ ~products[p].deleted

Init ==
  /\ products = [p \in Products |-> Absent]
  /\ categories = Categories
  /\ rowLock = [p \in Products |-> None]
  /\ catLock = [c \in Categories |-> None]
  /\ catSharers = [c \in Categories |-> {}]
  /\ req  = [s \in Sessions |-> NoRequest]
  /\ pc   = [s \in Sessions |-> "idle"]
  /\ view = [s \in Sessions |-> [product |-> None, version |-> 0]]

-----------------------------------------------------------------------------
Goto(s, label) == pc' = [pc EXCEPT ![s] = label]

(* A statement that only reads, or fails.                                  *)
Read(s, from, to) ==
  /\ pc[s] = from
  /\ Goto(s, to)
  /\ UNCHANGED <<tables, locks, req, view>>

Ask(s, q, label) ==
  /\ pc[s] = "idle" /\ q \in Asks
  /\ req' = [req EXCEPT ![s] = q]
  /\ Goto(s, label)
  /\ UNCHANGED <<tables, locks, view>>

LockRow(s, p) ==
  /\ rowLock[p] \in {s, None}
  /\ rowLock' = [rowLock EXCEPT ![p] = s]
  /\ UNCHANGED <<catLock, catSharers>>

(* COMMIT or ROLLBACK.                                                     *)
End(s) ==
  /\ Goto(s, "idle")
  /\ req' = [req EXCEPT ![s] = NoRequest]
  /\ rowLock' = [p \in Products |-> IF rowLock[p] = s THEN None ELSE rowLock[p]]
  /\ catLock' = [c \in Categories |-> IF catLock[c] = s THEN None ELSE catLock[c]]
  /\ catSharers' = [c \in Categories |-> catSharers[c] \ {s}]
  /\ UNCHANGED view

Refuse(s) == End(s) /\ UNCHANGED tables

-----------------------------------------------------------------------------
(* GetByID: the author of an update knows a product and its version.       *)
Load(s, p) ==
  /\ pc[s] = "idle" /\ Live(p)
  /\ view' = [view EXCEPT ![s] = [product |-> p, version |-> products[p].version]]
  /\ UNCHANGED <<tables, locks, req, pc>>

BeginCreate(s, q) == q.op = "product.create" /\ Ask(s, q, "check_category")
BeginUpdate(s, q) ==
  /\ q.op = "product.update"
  /\ q.product = view[s].product /\ view[s].version < MaxVersion /\ Live(q.product)
  /\ Ask(s, q, "check_category")

(* validateCategory, GetBySKU and GetByBarcode, before the transaction;    *)
(* the keys of deleted products count.                                     *)
CheckCategory(s) ==
  Read(s, "check_category",
       IF req[s].category \in categories \cup {None} THEN "check_sku" ELSE "refused")

Others(s)       == {p \in Products \ {req[s].product} : products[p] # Absent}
SkuTaken(s)     == \E p \in Others(s) : products[p].sku = req[s].sku
BarcodeTaken(s) ==
  req[s].barcode # None /\ \E p \in Others(s) : products[p].barcode = req[s].barcode

CheckSku(s) == Read(s, "check_sku", IF SkuTaken(s) THEN "refused" ELSE "check_barcode")

\* The check left out, since there is an index.
Fault_CheckBarcode(s) == Read(s, "check_barcode", "write")
CheckBarcode(s) ==
  Read(s, "check_barcode", IF BarcodeTaken(s) THEN "refused" ELSE "write")

-----------------------------------------------------------------------------
\* The conditions on the version and on deleted_at are missing.
Fault_Matches(s) == TRUE
(* WHERE id = $12 AND version = $13 AND deleted_at IS NULL                 *)
Matches(s) == Row(s).version = view[s].version /\ ~Row(s).deleted

WriteRow(s) ==
  /\ pc[s] = "write" /\ req[s].op = "product.update" /\ Matches(s)
  /\ LockRow(s, req[s].product)
  /\ Goto(s, "sku")
  /\ UNCHANGED <<tables, req, view>>

(* No row matches; GetVersionStateWithTx finds out why, and ROLLBACK.      *)
WriteMissed(s) ==
  /\ pc[s] = "write" /\ req[s].op = "product.update" /\ ~Matches(s)
  /\ rowLock[req[s].product] = None
  /\ Refuse(s)

InsertRow(s, p) ==
  /\ pc[s] = "write" /\ req[s].op = "product.create"
  /\ products[p] = Absent
  /\ LockRow(s, p)
  /\ req' = [req EXCEPT ![s].product = p]
  /\ Goto(s, "sku")
  /\ UNCHANGED <<tables, view>>

(* t has a product's row and has not ended; its new keys are in the indexes*)
(* it has passed.                                                          *)
Writing(t)    == pc[t] \in {"sku", "barcode", "category", "commit", "commit_delete"}
SkuIn(t)      == pc[t] \in {"barcode", "category", "commit"}
BarcodeIn(t)  == pc[t] \in {"category", "commit"}

ContendsForSku(s, t) ==
  /\ t # s /\ Writing(t)
  /\ \/ Row(t).sku = req[s].sku
     \/ SkuIn(t) /\ req[t].sku = req[s].sku
ContendsForBarcode(s, t) ==
  /\ t # s /\ Writing(t) /\ req[s].barcode # None
  /\ \/ Row(t).barcode = req[s].barcode
     \/ BarcodeIn(t) /\ req[t].barcode = req[s].barcode

(* The unique indexes, in the order they were created.                     *)
EnterSku(s) ==
  /\ \A t \in Sessions : ~ContendsForSku(s, t)
  /\ Read(s, "sku", IF SkuTaken(s) THEN "refused" ELSE "barcode")

EnterBarcode(s) ==
  /\ \A t \in Sessions : ~ContendsForBarcode(s, t)
  /\ Read(s, "barcode", IF BarcodeTaken(s) THEN "refused" ELSE "category")

\* products.category_id without its foreign key.
Fault_KeepCategory(s) == Read(s, "category", "commit")
(* The foreign key check of a new or changed category_id: SELECT ... FOR   *)
(* KEY SHARE of the category, which must be there.                         *)
KeepCategory(s) ==
  LET c == req[s].category IN
  /\ pc[s] = "category"
  /\ IF c \in {None, Row(s).category} THEN Goto(s, "commit") /\ UNCHANGED catSharers
     ELSE /\ catLock[c] = None
          /\ IF c \in categories
             THEN /\ Goto(s, "commit")
                  /\ catSharers' = [catSharers EXCEPT ![c] = @ \cup {s}]
             ELSE Goto(s, "refused") /\ UNCHANGED catSharers
  /\ UNCHANGED <<tables, rowLock, catLock, req, view>>

Commit(s) ==
  /\ pc[s] = "commit"
  /\ products' = [products EXCEPT ![req[s].product] =
       [version |-> @.version + 1, sku |-> req[s].sku, barcode |-> req[s].barcode,
        category |-> req[s].category, deleted |-> FALSE]]
  /\ End(s)
  /\ UNCHANGED categories

-----------------------------------------------------------------------------
(* SoftDelete: GetByID, then an UPDATE of deleted_at, which leaves the     *)
(* keys and the category of the row as they are.                           *)
BeginDelete(s, q) ==
  q.op = "product.delete" /\ Live(q.product) /\ Ask(s, q, "delete")

DeleteRow(s) ==
  /\ pc[s] = "delete" /\ ~Row(s).deleted
  /\ LockRow(s, req[s].product)
  /\ Goto(s, "commit_delete")
  /\ UNCHANGED <<tables, req, view>>

(* Somebody else has deleted it, and s keeps the row if it has waited for  *)
(* it.  `if err := ...` hides the error from the deferred function: no     *)
(* rollback before the request's context ends.                             *)
DeleteMissed(s) ==
  /\ pc[s] = "delete" /\ Row(s).deleted
  /\ LockRow(s, req[s].product) \/ UNCHANGED locks
  /\ Goto(s, "leaked")
  /\ UNCHANGED <<tables, req, view>>

EndRequest(s) == pc[s] = "leaked" /\ Refuse(s)

CommitDelete(s) ==
  /\ pc[s] = "commit_delete"
  /\ products' = [products EXCEPT ![req[s].product].deleted = TRUE]
  /\ End(s)
  /\ UNCHANGED categories

-----------------------------------------------------------------------------
LiveIn(c) == {p \in Products : Live(p) /\ products[p].category = c}
Referring(c) == {p \in Products : products[p].category = c}

(* Delete of a category: Get counts its products, the deleted ones not     *)
(* included.                                                               *)
BeginCategory(s, q) ==
  /\ q.op = "category.delete" /\ q.category \in categories
  /\ Ask(s, q, "scan")

(* DELETE ... WHERE NOT EXISTS (live products), as its snapshot shows.  If *)
(* there are any, the answer is ErrInUse, or sql.ErrNoRows when Get had    *)
(* counted none.                                                           *)
ScanCategory(s) ==
  Read(s, "scan", IF LiveIn(req[s].category) # {} \/ req[s].category \notin categories
                  THEN "refused" ELSE "lock")

(* It waits for the row.                                                   *)
LockCategory(s) ==
  LET c == req[s].category IN
  /\ pc[s] = "lock"
  /\ catLock[c] = None /\ catSharers[c] \subseteq {s}
  /\ catLock' = [catLock EXCEPT ![c] = s]
  /\ Goto(s, IF c \in categories THEN "references" ELSE "refused")
  /\ UNCHANGED <<tables, rowLock, catSharers, req, view>>

(* t is changing the SKU, a key, of a product that s finds in the category *)
(* it deletes.  (The index on barcodes has a condition: they are no key.)  *)
ContendsForReference(s, t) ==
  /\ req[t].op = "product.update" /\ rowLock[req[t].product] = t
  /\ Row(t).category = req[s].category /\ Row(t).sku # req[t].sku

(* The foreign key forbids it while any product refers to the category,    *)
(* deleted or added since the scan: SELECT ... FOR KEY SHARE of a product  *)
(* that does.  (It is refused before it waits if it meets another one      *)
(* first: Abort.)                                                          *)
CheckReferences(s) ==
  /\ \A t \in Sessions : ~ContendsForReference(s, t)
  /\ Read(s, "references",
          IF Referring(req[s].category) = {} THEN "commit_category" ELSE "refused")

CommitCategory(s) ==
  /\ pc[s] = "commit_category"
  /\ categories' = categories \ {req[s].category}
  /\ End(s)
  /\ UNCHANGED products

-----------------------------------------------------------------------------
AnswerRefused(s) == pc[s] = "refused" /\ Refuse(s)

(* A statement fails, or the client or the process goes away.              *)
Abort(s) == pc[s] # "idle" /\ Refuse(s)

Step(s) ==
  \/ \E p \in Products : Load(s, p) \/ InsertRow(s, p)
  \/ \E q \in Asks :
       BeginCreate(s, q) \/ BeginUpdate(s, q) \/ BeginDelete(s, q) \/ BeginCategory(s, q)
  \/ CheckCategory(s) \/ CheckSku(s) \/ CheckBarcode(s)
  \/ WriteRow(s) \/ WriteMissed(s) \/ EnterSku(s) \/ EnterBarcode(s)
  \/ KeepCategory(s) \/ Commit(s)
  \/ DeleteRow(s) \/ DeleteMissed(s) \/ EndRequest(s) \/ CommitDelete(s)
  \/ ScanCategory(s) \/ LockCategory(s) \/ CheckReferences(s) \/ CommitCategory(s)
  \/ AnswerRefused(s) \/ Abort(s)

Next == \E s \in Sessions : Step(s)
Spec == Init /\ [][Next]_vars

-----------------------------------------------------------------------------
(* Every variable keeps its type.                                          *)
TypeOK ==
  /\ products \in [Products ->
       [version : 0..MaxVersion, sku : Skus \cup {None},
        barcode : Barcodes \cup {None}, category : Categories \cup {None},
        deleted : BOOLEAN]]
  /\ categories \subseteq Categories
  /\ rowLock \in [Products -> Sessions \cup {None}]
  /\ catLock \in [Categories -> Sessions \cup {None}]
  /\ catSharers \in [Categories -> SUBSET Sessions]
  /\ req \in [Sessions -> Requests \cup {NoRequest}]
  /\ pc \in [Sessions ->
       {"idle", "check_category", "check_sku", "check_barcode", "write", "sku",
        "barcode", "category", "commit", "delete", "commit_delete", "leaked",
        "scan", "lock", "references", "commit_category", "refused"}]
  /\ view \in [Sessions -> [product : Products \cup {None}, version : 0..MaxVersion]]

(* The category of every product exists, also of a deleted one: it is      *)
(* looked up before the transaction, a category's products are counted     *)
(* before its deletion waits for its row, and neither is looked at again   *)
(* by the services.                                                        *)
ReferencesHold ==
  \A p \in Products : products[p].category \in categories \cup {None}

-----------------------------------------------------------------------------
WaitsFor(s, t) ==
  \/ /\ \/ pc[s] = "write" /\ req[s].op = "product.update"
        \/ pc[s] = "delete" /\ ~Row(s).deleted
     /\ rowLock[req[s].product] = t
  \/ pc[s] = "sku" /\ ContendsForSku(s, t)
  \/ pc[s] = "barcode" /\ ContendsForBarcode(s, t)
  \/ /\ pc[s] = "category" /\ req[s].category \notin {None, Row(s).category}
     /\ catLock[req[s].category] = t
  \/ /\ pc[s] = "lock"
     /\ catLock[req[s].category] = t \/ t \in catSharers[req[s].category]
  \/ pc[s] = "references" /\ ContendsForReference(s, t)

(* s and t ask for one SKU, or one barcode.                                *)
Rivals(s, t) ==
  /\ s # t
  /\ {req[s].op, req[t].op} \subseteq {"product.create", "product.update"}
  /\ \/ req[s].sku = req[t].sku
     \/ req[s].barcode # None /\ req[s].barcode = req[t].barcode

(* s deletes a category that t gives to a product, while u gives another   *)
(* product, which is in the category, a new SKU.                           *)
Crossing(s, t, u) ==
  /\ req[s].op = "category.delete"
  /\ t # u /\ req[t].op \in {"product.create", "product.update"}
  /\ req[t].category = req[s].category
  /\ req[u].op = "product.update"
  /\ Row(u).category = req[s].category /\ Row(u).sku # req[u].sku

(* Requests wait for each other in a circle only if two of them ask for    *)
(* the same SKU or barcode, or one deletes a category that a second enters *)
(* and in which a third changes a SKU: the third may wait for the SKU of   *)
(* the second's product, the deletion for the third, and the second for    *)
(* the deletion.  The checks before the transaction keep those apart that  *)
(* give two products each other's keys.                                    *)
OnlyRivalsDeadlock ==
  \A D \in (SUBSET Sessions) \ {{}} :
    \/ \E s, t \in D : Rivals(s, t)
    \/ \E s, t, u \in D : Crossing(s, t, u)
    \/ \E s \in D : \A t \in D : ~WaitsFor(s, t)
=============================================================================
