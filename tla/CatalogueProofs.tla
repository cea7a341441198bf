-------------------------- MODULE CatalogueProofs --------------------------
(***************************************************************************)
(* Proofs about Catalogue, for every set of sessions, products, categories *)
(* and keys.                                                               *)
(***************************************************************************)
EXTENDS Catalogue, TLAPS

Asking     == {"check_category", "check_sku", "check_barcode", "write"}
Written    == {"sku", "barcode", "category", "commit"}
Removing   == {"references", "commit_category"}

(* What the statement s runs next knows of its request and its locks.      *)
ProductOK(s) ==
  /\ pc[s] \in Asking /\ req[s].op = "product.update" =>
       req[s].product \in Products /\ view[s].version < MaxVersion
  /\ pc[s] \in {"delete", "commit_delete"} => req[s].product \in Products
  /\ pc[s] \in Asking \cup Written => req[s] \in Requests
  /\ pc[s] \in Written =>
       /\ req[s].product \in Products /\ rowLock[req[s].product] = s
       /\ Row(s).version < MaxVersion
  /\ pc[s] = "commit_delete" => rowLock[req[s].product] = s
  /\ pc[s] = "commit" =>
       req[s].category \in {None, Row(s).category}
         \/ (req[s].category \in Categories /\ s \in catSharers[req[s].category])

(* A deletion that holds a category shares it with nobody; when it commits,*)
(* nothing refers to the category.                                         *)
CategoryOK(s) ==
  /\ pc[s] \in {"scan", "lock"} \cup Removing =>
       req[s].op = "category.delete" /\ req[s].category \in Categories
  /\ pc[s] \in Removing =>
       catLock[req[s].category] = s /\ catSharers[req[s].category] = {}
  /\ pc[s] = "commit_category" => Referring(req[s].category) = {}
  /\ \A c \in Categories : s \in catSharers[c] =>
       pc[s] \in {"commit", "refused"} /\ c \in categories

IInv == TypeOK /\ ReferencesHold /\ \A s \in Sessions : ProductOK(s) /\ CategoryOK(s)

(* What a step of s leaves to the others; nobody gets to share a category  *)
(* that is being deleted.                                                  *)
Kept(s) ==
  /\ \A t \in Sessions \ {s} :
       /\ pc'[t] = pc[t] /\ req'[t] = req[t] /\ view'[t] = view[t]
       /\ \A p \in Products : rowLock[p] = t => rowLock'[p] = t
       /\ \A c \in Categories : /\ catLock[c] = t => catLock'[c] = t
                                /\ t \in catSharers'[c] <=> t \in catSharers[c]
  /\ \A c \in Categories :
       s \in catSharers'[c] => s \in catSharers[c] \/ catLock[c] = None

-----------------------------------------------------------------------------
LEMMA InitHolds == Init => IInv
BY CatalogueAssumption
DEF Init, IInv, TypeOK, ReferencesHold, ProductOK, CategoryOK, Absent, Request,
    NoRequest, Asking, Written, Removing

LEMMA SharersStay ==
  ASSUME TypeOK, TypeOK', NEW s \in Sessions, Kept(s), NEW c \in Categories,
         NEW t \in Sessions \ {s}, catLock[c] = t, catSharers[c] = {}
  PROVE  catSharers'[c] = {}
<1>1. None \notin Sessions
  BY CatalogueAssumption
<1> QED BY <1>1 DEF Kept, TypeOK

(* A step that leaves the tables alone.                                    *)
LEMMA QuietStep ==
  ASSUME IInv, NEW s \in Sessions, UNCHANGED tables, TypeOK', Kept(s),
         ProductOK(s)', CategoryOK(s)'
  PROVE  IInv'
<1>1. ReferencesHold'
  BY DEF IInv, ReferencesHold, tables
<1>2. ASSUME NEW t \in Sessions \ {s}
      PROVE  ProductOK(t)' /\ CategoryOK(t)'
  <2>1. /\ ProductOK(t) /\ CategoryOK(t) /\ TypeOK
        /\ pc'[t] = pc[t] /\ req'[t] = req[t] /\ view'[t] = view[t]
        /\ Row(t)' = Row(t)
    BY DEF IInv, Kept, Row, tables
  <2>2. ProductOK(t)'
    BY <2>1 DEF ProductOK, Kept
  <2>3. pc[t] \in Removing => catSharers'[req[t].category] = {}
    BY <2>1, SharersStay DEF CategoryOK
  <2>4. CategoryOK(t)'
    BY <2>1, <2>3 DEF CategoryOK, Kept, Referring, tables, Removing
  <2> QED BY <2>2, <2>4
<1> QED BY <1>1, <1>2 DEF IInv

(* A statement that reads or fails and goes on from one label to another.  *)
LEMMA ReadStep ==
  ASSUME IInv, NEW s \in Sessions, NEW from, NEW to, Read(s, from, to),
         TypeOK', ProductOK(s)', CategoryOK(s)'
  PROVE  IInv'
<1>1. Kept(s)
  BY DEF Read, Goto, Kept, IInv, TypeOK, locks
<1> QED BY <1>1, QuietStep DEF Read

LEMMA AskStep ==
  ASSUME IInv, NEW s \in Sessions, NEW q, NEW label, Ask(s, q, label),
         TypeOK', ProductOK(s)', CategoryOK(s)'
  PROVE  IInv'
<1>1. Kept(s)
  BY DEF Ask, Goto, Kept, IInv, TypeOK, locks
<1> QED BY <1>1, QuietStep DEF Ask

(* COMMIT and ROLLBACK give back what s held, and nothing else.            *)
LEMMA EndKeeps ==
  ASSUME IInv, NEW s \in Sessions, End(s)
  PROVE  /\ Kept(s) /\ pc'[s] = "idle" /\ view' = view
         /\ \A c \in Categories : s \notin catSharers'[c]
         /\ rowLock' \in [Products -> Sessions \cup {None}]
         /\ catLock' \in [Categories -> Sessions \cup {None}]
         /\ catSharers' \in [Categories -> SUBSET Sessions]
         /\ req' \in [Sessions -> Requests \cup {NoRequest}]
         /\ pc' = [pc EXCEPT ![s] = "idle"]
BY DEF End, Goto, Kept, IInv, TypeOK

LEMMA IdleOK ==
  ASSUME NEW s \in Sessions, pc'[s] = "idle",
         \A c \in Categories : s \notin catSharers'[c]
  PROVE  ProductOK(s)' /\ CategoryOK(s)'
BY DEF ProductOK, CategoryOK, Asking, Written, Removing

LEMMA RefuseStep ==
  ASSUME IInv, NEW s \in Sessions, Refuse(s)
  PROVE  IInv'
<1>1. End(s) /\ UNCHANGED tables
  BY DEF Refuse
<1>2. TypeOK'
  BY <1>1, EndKeeps DEF IInv, TypeOK, tables
<1> QED BY <1>1, <1>2, EndKeeps, IdleOK, QuietStep

-----------------------------------------------------------------------------
(* A row is locked for s if nobody else has it.                            *)
LEMMA LockRowKeeps ==
  ASSUME IInv, NEW s \in Sessions, NEW p \in Products, LockRow(s, p),
         NEW label, Goto(s, label), view' = view,
         req' = req \/ \E q \in Requests : req' = [req EXCEPT ![s] = q]
  PROVE  /\ Kept(s) /\ rowLock'[p] = s /\ pc'[s] = label
         /\ rowLock' \in [Products -> Sessions \cup {None}]
         /\ UNCHANGED <<catLock, catSharers>>
BY CatalogueAssumption DEF LockRow, Goto, Kept, IInv, TypeOK

(* The first statements of every request.                                  *)
LEMMA FirstSteps ==
  ASSUME IInv, NEW s \in Sessions, NEW q \in Asks,
         BeginCreate(s, q) \/ BeginUpdate(s, q) \/ BeginDelete(s, q)
           \/ BeginCategory(s, q)
  PROVE  IInv'
<1>1. q \in Requests
  BY CatalogueAssumption
<1>2. PICK label \in {"check_category", "delete", "scan"} :
        /\ Ask(s, q, label)
        /\ label = "check_category" =>
             \/ q.op = "product.create"
             \/ q.op = "product.update" /\ q.product = view[s].product
                  /\ view[s].version < MaxVersion
        /\ label = "delete" => q.op = "product.delete"
        /\ label = "scan" => q.op = "category.delete" /\ q.category \in categories
  BY DEF BeginCreate, BeginUpdate, BeginDelete, BeginCategory
<1>3. TypeOK'
  BY <1>1, <1>2 DEF IInv, TypeOK, Ask, Goto, tables, locks
<1>4. req'[s] = q /\ pc'[s] = label /\ view' = view /\ catSharers' = catSharers
  BY <1>2 DEF IInv, TypeOK, Ask, Goto, locks
<1>5. \A c \in Categories : s \notin catSharers[c]
  BY <1>2 DEF Ask, IInv, CategoryOK
<1>6. ProductOK(s)'
  BY <1>1, <1>2, <1>4, CatalogueAssumption DEF ProductOK, Asking, Written
<1>7. CategoryOK(s)'
  BY <1>1, <1>2, <1>4, <1>5 DEF CategoryOK, Removing, IInv, TypeOK
<1> QED BY <1>2, <1>3, <1>6, <1>7, AskStep

LEMMA LoadStep ==
  ASSUME IInv, NEW s \in Sessions, NEW p \in Products, Load(s, p)
  PROVE  IInv'
<1>1. TypeOK' /\ Kept(s) /\ UNCHANGED tables
  BY DEF Load, Kept, IInv, TypeOK, tables, locks
<1>2. ProductOK(s)' /\ CategoryOK(s)'
  BY DEF Load, IInv, ProductOK, CategoryOK, Asking, Written, Removing, locks, tables
<1> QED BY <1>1, <1>2, QuietStep

(* Checks, and statements that wait and then only read.                    *)
LEMMA ReadingSteps ==
  ASSUME IInv, NEW s \in Sessions,
         \/ CheckCategory(s) \/ CheckSku(s) \/ CheckBarcode(s)
         \/ EnterSku(s) \/ EnterBarcode(s)
         \/ ScanCategory(s) \/ CheckReferences(s)
  PROVE  IInv'
<1>1. PICK from, to :
        /\ Read(s, from, to)
        /\ \/ from \in {"check_category", "check_sku", "check_barcode"}
                /\ to \in Asking \cup {"refused"}
           \/ from \in {"sku", "barcode"} /\ to \in {"barcode", "category", "refused"}
           \/ from = "scan" /\ to \in {"lock", "refused"}
           \/ from = "references" /\ to \in {"commit_category", "refused"}
                /\ (to = "commit_category" => Referring(req[s].category) = {})
  BY Zenon DEF CheckCategory, CheckSku, CheckBarcode, EnterSku, EnterBarcode,
            ScanCategory, CheckReferences, Asking
<1>2. TypeOK' /\ pc'[s] = to /\ pc[s] = from
  BY <1>1 DEF Read, Goto, IInv, TypeOK, tables, locks, Asking
<1>3. UNCHANGED <<products, categories, rowLock, catLock, catSharers, req, view>>
  BY <1>1 DEF Read, tables, locks
<1>4. ProductOK(s) /\ CategoryOK(s)
  BY DEF IInv
<1>5. Row(s)' = Row(s) /\ Referring(req[s].category)' = Referring(req[s].category)
  BY <1>3 DEF Row, Referring
<1>6. ProductOK(s)'
  BY <1>1, <1>2, <1>3, <1>4, <1>5 DEF ProductOK, Asking, Written
<1>7. CategoryOK(s)'
  BY <1>1, <1>2, <1>3, <1>4, <1>5 DEF CategoryOK, Removing, Asking
<1> QED BY <1>1, <1>2, <1>6, <1>7, ReadStep

(* Statements that take a product's row.                                   *)
LEMMA RowSteps ==
  ASSUME IInv, NEW s \in Sessions,
         \/ WriteRow(s) \/ DeleteRow(s) \/ DeleteMissed(s)
         \/ \E p \in Products : InsertRow(s, p)
  PROVE  IInv'
<1>1. TypeOK /\ ProductOK(s) /\ CategoryOK(s)
  BY DEF IInv
<1>2. \A c \in Categories : pc[s] \in {"write", "delete"} => s \notin catSharers[c]
  BY <1>1 DEF CategoryOK
<1>3. CASE WriteRow(s)
  <2> DEFINE p == req[s].product
  <2>1. p \in Products /\ view[s].version < MaxVersion /\ Row(s).version < MaxVersion
    BY <1>1, <1>3 DEF WriteRow, ProductOK, Asking, Matches
  <2>2. /\ Kept(s) /\ rowLock'[p] = s /\ pc'[s] = "sku"
        /\ rowLock' \in [Products -> Sessions \cup {None}]
        /\ UNCHANGED <<catLock, catSharers, products, categories, req, view>>
    BY <1>3, <2>1, LockRowKeeps DEF WriteRow, tables
  <2>3. TypeOK'
    BY <1>1, <1>3, <2>2 DEF TypeOK, WriteRow, Goto
  <2>4. ProductOK(s)'
    BY <1>1, <1>3, <2>1, <2>2 DEF ProductOK, Asking, Written, Row, WriteRow
  <2>5. CategoryOK(s)'
    BY <1>2, <1>3, <2>2 DEF CategoryOK, Removing, WriteRow
  <2> QED BY <2>2, <2>3, <2>4, <2>5, QuietStep DEF tables
<1>4. CASE DeleteRow(s)
  <2> DEFINE p == req[s].product
  <2>1. p \in Products
    BY <1>1, <1>4 DEF DeleteRow, ProductOK
  <2>2. /\ Kept(s) /\ rowLock'[p] = s /\ pc'[s] = "commit_delete"
        /\ rowLock' \in [Products -> Sessions \cup {None}]
        /\ UNCHANGED <<catLock, catSharers, products, categories, req, view>>
    BY <1>4, <2>1, LockRowKeeps DEF DeleteRow, tables
  <2>3. TypeOK'
    BY <1>1, <1>4, <2>2 DEF TypeOK, DeleteRow, Goto
  <2>4. ProductOK(s)'
    BY <2>1, <2>2 DEF ProductOK, Asking, Written
  <2>5. CategoryOK(s)'
    BY <1>2, <1>4, <2>2 DEF CategoryOK, Removing, DeleteRow
  <2> QED BY <2>2, <2>3, <2>4, <2>5, QuietStep DEF tables
<1>5. ASSUME NEW p \in Products, InsertRow(s, p)
      PROVE  IInv'
  <2>1. req[s] \in Requests /\ req[s].op = "product.create"
    BY <1>1, <1>5 DEF InsertRow, ProductOK, Asking
  <2>2. PICK q \in Requests : req' = [req EXCEPT ![s] = q] /\ q.product = p
    <3>1. [req[s] EXCEPT !.product = p] \in Requests
      BY <2>1 DEF Requests
    <3> QED BY <1>5, <2>1, <3>1 DEF InsertRow, Requests
  <2>3. /\ Kept(s) /\ rowLock'[p] = s /\ pc'[s] = "sku"
        /\ rowLock' \in [Products -> Sessions \cup {None}]
        /\ UNCHANGED <<catLock, catSharers, products, categories, view>>
    BY <1>5, <2>2, LockRowKeeps DEF InsertRow, tables
  <2>4. TypeOK'
    <3>1. pc' = [pc EXCEPT ![s] = "sku"]
      BY <1>5 DEF InsertRow, Goto
    <3> QED BY <1>1, <2>2, <2>3, <3>1 DEF TypeOK
  <2>5. req'[s] = q /\ Row(s)' = Absent
    BY <1>1, <1>5, <2>2, <2>3 DEF TypeOK, Row, InsertRow
  <2>6. ProductOK(s)'
    BY <2>2, <2>3, <2>5, CatalogueAssumption DEF ProductOK, Asking, Written, Absent
  <2>7. CategoryOK(s)'
    BY <1>2, <1>5, <2>3 DEF CategoryOK, Removing, InsertRow
  <2> QED BY <2>3, <2>4, <2>6, <2>7, QuietStep DEF tables
<1>6. CASE DeleteMissed(s)
  <2> DEFINE p == req[s].product
  <2>1. p \in Products /\ pc[s] = "delete" /\ pc' = [pc EXCEPT ![s] = "leaked"]
    BY <1>1, <1>6 DEF DeleteMissed, ProductOK, Goto
  <2>2. /\ Kept(s) /\ pc'[s] = "leaked"
        /\ rowLock' \in [Products -> Sessions \cup {None}]
        /\ UNCHANGED <<catLock, catSharers, products, categories, req, view>>
    <3>1. CASE LockRow(s, p)
      BY <1>6, <2>1, <3>1, LockRowKeeps DEF DeleteMissed, tables
    <3>2. CASE UNCHANGED locks
      BY <1>1, <1>6, <2>1, <3>2 DEF DeleteMissed, Kept, TypeOK, tables, locks
    <3> QED BY <1>6, <3>1, <3>2 DEF DeleteMissed
  <2>3. TypeOK'
    BY <1>1, <2>1, <2>2 DEF TypeOK
  <2>4. ProductOK(s)'
    BY <2>1, <2>2 DEF ProductOK, Asking, Written
  <2>5. CategoryOK(s)'
    BY <1>2, <2>1, <2>2 DEF CategoryOK, Removing
  <2> QED BY <2>2, <2>3, <2>4, <2>5, QuietStep DEF tables
<1> QED BY <1>3, <1>4, <1>5, <1>6

(* The foreign key check, and the lock of the category that is deleted.    *)
LEMMA CategorySteps ==
  ASSUME IInv, NEW s \in Sessions, KeepCategory(s) \/ LockCategory(s)
  PROVE  IInv'
<1> DEFINE c == req[s].category
<1>1. TypeOK /\ ProductOK(s) /\ CategoryOK(s)
  BY DEF IInv
<1>2. \A d \in Categories : pc[s] \in {"category", "lock"} => s \notin catSharers[d]
  BY <1>1 DEF CategoryOK
<1>3. CASE KeepCategory(s)
  <2>1. /\ c \in Categories \cup {None} /\ pc[s] = "category"
        /\ UNCHANGED <<products, categories, rowLock, catLock, req, view>>
        /\ Row(s)' = Row(s)
    BY <1>1, <1>3 DEF KeepCategory, ProductOK, Written, Requests, tables, Row
  <2>2. CASE c \in {None, Row(s).category}
    <3>1. Read(s, "category", "commit")
      BY <1>3, <2>2 DEF KeepCategory, Read, locks
    <3>2. TypeOK' /\ pc'[s] = "commit" /\ catSharers' = catSharers
      BY <1>1, <3>1 DEF Read, Goto, TypeOK, tables, locks
    <3>3. ProductOK(s)'
      BY <1>1, <2>1, <2>2, <3>2 DEF ProductOK, Written, Asking
    <3>4. CategoryOK(s)'
      BY <1>2, <2>1, <3>2 DEF CategoryOK, Removing
    <3> QED BY <3>1, <3>2, <3>3, <3>4, ReadStep
  <2>3. CASE c \notin {None, Row(s).category} /\ c \in categories
    <3>1. /\ Goto(s, "commit") /\ catLock[c] = None /\ c \in Categories
          /\ catSharers' = [catSharers EXCEPT ![c] = @ \cup {s}]
      BY <1>1, <1>3, <2>3 DEF KeepCategory, TypeOK
    <3>2. /\ pc' = [pc EXCEPT ![s] = "commit"]
          /\ catSharers' \in [Categories -> SUBSET Sessions]
      BY <1>1, <3>1 DEF Goto, TypeOK
    <3>3. TypeOK'
      BY <1>1, <2>1, <3>2 DEF TypeOK
    <3>4. Kept(s)
      BY <1>1, <2>1, <3>1, <3>2 DEF Kept, TypeOK
    <3>5. pc'[s] = "commit" /\ s \in catSharers'[c]
      BY <1>1, <3>1, <3>2 DEF TypeOK
    <3>6. ProductOK(s)'
      BY <1>1, <2>1, <3>1, <3>5 DEF ProductOK, Written, Asking
    <3>7. \A d \in Categories : s \in catSharers'[d] => d \in categories
      BY <1>1, <1>2, <2>1, <2>3, <3>1 DEF TypeOK
    <3>8. CategoryOK(s)'
      BY <2>1, <3>5, <3>7 DEF CategoryOK, Removing
    <3> QED BY <2>1, <3>3, <3>4, <3>6, <3>8, QuietStep DEF tables
  <2>4. CASE c \notin {None, Row(s).category} /\ c \notin categories
    <3>1. Read(s, "category", "refused")
      BY <1>3, <2>4 DEF KeepCategory, Read, locks
    <3>2. TypeOK' /\ pc'[s] = "refused" /\ catSharers' = catSharers
      BY <1>1, <3>1 DEF Read, Goto, TypeOK, tables, locks
    <3>3. ProductOK(s)' /\ CategoryOK(s)'
      BY <1>2, <2>1, <3>2 DEF ProductOK, Written, Asking, CategoryOK, Removing
    <3> QED BY <3>1, <3>2, <3>3, ReadStep
  <2> QED BY <2>2, <2>3, <2>4
<1>4. CASE LockCategory(s)
  <2>1. c \in Categories /\ req[s].op = "category.delete"
    BY <1>1, <1>4 DEF LockCategory, CategoryOK
  <2>2. PICK label \in {"references", "refused"} :
          /\ Goto(s, label)
          /\ catLock[c] = None /\ catSharers[c] = {}
          /\ catLock' = [catLock EXCEPT ![c] = s]
          /\ UNCHANGED <<products, categories, rowLock, catSharers, req, view>>
    BY <1>2, <1>4, <2>1 DEF LockCategory, tables
  <2>3. TypeOK' /\ pc'[s] = label /\ catLock'[c] = s
    BY <1>1, <2>1, <2>2 DEF Goto, TypeOK
  <2>4. Kept(s)
    BY <1>1, <2>1, <2>2, CatalogueAssumption DEF Kept, Goto, TypeOK
  <2>5. ProductOK(s)' /\ CategoryOK(s)'
    BY <1>2, <1>4, <2>1, <2>2, <2>3
    DEF ProductOK, CategoryOK, Asking, Written, Removing, LockCategory
  <2> QED BY <2>2, <2>3, <2>4, <2>5, QuietStep DEF tables
<1> QED BY <1>3, <1>4

-----------------------------------------------------------------------------
(* COMMIT of a product: its category is one it already had, or one that s  *)
(* has kept from being deleted.                                            *)
LEMMA CommitProduct ==
  ASSUME IInv, NEW s \in Sessions, Commit(s) \/ CommitDelete(s)
  PROVE  IInv'
<1> DEFINE p == req[s].product
<1>1. TypeOK /\ ReferencesHold /\ ProductOK(s) /\ CategoryOK(s)
  BY DEF IInv
<1>2. /\ pc[s] \in {"commit", "commit_delete"} /\ p \in Products
      /\ rowLock[p] = s /\ End(s) /\ categories' = categories
  BY <1>1 DEF Commit, CommitDelete, ProductOK, Written
<1>3. PICK row \in [version : 0..MaxVersion, sku : Skus \cup {None},
                    barcode : Barcodes \cup {None},
                    category : Categories \cup {None}, deleted : BOOLEAN] :
        /\ products' = [products EXCEPT ![p] = row]
        /\ \/ row.category \in {None, products[p].category}
           \/ row.category \in Categories /\ s \in catSharers[row.category]
  <2>1. CASE Commit(s)
    <3> DEFINE row == [version |-> products[p].version + 1, sku |-> req[s].sku,
                       barcode |-> req[s].barcode, category |-> req[s].category,
                       deleted |-> FALSE]
    <3>1. req[s] \in Requests /\ products[p].version < MaxVersion
      BY <1>1, <1>2, <2>1 DEF Commit, ProductOK, Written, Row
    <3>2. row \in [version : 0..MaxVersion, sku : Skus \cup {None},
                   barcode : Barcodes \cup {None},
                   category : Categories \cup {None}, deleted : BOOLEAN]
      BY <1>1, <1>2, <3>1, CatalogueAssumption DEF TypeOK, Requests
    <3>3. products' = [products EXCEPT ![p] = row]
      BY <2>1 DEF Commit
    <3>4. \/ row.category \in {None, products[p].category}
          \/ row.category \in Categories /\ s \in catSharers[row.category]
      BY <1>1, <2>1 DEF Commit, ProductOK, Row
    <3> QED BY <3>2, <3>3, <3>4
  <2>2. CASE CommitDelete(s)
    <3> DEFINE row == [products[p] EXCEPT !.deleted = TRUE]
    <3>1. products[p] \in [version : 0..MaxVersion, sku : Skus \cup {None},
                   barcode : Barcodes \cup {None},
                   category : Categories \cup {None}, deleted : BOOLEAN]
      BY <1>1, <1>2 DEF TypeOK
    <3>2. /\ row \in [version : 0..MaxVersion, sku : Skus \cup {None},
                   barcode : Barcodes \cup {None},
                   category : Categories \cup {None}, deleted : BOOLEAN]
          /\ row.category = products[p].category
      BY <3>1
    <3>3. products' = [products EXCEPT ![p] = row]
      BY <2>2 DEF CommitDelete
    <3> QED BY <3>2, <3>3
  <2> QED BY <2>1, <2>2
<1>4. TypeOK'
  BY <1>1, <1>2, <1>3, EndKeeps DEF TypeOK
<1>5. ReferencesHold'
  BY <1>1, <1>2, <1>3 DEF ReferencesHold, CategoryOK, TypeOK
<1>6. ProductOK(s)' /\ CategoryOK(s)'
  BY <1>2, EndKeeps, IdleOK
<1>7. ASSUME NEW t \in Sessions \ {s}
      PROVE  ProductOK(t)' /\ CategoryOK(t)'
  <2>1. /\ ProductOK(t) /\ CategoryOK(t) /\ Kept(s)
        /\ pc'[t] = pc[t] /\ req'[t] = req[t] /\ view'[t] = view[t]
    BY <1>2, EndKeeps DEF IInv, Kept
  <2>2. pc[t] \in Written => Row(t)' = Row(t)
    BY <1>1, <1>2, <1>3, <2>1 DEF ProductOK, Row, TypeOK
  <2>3. ProductOK(t)'
    BY <2>1, <2>2 DEF ProductOK, Kept, Written
  <2>4. pc[t] \in Removing => catSharers'[req[t].category] = {}
    BY <1>1, <1>4, <2>1, SharersStay DEF CategoryOK
  <2>5. pc[t] = "commit_category" => Referring(req[t].category)' = {}
    <3> SUFFICES ASSUME pc[t] = "commit_category"
                 PROVE  Referring(req[t].category)' = {}
      OBVIOUS
    <3>1. /\ req[t].category \in Categories /\ catSharers[req[t].category] = {}
          /\ \A q \in Products : products[q].category # req[t].category
      BY <2>1 DEF CategoryOK, Removing, Referring
    <3>2. row.category # req[t].category
      BY <1>2, <1>3, <3>1, CatalogueAssumption
    <3> QED BY <1>1, <1>3, <2>1, <3>1, <3>2 DEF Referring, TypeOK
  <2>6. CategoryOK(t)'
    BY <1>2, <2>1, <2>4, <2>5 DEF CategoryOK, Kept, Removing
  <2> QED BY <2>3, <2>6
<1> QED BY <1>4, <1>5, <1>6, <1>7 DEF IInv

(* COMMIT of a deletion: nothing refers to the category.                   *)
LEMMA CommitCategoryStep ==
  ASSUME IInv, NEW s \in Sessions, CommitCategory(s)
  PROVE  IInv'
<1> DEFINE c == req[s].category
<1>1. TypeOK /\ ReferencesHold /\ CategoryOK(s)
  BY DEF IInv
<1>2. /\ c \in Categories /\ catSharers[c] = {} /\ Referring(c) = {}
      /\ End(s) /\ products' = products /\ categories' = categories \ {c}
  BY <1>1 DEF CommitCategory, CategoryOK, Removing
<1>3. TypeOK'
  BY <1>1, <1>2, EndKeeps DEF TypeOK
<1>4. ReferencesHold'
  BY <1>1, <1>2 DEF ReferencesHold, Referring
<1>5. ProductOK(s)' /\ CategoryOK(s)'
  BY <1>2, EndKeeps, IdleOK
<1>6. ASSUME NEW t \in Sessions \ {s}
      PROVE  ProductOK(t)' /\ CategoryOK(t)'
  <2>1. /\ ProductOK(t) /\ CategoryOK(t) /\ Kept(s)
        /\ pc'[t] = pc[t] /\ req'[t] = req[t] /\ view'[t] = view[t]
        /\ Row(t)' = Row(t) /\ Referring(req[t].category)' = Referring(req[t].category)
    BY <1>2, EndKeeps DEF IInv, Kept, Row, Referring
  <2>2. ProductOK(t)'
    BY <2>1 DEF ProductOK, Kept, Written
  <2>3. pc[t] \in Removing => catSharers'[req[t].category] = {}
    BY <1>1, <1>3, <2>1, SharersStay DEF CategoryOK
  <2>4. CategoryOK(t)'
    BY <1>2, <2>1, <2>3 DEF CategoryOK, Kept, Removing
  <2> QED BY <2>2, <2>4
<1> QED BY <1>3, <1>4, <1>5, <1>6 DEF IInv

-----------------------------------------------------------------------------
LEMMA NextStep == IInv /\ [Next]_vars => IInv'
<1> SUFFICES ASSUME IInv, [Next]_vars PROVE IInv'
  OBVIOUS
<1>1. CASE UNCHANGED vars
  BY <1>1 DEF vars, tables, locks, IInv, TypeOK, ReferencesHold, ProductOK, CategoryOK,
              Row, Referring
<1>2. ASSUME NEW s \in Sessions, Step(s)
      PROVE  IInv'
  <2>1. \/ \E p \in Products : Load(s, p)
        \/ \E q \in Asks : BeginCreate(s, q) \/ BeginUpdate(s, q)
                            \/ BeginDelete(s, q) \/ BeginCategory(s, q)
        \/ CheckCategory(s) \/ CheckSku(s) \/ CheckBarcode(s)
        \/ EnterSku(s) \/ EnterBarcode(s)
        \/ ScanCategory(s) \/ CheckReferences(s)
        \/ WriteRow(s) \/ DeleteRow(s) \/ DeleteMissed(s) \/ (\E p \in Products : InsertRow(s, p))
        \/ KeepCategory(s) \/ LockCategory(s)
        \/ Commit(s) \/ CommitDelete(s) \/ CommitCategory(s) \/ Refuse(s)
    BY <1>2 DEF Step, WriteMissed, EndRequest, AnswerRefused, Abort
  <2> QED BY <2>1, LoadStep, FirstSteps, ReadingSteps, RowSteps, CategorySteps,
             CommitProduct, CommitCategoryStep, RefuseStep
<1> QED BY <1>1, <1>2 DEF Next

THEOREM InductiveInvariant == Spec => []IInv
BY InitHolds, NextStep, PTL DEF Spec

(* Every variable of Catalogue keeps its type, in particular no version    *)
(* passes its bound and no lock has two owners.                            *)
THEOREM CatalogueTypeCorrect == Spec => []TypeOK
<1>1. IInv => TypeOK
  BY DEF IInv
<1> QED BY <1>1, InductiveInvariant, PTL

(* No product, live or deleted, refers to a category that is gone, whatever*)
(* products are created and moved while categories are deleted.            *)
THEOREM ReferencesAlwaysHold == Spec => []ReferencesHold
<1>1. IInv => ReferencesHold
  BY DEF IInv
<1> QED BY <1>1, InductiveInvariant, PTL

-----------------------------------------------------------------------------
RowHolding == Written \cup {"commit_delete", "leaked", "refused"}

(* A product's row is held between the statement that takes it and the end *)
(* of the transaction; a category that is deleted likewise.                *)
HoldersOK ==
  /\ \A p \in Products : rowLock[p] # None =>
       pc[rowLock[p]] \in RowHolding
  /\ \A c \in Categories : catLock[c] # None =>
       pc[catLock[c]] \in Removing \cup {"refused"} /\ req[catLock[c]].category = c

(* What s knows of the keys it asks for, and of the row it gives them to.  *)
KeysOK(s) ==
  /\ pc[s] \in Asking \cup Written =>
       req[s].op \in {"product.create", "product.update"} /\ req[s].sku \in Skus
  /\ pc[s] \in Asking \cup Written /\ req[s].op = "product.update" =>
       req[s].product = view[s].product
  /\ pc[s] \in Written =>
       IF req[s].op = "product.update" THEN Matches(s) ELSE Row(s) = Absent
  /\ view[s].product \in Products =>
       view[s].version <= products[view[s].product].version

(* An update past CheckSku whose condition holds as the rows are.          *)
Editing(s) ==
  /\ req[s].op = "product.update"
  /\ pc[s] \in {"check_barcode", "write", "sku", "barcode"}
  /\ Matches(s)

(* s wants a key of the row t updates, one that its checks have looked at. *)
Wants(s, t) ==
  /\ req[s].product # req[t].product
  /\ \/ Row(t).sku = req[s].sku
     \/ /\ pc[s] # "check_barcode"
        /\ req[s].barcode # None /\ Row(t).barcode = req[s].barcode

(* Updates under way never want keys of each other's rows in a circle:     *)
(* each check finds the key on no other row, and no row changes its keys   *)
(* while an update matches it.                                             *)
NoCircle ==
  \A D \in (SUBSET Sessions) \ {{}} :
    (\A s \in D : Editing(s)) => \E s \in D : \A t \in D : ~Wants(s, t)

WaitInv == HoldersOK /\ (\A s \in Sessions : KeysOK(s)) /\ NoCircle

-----------------------------------------------------------------------------
(* Steps that neither let a session start editing nor give one a new key   *)
(* to want.                                                                *)
LEMMA CircleKept ==
  ASSUME NoCircle,
         \A t \in Sessions : Editing(t)' => Editing(t),
         \A t, u \in Sessions :
           Editing(t)' /\ Editing(u)' /\ Wants(t, u)' => Wants(t, u)
  PROVE  NoCircle'
<1> SUFFICES ASSUME NEW D \in (SUBSET Sessions) \ {{}},
                    \A s \in D : Editing(s)'
             PROVE  \E s \in D : \A t \in D : ~Wants(s, t)'
  BY DEF NoCircle
<1>1. PICK s \in D : \A t \in D : ~Wants(s, t)
  BY DEF NoCircle
<1> QED BY <1>1

(* A step of s leaves the others where they are.                           *)
LEMMA OthersStay ==
  ASSUME TypeOK, NEW s \in Sessions, Step(s), NEW t \in Sessions \ {s}
  PROVE  pc'[t] = pc[t] /\ req'[t] = req[t] /\ view'[t] = view[t]
BY DEF TypeOK, Step, Load, InsertRow, BeginCreate, BeginUpdate, BeginDelete,
       BeginCategory, Ask, CheckCategory, CheckSku, CheckBarcode, Read, WriteRow,
       WriteMissed, EnterSku, EnterBarcode, KeepCategory, Commit, DeleteRow,
       DeleteMissed, EndRequest, CommitDelete, ScanCategory, LockCategory,
       CheckReferences, CommitCategory, AnswerRefused, Abort, Refuse, End, Goto,
       LockRow

(* Where an update that is under way matches a row, no row of its key can  *)
(* be absent.                                                              *)
LEMMA EditedProduct ==
  ASSUME IInv, NEW t \in Sessions, Editing(t)
  PROVE  req[t].product \in Products
BY DEF IInv, ProductOK, Editing, Asking, Written

-----------------------------------------------------------------------------
LEMMA HoldersStep ==
  ASSUME IInv, WaitInv, NEW s \in Sessions, Step(s)
  PROVE  HoldersOK'
<1>1. TypeOK /\ ProductOK(s) /\ CategoryOK(s) /\ HoldersOK
  BY DEF IInv, WaitInv
<1>2. \A t \in Sessions \ {s} : pc'[t] = pc[t] /\ req'[t] = req[t]
  BY <1>1, OthersStay
<1> USE CatalogueAssumption
<1>3. ASSUME End(s) PROVE HoldersOK'
  BY <1>1, <1>2, <1>3 DEF HoldersOK, End, TypeOK
<1>4. ASSUME UNCHANGED <<rowLock, catLock>>,
             pc[s] \in RowHolding => pc'[s] \in RowHolding,
             pc[s] \in Removing \cup {"refused"} =>
               pc'[s] \in Removing \cup {"refused"} /\ req'[s] = req[s]
      PROVE  HoldersOK'
  <2>1. ASSUME NEW p \in Products, rowLock[p] # None
        PROVE  pc'[rowLock[p]] \in RowHolding
    BY <1>1, <1>2, <1>4, <2>1 DEF HoldersOK, TypeOK
  <2>2. ASSUME NEW c \in Categories, catLock[c] # None
        PROVE  /\ pc'[catLock[c]] \in Removing \cup {"refused"}
               /\ req'[catLock[c]].category = c
    BY <1>1, <1>2, <1>4, <2>2 DEF HoldersOK, TypeOK
  <2> QED BY <1>4, <2>1, <2>2 DEF HoldersOK
<1>5. ASSUME NEW p \in Products, LockRow(s, p), pc[s] \notin Removing \cup {"refused"},
             pc'[s] \in RowHolding
      PROVE  HoldersOK'
  <2>1. /\ rowLock' = [rowLock EXCEPT ![p] = s] /\ catLock' = catLock
        /\ pc'[s] \in RowHolding
    BY <1>5 DEF LockRow
  <2>2. ASSUME NEW r \in Products, rowLock'[r] # None
        PROVE  pc'[rowLock'[r]] \in RowHolding
    BY <1>1, <1>2, <2>1, <2>2 DEF HoldersOK, TypeOK
  <2>3. ASSUME NEW c \in Categories, catLock[c] # None
        PROVE  /\ pc'[catLock[c]] \in Removing \cup {"refused"}
               /\ req'[catLock[c]].category = c
    BY <1>1, <1>2, <1>5, <2>3 DEF HoldersOK, TypeOK
  <2> QED BY <2>1, <2>2, <2>3 DEF HoldersOK
<1>6. CASE LockCategory(s)
  <2>1. /\ pc[s] = "lock" /\ req[s].category \in Categories
        /\ rowLock' = rowLock /\ catLock' = [catLock EXCEPT ![req[s].category] = s]
        /\ pc'[s] \in {"references", "refused"} /\ req' = req
    BY <1>1, <1>6 DEF LockCategory, CategoryOK, Goto, TypeOK
  <2>2. ASSUME NEW p \in Products, rowLock[p] # None
        PROVE  pc'[rowLock[p]] \in RowHolding
    BY <1>1, <1>2, <2>1, <2>2 DEF HoldersOK, TypeOK, Written, RowHolding
  <2>3. ASSUME NEW c \in Categories, catLock'[c] # None
        PROVE  /\ pc'[catLock'[c]] \in Removing \cup {"refused"}
               /\ req'[catLock'[c]].category = c
    <3>1. CASE catLock'[c] = s
      BY <1>1, <2>1, <3>1 DEF HoldersOK, TypeOK, Removing
    <3>2. CASE catLock'[c] # s
      <4>1. catLock'[c] = catLock[c] /\ catLock[c] \in Sessions \ {s}
        BY <1>1, <2>1, <2>3, <3>2 DEF TypeOK
      <4> QED BY <1>1, <1>2, <2>3, <4>1 DEF HoldersOK
    <3> QED BY <3>1, <3>2
  <2> QED BY <2>1, <2>2, <2>3 DEF HoldersOK
<1>7. ASSUME NEW p \in Products, Load(s, p) PROVE HoldersOK'
  BY <1>4, <1>7 DEF Load, locks
<1>8. ASSUME NEW q \in Asks,
             BeginCreate(s, q) \/ BeginUpdate(s, q) \/ BeginDelete(s, q) \/ BeginCategory(s, q)
      PROVE  HoldersOK'
  BY <1>4, <1>8
  DEF BeginCreate, BeginUpdate, BeginDelete, BeginCategory, Ask, locks, Written, RowHolding, Removing
<1>9. CASE CheckCategory(s) \/ CheckSku(s) \/ CheckBarcode(s) \/ ScanCategory(s)
  BY <1>4, <1>9
  DEF CheckCategory, CheckSku, CheckBarcode, ScanCategory, Read, locks,
      Written, RowHolding, Removing
<1>10. CASE EnterSku(s) \/ EnterBarcode(s) \/ CheckReferences(s)
  BY <1>1, <1>4, <1>10
  DEF EnterSku, EnterBarcode, CheckReferences, Read, Goto, TypeOK, locks, Written, RowHolding, Removing
<1>11. CASE KeepCategory(s)
  BY <1>1, <1>4, <1>11 DEF KeepCategory, Goto, TypeOK, Written, RowHolding, Removing
<1>12. CASE WriteRow(s)
  BY <1>1, <1>5, <1>12 DEF WriteRow, ProductOK, Goto, TypeOK, Written, RowHolding, Removing, Asking
<1>13. CASE DeleteRow(s) \/ DeleteMissed(s)
  <2>1. /\ pc[s] = "delete" /\ req[s].product \in Products
        /\ pc'[s] \in {"commit_delete", "leaked"}
        /\ LockRow(s, req[s].product) \/ UNCHANGED locks
    BY <1>1, <1>13 DEF DeleteRow, DeleteMissed, ProductOK, Goto, TypeOK
  <2> QED BY <1>4, <1>5, <2>1 DEF Written, RowHolding, Removing, locks
<1>14. ASSUME NEW p \in Products, InsertRow(s, p) PROVE HoldersOK'
  BY <1>1, <1>5, <1>14 DEF InsertRow, Goto, TypeOK, Written, RowHolding, Removing
<1>15. CASE \/ WriteMissed(s) \/ Commit(s) \/ CommitDelete(s) \/ CommitCategory(s)
            \/ EndRequest(s) \/ AnswerRefused(s) \/ Abort(s)
  BY <1>3, <1>15
  DEF WriteMissed, Commit, CommitDelete, CommitCategory, EndRequest, AnswerRefused,
      Abort, Refuse
<1> QED
  BY <1>6, <1>7, <1>8, <1>9, <1>10, <1>11, <1>12, <1>13, <1>14, <1>15 DEF Step

LEMMA KeysStep ==
  ASSUME IInv, WaitInv, NEW s \in Sessions, Step(s)
  PROVE  \A t \in Sessions : KeysOK(t)'
<1>1. TypeOK /\ (\A t \in Sessions : ProductOK(t) /\ KeysOK(t))
  BY DEF IInv, WaitInv
<1>2. \A t \in Sessions \ {s} : pc'[t] = pc[t] /\ req'[t] = req[t] /\ view'[t] = view[t]
  BY <1>1, OthersStay
<1> USE CatalogueAssumption
\* Steps that leave the products alone concern s only.
<1>3. ASSUME products' = products, KeysOK(s)'
      PROVE  \A t \in Sessions : KeysOK(t)'
  <2>1. ASSUME NEW t \in Sessions \ {s} PROVE KeysOK(t)'
    <3>1. /\ pc'[t] = pc[t] /\ req'[t] = req[t] /\ view'[t] = view[t]
          /\ products' = products /\ KeysOK(t)
      BY <1>1, <1>2, <1>3
    <3>2. (Matches(t)' <=> Matches(t)) /\ Row(t)' = Row(t)
      BY <3>1 DEF Matches, Row
    <3> QED BY <3>1, <3>2 DEF KeysOK
  <2> QED BY <1>3, <2>1
<1>4. ASSUME pc'[s] \notin Asking \cup Written, view' = view, products' = products
      PROVE  KeysOK(s)'
  BY <1>1, <1>4 DEF KeysOK
<1>5. ASSUME pc[s] \in Asking, pc'[s] \in Asking, UNCHANGED <<products, req, view>>
      PROVE  KeysOK(s)'
  BY <1>1, <1>5, Zenon DEF KeysOK, Asking, Written
<1>6. ASSUME pc[s] \in Written, pc'[s] \in Written, UNCHANGED <<products, req, view>>
      PROVE  KeysOK(s)'
  BY <1>1, <1>6, Zenon DEF KeysOK, Matches, Row
<1>7. ASSUME NEW p \in Products, Load(s, p) PROVE products' = products /\ KeysOK(s)'
  <2>1. /\ pc' = pc /\ pc[s] = "idle" /\ products' = products
        /\ view'[s] = [product |-> p, version |-> products[p].version]
    BY <1>1, <1>7 DEF Load, TypeOK, tables
  <2>2. products[p].version \in Nat
    BY <1>1 DEF TypeOK
  <2> QED BY <2>1, <2>2 DEF KeysOK, Asking, Written
<1>8. ASSUME NEW q \in Asks,
             BeginCreate(s, q) \/ BeginUpdate(s, q) \/ BeginDelete(s, q) \/ BeginCategory(s, q)
      PROVE  products' = products /\ KeysOK(s)'
  <2>1. UNCHANGED <<products, view>>
    BY <1>8 DEF BeginCreate, BeginUpdate, BeginDelete, BeginCategory, Ask, tables
  <2>2. CASE BeginDelete(s, q) \/ BeginCategory(s, q)
    <3>1. pc'[s] \in {"delete", "scan"}
      BY <1>1, <2>2 DEF BeginDelete, BeginCategory, Ask, Goto, TypeOK
    <3> QED BY <1>4, <2>1, <3>1 DEF Asking, Written
  <2>3. CASE BeginCreate(s, q) \/ BeginUpdate(s, q)
    <3>1. /\ pc'[s] = "check_category" /\ req'[s] = q
          /\ q.op \in {"product.create", "product.update"}
          /\ q.op = "product.update" => q.product = view[s].product
      BY <1>1, <2>3 DEF BeginCreate, BeginUpdate, Ask, Goto, TypeOK
    <3>2. q.sku \in Skus
      BY <3>1
    <3> QED BY <1>1, <2>1, <3>1, <3>2 DEF KeysOK, Asking, Written
  <2> QED BY <1>8, <2>1, <2>2, <2>3
<1>9. CASE CheckCategory(s) \/ CheckSku(s) \/ CheckBarcode(s)
  <2>1. /\ pc[s] \in Asking /\ pc'[s] \in Asking \cup {"refused"}
        /\ UNCHANGED <<products, req, view>>
    BY <1>1, <1>9
    DEF CheckCategory, CheckSku, CheckBarcode, Read, Goto, TypeOK, tables, Asking
  <2> QED BY <1>3, <1>4, <1>5, <2>1 DEF Asking, Written
<1>10. CASE EnterSku(s) \/ EnterBarcode(s) \/ KeepCategory(s)
  <2>1. /\ pc[s] \in Written /\ pc'[s] \in Written \cup {"refused"}
        /\ UNCHANGED <<products, req, view>>
    BY <1>1, <1>10
    DEF EnterSku, EnterBarcode, KeepCategory, Read, Goto, TypeOK, tables, Written
  <2> QED BY <1>3, <1>4, <1>6, <2>1 DEF Asking, Written
<1>11. CASE DeleteMissed(s) \/ ScanCategory(s) \/ CheckReferences(s) \/ LockCategory(s) \/ DeleteRow(s)
  <2>1. /\ pc'[s] \in {"leaked", "lock", "refused", "commit_category", "references",
                        "commit_delete"}
        /\ UNCHANGED <<products, view>>
    BY <1>1, <1>11
    DEF DeleteMissed, ScanCategory, CheckReferences, LockCategory, DeleteRow, Read, Goto,
        TypeOK, tables
  <2> QED BY <1>3, <1>4, <2>1 DEF Asking, Written
<1>12. CASE WriteRow(s)
  <2>1. /\ pc[s] = "write" /\ pc'[s] = "sku" /\ UNCHANGED <<products, req, view>>
        /\ req[s].op = "product.update" /\ Matches(s)
    BY <1>1, <1>12 DEF WriteRow, Goto, TypeOK, tables
  <2>2. Matches(s)'
    BY <2>1 DEF Matches, Row
  <2>3. KeysOK(s)'
    BY <1>1, <2>1, <2>2 DEF KeysOK, Asking, Written
  <2> QED BY <1>3, <2>1, <2>3
<1>13. ASSUME NEW p \in Products, InsertRow(s, p) PROVE products' = products /\ KeysOK(s)'
  <2>1. /\ pc[s] = "write" /\ pc'[s] = "sku" /\ UNCHANGED <<products, view>>
        /\ req[s].op = "product.create" /\ products[p] = Absent
        /\ req' = [req EXCEPT ![s].product = p]
    BY <1>1, <1>13 DEF InsertRow, Goto, TypeOK, tables
  <2>2. req[s] \in Requests /\ req[s].sku \in Skus
    BY <1>1, <2>1 DEF ProductOK, KeysOK, Asking
  <2>3. req'[s].product = p /\ req'[s].op = "product.create" /\ req'[s].sku = req[s].sku
    BY <1>1, <2>1, <2>2 DEF TypeOK, Requests
  <2>4. Row(s)' = Absent
    BY <2>1, <2>3 DEF Row
  <2>5. view[s].product \in Products => view[s].version <= products[view[s].product].version
    BY <1>1 DEF KeysOK
  <2> QED BY <2>1, <2>2, <2>3, <2>4, <2>5 DEF KeysOK
<1>14. ASSUME End(s), products' = products PROVE \A t \in Sessions : KeysOK(t)'
  <2>1. pc'[s] = "idle" /\ view' = view
    BY <1>1, <1>14 DEF End, Goto, TypeOK
  <2> QED BY <1>3, <1>4, <1>14, <2>1 DEF Asking, Written
<1>15. CASE Commit(s) \/ CommitDelete(s)
  <2> DEFINE p == req[s].product
  <2>1. /\ p \in Products /\ rowLock[p] = s /\ End(s)
        /\ \A r \in Products \ {p} : products'[r] = products[r]
        /\ products'[p].version >= products[p].version
    <3>1. products[p].version \in Nat
      BY <1>1, <1>15 DEF Commit, CommitDelete, ProductOK, Written, TypeOK
    <3> QED BY <1>1, <1>15, <3>1 DEF Commit, CommitDelete, ProductOK, Written, TypeOK
  <2>2. pc'[s] = "idle" /\ view' = view
    BY <1>1, <2>1 DEF End, Goto, TypeOK
  <2>3. ASSUME NEW t \in Sessions, view[t].product \in Products
        PROVE  view[t].version <= products'[view[t].product].version
    <3>1. /\ view[t].version \in Nat /\ products[view[t].product].version \in Nat
          /\ view[t].version <= products[view[t].product].version
      BY <1>1, <2>3 DEF TypeOK, KeysOK
    <3>2. CASE view[t].product = p
      <4>1. products'[p].version \in Nat
        BY <1>1, <1>15, <2>1 DEF Commit, CommitDelete, TypeOK
      <4>2. view[t].version <= products[p].version /\ products[p].version \in Nat
        BY <3>1, <3>2
      <4>3. view[t].version <= products'[p].version
        BY <2>1, <3>1, <4>1, <4>2
      <4> QED BY <3>2, <4>3
    <3>3. CASE view[t].product # p
      BY <2>1, <2>3, <3>1, <3>3
    <3> QED BY <3>2, <3>3
  <2>4. ASSUME NEW t \in Sessions \ {s}, pc[t] \in Written
        PROVE  Row(t)' = Row(t) /\ (Matches(t)' <=> Matches(t))
    <3>1. req[t].product \in Products \ {p}
      BY <1>1, <2>1, <2>4 DEF ProductOK
    <3> QED BY <1>2, <2>1, <3>1 DEF Row, Matches
  <2>5. KeysOK(s)'
    BY <2>2, <2>3 DEF KeysOK, Asking, Written
  <2>6. ASSUME NEW t \in Sessions \ {s} PROVE KeysOK(t)'
    BY <1>1, <1>2, <2>3, <2>4 DEF KeysOK
  <2> QED BY <2>5, <2>6
<1>16. CASE \/ WriteMissed(s) \/ CommitCategory(s) \/ EndRequest(s) \/ AnswerRefused(s)
            \/ Abort(s)
  BY <1>14, <1>16
  DEF WriteMissed, CommitCategory, EndRequest, AnswerRefused, Abort, Refuse, tables
<1> QED
  BY <1>3, <1>7, <1>8, <1>9, <1>10, <1>11, <1>12, <1>13, <1>15, <1>16 DEF Step

LEMMA CircleStep ==
  ASSUME IInv, WaitInv, NEW s \in Sessions, Step(s)
  PROVE  NoCircle'
<1>1. TypeOK /\ (\A t \in Sessions : ProductOK(t) /\ KeysOK(t)) /\ NoCircle
  BY DEF IInv, WaitInv
<1>2. \A t \in Sessions \ {s} : pc'[t] = pc[t] /\ req'[t] = req[t] /\ view'[t] = view[t]
  BY <1>1, OthersStay
\* The products stay, and s does not come to edit or to want another key.
<1>3. ASSUME products' = products,
             Editing(s)' => /\ Editing(s) /\ req'[s] = req[s]
                            /\ pc[s] = "check_barcode" => pc'[s] = "check_barcode"
      PROVE  NoCircle'
  <2>1. ASSUME NEW t \in Sessions, Editing(t)'
        PROVE  /\ Editing(t) /\ req'[t] = req[t] /\ Row(t)' = Row(t)
               /\ pc[t] = "check_barcode" => pc'[t] = "check_barcode"
    <3>1. CASE t = s
      BY <1>3, <2>1, <3>1 DEF Row
    <3>2. CASE t # s
      BY <1>2, <1>3, <2>1, <3>2 DEF Editing, Matches, Row
    <3> QED BY <3>1, <3>2
  <2>2. ASSUME NEW t \in Sessions, NEW u \in Sessions,
               Editing(t)', Editing(u)', Wants(t, u)'
        PROVE  Wants(t, u)
    BY <2>1, <2>2 DEF Wants
  <2> QED BY <1>1, <2>1, <2>2, CircleKept
<1>4. ASSUME products' = products, \/ req'[s].op # "product.update"
                                   \/ pc'[s] \notin {"check_barcode", "write", "sku", "barcode"}
      PROVE  NoCircle'
  BY <1>3, <1>4 DEF Editing
<1>5. ASSUME End(s), products' = products PROVE NoCircle'
  <2>1. pc'[s] = "idle"
    BY <1>1, <1>5 DEF End, Goto, TypeOK
  <2> QED BY <1>4, <1>5, <2>1
<1>6. ASSUME NEW p \in Products, Load(s, p) PROVE NoCircle'
  BY <1>4, <1>6 DEF Load, tables
<1>7. ASSUME NEW q \in Asks,
             BeginCreate(s, q) \/ BeginUpdate(s, q) \/ BeginDelete(s, q) \/ BeginCategory(s, q)
      PROVE  NoCircle'
  <2>1. products' = products /\ pc'[s] \in {"check_category", "delete", "scan"}
    BY <1>1, <1>7
    DEF BeginCreate, BeginUpdate, BeginDelete, BeginCategory, Ask, Goto, tables, TypeOK
  <2> QED BY <1>4, <2>1
<1>8. CASE \/ CheckCategory(s) \/ DeleteMissed(s) \/ ScanCategory(s) \/ CheckReferences(s)
           \/ KeepCategory(s) \/ LockCategory(s) \/ DeleteRow(s)
  <2>1. products' = products /\ pc'[s] \notin {"check_barcode", "write", "sku", "barcode"}
    BY <1>1, <1>8
    DEF CheckCategory, DeleteMissed, ScanCategory, CheckReferences, KeepCategory,
        LockCategory, DeleteRow, Read, Goto, tables, TypeOK
  <2> QED BY <1>4, <2>1
<1>9. CASE EnterSku(s) \/ EnterBarcode(s) \/ WriteRow(s)
  <2>1. /\ UNCHANGED <<products, req, view>> /\ Row(s)' = Row(s)
        /\ pc[s] \in {"write", "sku", "barcode"}
    BY <1>9 DEF EnterSku, EnterBarcode, WriteRow, Read, tables, Row
  <2> QED BY <1>3, <2>1 DEF Editing, Matches
<1>10. ASSUME NEW p \in Products, InsertRow(s, p) PROVE NoCircle'
  <2>1. products' = products /\ req'[s].op = "product.create"
    <3>1. req[s] \in Requests
      BY <1>1, <1>10 DEF InsertRow, ProductOK, Asking
    <3> QED BY <1>1, <1>10, <3>1 DEF InsertRow, tables, TypeOK, Requests
  <2> QED BY <1>4, <2>1
<1>11. CASE CheckSku(s)
  <2>1. /\ UNCHANGED <<products, req, view>> /\ pc[s] = "check_sku"
        /\ pc'[s] = IF SkuTaken(s) THEN "refused" ELSE "check_barcode"
    BY <1>1, <1>11 DEF CheckSku, Read, Goto, tables, TypeOK
  <2>2. CASE SkuTaken(s)
    BY <1>4, <2>1, <2>2
  <2>3. CASE ~SkuTaken(s)
    <3> SUFFICES ASSUME NEW D \in (SUBSET Sessions) \ {{}},
                        \A t \in D : Editing(t)'
                 PROVE  \E t \in D : \A u \in D : ~Wants(t, u)'
      BY DEF NoCircle
    <3>1. \A t \in D \ {s} : Editing(t) /\ (\A u \in D : Wants(t, u)' => Wants(t, u))
      <4>1. \A t \in D : Row(t)' = Row(t) /\ req'[t] = req[t]
        BY <1>2, <2>1 DEF Row
      <4> QED BY <1>2, <2>1, <4>1 DEF Editing, Matches, Row, Wants
    <3>2. CASE s \in D
      <4>1. ASSUME NEW u \in D PROVE ~Wants(s, u)'
        <5>1. CASE u = s
          BY <5>1 DEF Wants
        <5>2. CASE u # s
          <6>1. req[u].product \in Products
            BY <3>1, <5>2, EditedProduct
          <6>2. req[s].sku \in Skus
            BY <1>1, <2>1 DEF KeysOK, Asking
          <6>3. req[u].product # req[s].product => Row(u).sku # req[s].sku
            BY <2>3, <6>1, <6>2, CatalogueAssumption DEF SkuTaken, Others, Absent, Row
          <6> QED BY <2>1, <2>3, <6>3 DEF Wants, Row
        <5> QED BY <5>1, <5>2
      <4> QED BY <3>2, <4>1
    <3>3. CASE s \notin D
      <4>1. PICK t \in D : \A u \in D : ~Wants(t, u)
        BY <1>1, <3>1, <3>3 DEF NoCircle
      <4> QED BY <3>1, <3>3, <4>1
    <3> QED BY <3>2, <3>3
  <2> QED BY <2>2, <2>3
<1>12. CASE CheckBarcode(s)
  <2>1. /\ UNCHANGED <<products, req, view>> /\ pc[s] = "check_barcode"
        /\ pc'[s] = IF BarcodeTaken(s) THEN "refused" ELSE "write"
    BY <1>1, <1>12 DEF CheckBarcode, Read, Goto, tables, TypeOK
  <2>2. CASE BarcodeTaken(s)
    BY <1>4, <2>1, <2>2
  <2>3. CASE ~BarcodeTaken(s)
    <3>1. ASSUME NEW t \in Sessions, Editing(t)'
          PROVE  Editing(t) /\ Row(t)' = Row(t) /\ req'[t] = req[t]
      BY <1>2, <2>1, <3>1 DEF Editing, Matches, Row
    <3>2. ASSUME NEW t \in Sessions, NEW u \in Sessions,
                 Editing(t)', Editing(u)', Wants(t, u)'
          PROVE  Wants(t, u)
      <4>1. CASE t # s
        BY <1>2, <3>1, <3>2, <4>1 DEF Wants
      <4>2. CASE t = s
        <5>1. req[u].product \in Products
          BY <3>1, <3>2, EditedProduct
        <5>2. req[s].barcode # None /\ req[u].product # req[s].product =>
                Row(u).barcode # req[s].barcode
          BY <2>3, <5>1 DEF BarcodeTaken, Others, Absent, Row
        <5> QED BY <3>1, <3>2, <4>2, <5>2 DEF Wants
      <4> QED BY <4>1, <4>2
    <3> QED BY <1>1, <3>1, <3>2, CircleKept
  <2> QED BY <2>2, <2>3
<1>13. CASE Commit(s) \/ CommitDelete(s)
  <2> DEFINE p == req[s].product
  <2>1. /\ p \in Products /\ End(s)
        /\ \A r \in Products \ {p} : products'[r] = products[r]
    BY <1>1, <1>13 DEF Commit, CommitDelete, ProductOK, Written, TypeOK
  <2>2. pc'[s] = "idle" /\ view' = view
    BY <1>1, <2>1 DEF End, Goto, TypeOK
  <2>3. products'[p].deleted \/ products'[p].version = products[p].version + 1
    BY <1>1, <1>13, <2>1 DEF Commit, CommitDelete, TypeOK
  <2>4. ASSUME NEW t \in Sessions, Editing(t)'
        PROVE  /\ t # s /\ Editing(t) /\ req'[t] = req[t] /\ pc'[t] = pc[t]
               /\ Row(t)' = Row(t)
    <3>1. t # s
      BY <2>2, <2>4 DEF Editing
    <3>2. pc'[t] = pc[t] /\ req'[t] = req[t] /\ view'[t] = view[t]
      BY <1>2, <3>1
    <3>3. req[t].product \in Products /\ req[t].product = view[t].product
      BY <1>1, <2>4, <3>2 DEF Editing, ProductOK, KeysOK, Asking, Written
    <3>4. req[t].product # p
      <4>1. SUFFICES ASSUME req[t].product = p PROVE FALSE
        OBVIOUS
      <4>2. products'[p].version = view[t].version /\ ~products'[p].deleted
        BY <2>4, <3>2, <4>1 DEF Editing, Matches, Row
      <4>3. /\ view[t].version <= products[p].version
            /\ view[t].version \in Nat /\ products[p].version \in Nat
        <5>1. view[t].product = p /\ p \in Products
          BY <2>1, <3>3, <4>1
        <5>2. view[t].version <= products[view[t].product].version
          BY <1>1, <5>1 DEF KeysOK
        <5> QED BY <1>1, <5>1, <5>2 DEF TypeOK
      <4> QED BY <2>3, <4>2, <4>3
    <3>5. Row(t)' = Row(t)
      BY <2>1, <3>2, <3>3, <3>4 DEF Row
    <3> QED BY <2>4, <3>1, <3>2, <3>5 DEF Editing, Matches
  <2>5. ASSUME NEW t \in Sessions, NEW u \in Sessions,
               Editing(t)', Editing(u)', Wants(t, u)'
        PROVE  Wants(t, u)
    BY <2>4, <2>5 DEF Wants
  <2> QED BY <1>1, <2>4, <2>5, CircleKept
<1>14. CASE \/ WriteMissed(s) \/ CommitCategory(s) \/ EndRequest(s) \/ AnswerRefused(s)
            \/ Abort(s)
  BY <1>5, <1>14
  DEF WriteMissed, CommitCategory, EndRequest, AnswerRefused, Abort, Refuse, tables
<1> QED
  BY <1>6, <1>7, <1>8, <1>9, <1>10, <1>11, <1>12, <1>13, <1>14 DEF Step

LEMMA Waiting == Spec => []WaitInv
<1>1. Init => WaitInv
  <2> SUFFICES ASSUME Init PROVE WaitInv
    OBVIOUS
  <2>1. HoldersOK
    BY DEF Init, HoldersOK
  <2>2. \A s \in Sessions : KeysOK(s)
    BY CatalogueAssumption DEF Init, KeysOK, Asking, Written
  <2>3. NoCircle
    BY DEF Init, NoCircle, Editing
  <2> QED BY <2>1, <2>2, <2>3 DEF WaitInv
<1>2. IInv /\ WaitInv /\ [Next]_vars => WaitInv'
  <2> SUFFICES ASSUME IInv, WaitInv, [Next]_vars PROVE WaitInv'
    OBVIOUS
  <2>1. ASSUME NEW s \in Sessions, Step(s) PROVE WaitInv'
    BY <2>1, HoldersStep, KeysStep, CircleStep DEF WaitInv
  <2>2. CASE UNCHANGED vars
    BY <2>2 DEF vars, tables, locks, WaitInv, HoldersOK, KeysOK, NoCircle, Editing,
                Wants, Matches, Row
  <2> QED BY <2>1, <2>2 DEF Next
<1> QED BY <1>1, <1>2, InductiveInvariant, PTL DEF Spec

(* Requests wait for each other in a circle only if two of them ask for    *)
(* the same SKU or barcode, or one deletes a category that a second enters *)
(* and in which a third changes a SKU.  In any other set nobody waits to   *)
(* enter a category; who waits for a row or a category holds nothing that  *)
(* others wait for, and waits for one who enters a key or waits for one    *)
(* who does; what is left are updates that want keys of each other's rows, *)
(* and NoCircle excludes them.                                             *)
THEOREM OnlyRivalsEverDeadlock == Spec => []OnlyRivalsDeadlock
<1>1. IInv /\ WaitInv => OnlyRivalsDeadlock
  <2> SUFFICES ASSUME IInv, WaitInv, NEW D \in (SUBSET Sessions) \ {{}},
                      \A s, t \in D : ~Rivals(s, t),
                      \A s, t, u \in D : ~Crossing(s, t, u),
                      \A s \in D : \E t \in D : WaitsFor(s, t)
               PROVE  FALSE
    BY DEF OnlyRivalsDeadlock
  <2>1. /\ TypeOK /\ HoldersOK
        /\ \A s \in D : ProductOK(s) /\ CategoryOK(s) /\ KeysOK(s)
        /\ \A s \in D : s \in Sessions /\ s # None
    BY CatalogueAssumption DEF IInv, WaitInv
  <2>2. \A s \in D : pc[s] \in {"write", "delete", "sku", "barcode", "category", "lock",
                                "references"}
    BY DEF WaitsFor
  \* The deletion waits for an update that has its row and is under way.
  <2>3. ASSUME NEW s \in D, NEW t \in D, pc[s] = "references", WaitsFor(s, t)
        PROVE  /\ pc[t] \in {"sku", "barcode", "category"}
               /\ req[t].op = "product.update"
               /\ Row(t).category = req[s].category /\ Row(t).sku # req[t].sku
    <3>1. /\ req[t].op = "product.update" /\ rowLock[req[t].product] = t
          /\ Row(t).category = req[s].category /\ Row(t).sku # req[t].sku
      BY <2>3 DEF WaitsFor, ContendsForReference
    <3>2. req[t].product \in Products
      BY <2>1, <2>2, <3>1 DEF ProductOK, CategoryOK, Asking, Written, Removing
    <3>3. pc[t] \in {"sku", "barcode", "category"}
      BY <2>1, <2>2, <3>1, <3>2 DEF HoldersOK, RowHolding, Written
    <3> QED BY <3>1, <3>3
  \* Who has locked or shares a category and waits is such a deletion.
  <2>4. ASSUME NEW s \in D, NEW t \in D, pc[s] \in {"category", "lock"}, WaitsFor(s, t)
        PROVE  /\ pc[t] = "references" /\ req[t].op = "category.delete"
               /\ req[t].category = req[s].category
    <3>1. req[s].category \in Categories
      BY <2>1, <2>4 DEF WaitsFor, ProductOK, Written, Requests, CategoryOK
    <3>2. catLock[req[s].category] = t \/ t \in catSharers[req[s].category]
      BY <2>4 DEF WaitsFor
    <3>3. pc[t] \in Removing \cup {"refused", "commit"}
      BY <2>1, <3>1, <3>2 DEF HoldersOK, CategoryOK
    <3>4. pc[t] = "references" /\ catLock[req[s].category] = t
      BY <2>1, <2>2, <3>1, <3>2, <3>3 DEF Removing, CategoryOK
    <3> QED BY <2>1, <3>1, <3>4 DEF HoldersOK, CategoryOK, Removing
  <2>5. ASSUME NEW s \in D PROVE pc[s] # "category"
    <3>1. SUFFICES ASSUME pc[s] = "category" PROVE FALSE
      OBVIOUS
    <3>2. PICK t \in D : WaitsFor(s, t)
      OBVIOUS
    <3>3. PICK u \in D : WaitsFor(t, u)
      OBVIOUS
    <3>4. /\ pc[t] = "references" /\ req[t].op = "category.delete"
          /\ req[t].category = req[s].category
      BY <2>4, <3>1, <3>2
    <3>5. /\ req[u].op = "product.update"
          /\ Row(u).category = req[t].category /\ Row(u).sku # req[u].sku
      BY <2>3, <3>3, <3>4
    <3>6. req[s].op \in {"product.create", "product.update"}
      BY <2>1, <3>1 DEF KeysOK, Written
    <3>7. Row(s).category # req[s].category
      BY <3>1, <3>2 DEF WaitsFor
    <3> QED BY <3>4, <3>5, <3>6, <3>7 DEF Crossing
  \* Who holds a row and waits is entering a key.
  <2>6. ASSUME NEW s \in D, NEW t \in D, WaitsFor(s, t), pc[s] \in {"write", "delete"}
        PROVE  pc[t] \in {"sku", "barcode"}
    <3>1. req[s].product \in Products /\ rowLock[req[s].product] = t
      BY <2>1, <2>6 DEF WaitsFor, ProductOK, Asking
    <3>2. pc[t] \in RowHolding
      BY <2>1, <3>1 DEF HoldersOK
    <3> QED BY <2>2, <2>5, <3>2 DEF RowHolding, Written
  <2> DEFINE E == {t \in D : pc[t] \in {"sku", "barcode"} /\ req[t].op = "product.update"}
  \* Who enters a key waits for an update that has it in its row.
  <2>7. ASSUME NEW s \in D, NEW t \in D, WaitsFor(s, t), pc[s] \in {"sku", "barcode"}
        PROVE  t \in E /\ Wants(s, t)
    <3>1. t # s /\ pc[t] \in {"sku", "barcode"}
      <4>1. t # s /\ Writing(t)
        BY <2>7 DEF WaitsFor, ContendsForSku, ContendsForBarcode
      <4> QED BY <2>2, <2>5, <4>1 DEF Writing
    <3>2. /\ {req[s].op, req[t].op} \subseteq {"product.create", "product.update"}
          /\ req[s].sku \in Skus
          /\ rowLock[req[s].product] = s /\ rowLock[req[t].product] = t
          /\ req[t].op # "product.update" => Row(t) = Absent
      BY <2>1, <2>7, <3>1 DEF KeysOK, ProductOK, Asking, Written
    <3>3. /\ req[s].sku # req[t].sku
          /\ req[s].barcode # None => req[s].barcode # req[t].barcode
      BY <3>1, <3>2 DEF Rivals
    <3>4. \/ Row(t).sku = req[s].sku
          \/ req[s].barcode # None /\ Row(t).barcode = req[s].barcode /\ pc[s] = "barcode"
      BY <2>7, <3>3 DEF WaitsFor, ContendsForSku, ContendsForBarcode
    <3>5. Row(t) # Absent
      BY <3>2, <3>4, CatalogueAssumption DEF Absent
    <3> QED BY <3>1, <3>2, <3>4, <3>5 DEF Wants
  <2>8. \A s \in E : Editing(s)
    BY <2>1 DEF Editing, KeysOK, Written
  \* Whoever waits, someone enters a key.
  <2>9. \E s \in D : pc[s] \in {"sku", "barcode"}
    <3>1. PICK s \in D, t \in D : WaitsFor(s, t)
      OBVIOUS
    <3>2. PICK u \in D : WaitsFor(t, u)
      OBVIOUS
    <3>3. CASE pc[s] \in {"write", "delete"}
      BY <2>6, <3>1, <3>3
    <3>4. CASE pc[s] = "references"
      BY <2>3, <2>5, <3>1, <3>4
    <3>5. CASE pc[s] = "lock"
      <4>1. pc[t] = "references"
        BY <2>4, <3>1, <3>5
      <4> QED BY <2>3, <2>5, <3>2, <4>1
    <3> QED BY <2>2, <2>5, <3>3, <3>4, <3>5
  <2>10. E # {} /\ E \in SUBSET Sessions
    <3>1. PICK s \in D : pc[s] \in {"sku", "barcode"}
      BY <2>9
    <3>2. PICK t \in D : WaitsFor(s, t)
      OBVIOUS
    <3> QED BY <2>7, <3>1, <3>2
  <2>11. PICK s \in E : \A t \in E : ~Wants(s, t)
    BY <2>8, <2>10 DEF WaitInv, NoCircle
  <2> QED BY <2>7, <2>11
<1> QED BY <1>1, InductiveInvariant, Waiting, PTL
=============================================================================
