---------------------------- MODULE StockLedger ----------------------------
(***************************************************************************)
(* What the sales, purchasing and inventory services promise together: a   *)
(* ledger of orders and stock in which every operation happens at once.    *)
(* An operation moves a whole order, or nothing, and no quantity leaves    *)
(* 0..MaxInt.  StockSystem is shown to implement this specification.       *)
(***************************************************************************)
EXTENDS Integers

CONSTANTS Sales, Purchases, Products, Branches, Opening, Drafts, MaxInt

Orders == Sales \cup Purchases
Rows   == Products \X Branches
Absent == "ABSENT"
Carts  == [site : Branches, lines : [Products -> 0..MaxInt]]

VARIABLES rows, stock, status, site, lines, done

ledgerVars == <<rows, stock, status, site, lines, done>>

Init ==
  /\ rows   = DOMAIN Opening
  /\ stock  = [r \in Rows |-> IF r \in DOMAIN Opening THEN Opening[r] ELSE 0]
  /\ status = [o \in Orders |-> IF o \in DOMAIN Drafts THEN "DRAFT" ELSE Absent]
  /\ site   = [o \in Orders |-> IF o \in DOMAIN Drafts THEN Drafts[o].site
                                ELSE CHOOSE b \in Branches : TRUE]
  /\ lines  = [o \in Orders |-> IF o \in DOMAIN Drafts THEN Drafts[o].lines
                                ELSE [p \in Products |-> 0]]
  /\ done   = [o \in Orders |-> [p \in Products |-> 0]]

-----------------------------------------------------------------------------
(* The rows in touched exist afterwards and change by the given amounts.   *)
Post(touched, change(_)) ==
  /\ \A r \in touched : stock[r] + change(r) \in 0..MaxInt
  /\ rows'  = rows \cup touched
  /\ stock' = [r \in Rows |-> IF r \in touched THEN stock[r] + change(r)
                              ELSE stock[r]]

Touched(o, q) == {r \in Rows : r[2] = site[o] /\ q[r[1]] > 0}

Become(o, st) ==
  /\ status' = [status EXCEPT ![o] = st]
  /\ UNCHANGED <<site, lines>>

Create(o) ==
  /\ status[o] = Absent
  /\ \E c \in Carts :
       /\ \E p \in Products : c.lines[p] > 0
       /\ site'  = [site EXCEPT ![o] = c.site]
       /\ lines' = [lines EXCEPT ![o] = c.lines]
  /\ status' = [status EXCEPT ![o] = "DRAFT"]
  /\ UNCHANGED <<rows, stock, done>>

Accept(o) ==
  /\ status[o] = "DRAFT"
  /\ Become(o, IF o \in Sales THEN "CONFIRMED" ELSE "ORDERED")
  /\ UNCHANGED <<rows, stock, done>>

(* Part of an accepted order is delivered: stock goes out for a sale, and  *)
(* comes in for a purchase.                                                *)
Deliver(o, q) ==
  /\ status[o] \in IF o \in Sales THEN {"CONFIRMED", "PARTIALLY_FULFILLED"}
                   ELSE {"ORDERED", "PARTIALLY_RECEIVED"}
  /\ \E p \in Products : q[p] > 0
  /\ \A p \in Products : q[p] <= lines[o][p] - done[o][p]
  /\ done' = [done EXCEPT ![o] = [p \in Products |-> @[p] + q[p]]]
  /\ LET all == done'[o] = lines[o]
     IN IF o \in Sales
        THEN /\ Touched(o, q) \subseteq rows
             /\ Post(Touched(o, q), LAMBDA r : -q[r[1]])
             /\ Become(o, IF all THEN "FULFILLED" ELSE "PARTIALLY_FULFILLED")
        ELSE /\ Post(Touched(o, q), LAMBDA r : q[r[1]])
             /\ Become(o, IF all THEN "RECEIVED" ELSE "PARTIALLY_RECEIVED")

(* A draft is delivered whole.                                             *)
Complete(o) ==
  /\ status[o] = "DRAFT"
  /\ LET t == Touched(o, lines[o])
     IN IF o \in Sales
        THEN t \subseteq rows /\ Post(t, LAMBDA r : -lines[o][r[1]])
        ELSE Post(t, LAMBDA r : lines[o][r[1]])
  /\ Become(o, "COMPLETED")
  /\ UNCHANGED done

(* A completed order is taken back whole; a draft is dropped.              *)
Cancel(o) ==
  /\ LET t == Touched(o, lines[o])
     IN \/ status[o] = "DRAFT" /\ UNCHANGED <<rows, stock>>
        \/ /\ status[o] = "COMPLETED" /\ t \subseteq rows
           /\ IF o \in Sales THEN Post(t, LAMBDA r : lines[o][r[1]])
              ELSE Post(t, LAMBDA r : -lines[o][r[1]])
  /\ Become(o, "CANCELLED")
  /\ UNCHANGED done

(* One inventory row is opened with a quantity, or adjusted.               *)
Adjust(r, q) ==
  /\ r \notin rows => q >= 0
  /\ Post({r}, LAMBDA x : q)
  /\ UNCHANGED <<status, site, lines, done>>

Transfer(p, from, to, q) ==
  /\ from # to /\ q > 0 /\ <<p, from>> \in rows
  /\ Post({<<p, from>>, <<p, to>>}, LAMBDA r : IF r[2] = from THEN -q ELSE q)
  /\ UNCHANGED <<status, site, lines, done>>

-----------------------------------------------------------------------------
Next ==
  \/ \E o \in Orders : Create(o) \/ Accept(o) \/ Complete(o) \/ Cancel(o)
  \/ \E o \in Orders, q \in [Products -> 0..MaxInt] : Deliver(o, q)
  \/ \E r \in Rows, q \in -MaxInt..MaxInt : Adjust(r, q)
  \/ \E p \in Products, b, c \in Branches, q \in 1..MaxInt : Transfer(p, b, c, q)

Spec == Init /\ [][Next]_ledgerVars
=============================================================================
