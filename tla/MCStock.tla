------------------------------ MODULE MCStock ------------------------------
(***************************************************************************)
(* Small instances of StockSystem for TLC.  MaxInt is 3, so that int64     *)
(* overflow happens within the model and bounds every quantity.            *)
(***************************************************************************)
EXTENDS StockSystem, TLC

CONSTANTS sale1, sale2, purchase1, purchase2

SessionSymmetry == Permutations(Sessions)

\* A product's number is its identifier, so that <<2, 1>> orders two of
\* product 1 and one of product 2.  Every order is placed at branch 1.
At1(q) == [site |-> 1, lines |-> q]

Plain(o, ops) == {[op |-> op, order |-> o] : op \in ops}
Part(op, o, parts) == {[op |-> op, order |-> o, items |-> i] : i \in parts}

SaleAll(o, parts) ==
  Plain(o, SaleOps \ {"sale.fulfill"}) \cup Part("sale.fulfill", o, parts)
PurchaseAll(o, parts) ==
  Plain(o, PurchaseOps \ {"purchase.receive"}) \cup Part("purchase.receive", o, parts)

Create(op, cart) == [op |-> op, cart |-> cart]
Adjustments(rs, qs) == [op : {"inventory.adjust"}, row : rs, qty : qs]
Openings(rs, qs) == [op : {"inventory.create"}, row : rs, qty : qs]
Transfers(ps, bs, qs) ==
  [op : {"inventory.transfer"}, product : ps, from : bs, to : bs, qty : qs]

NoRows == [r \in {} |-> 0]

-----------------------------------------------------------------------------
\* A sale of two products delivered in parts, completed or cancelled, a second
\* sale created while that happens, a stock row that may not exist, and
\* adjustments that make the stock of a cancelled sale overflow.
SaleDrafts   == sale1 :> At1(<<2, 1>>)
SaleOpening  == <<1, 1>> :> 3
SaleRequests ==
  SaleAll(sale1, {<<1, 0>>, <<1, 1>>, <<2, 0>>})
    \cup {Create("sale.create", At1(<<1, 0>>))}
    \cup Plain(sale2, {"sale.complete", "sale.cancel"})
    \cup Openings({<<2, 1>>}, {1})
    \cup Adjustments({<<1, 1>>}, {-1, 1})

\* Two purchases that insert the rows they need; product 1 goes inactive and
\* active again.
PurchaseDrafts   == purchase1 :> At1(<<2, 1>>)
PurchaseOpening  == NoRows
PurchaseRequests ==
  PurchaseAll(purchase1, {<<1, 0>>, <<1, 1>>, <<2, 0>>})
    \cup {Create("purchase.create", At1(<<0, 1>>))}
    \cup Plain(purchase2, {"purchase.complete", "purchase.cancel"})
    \cup Adjustments({<<1, 1>>}, {-1, 1})

\* A sale, a purchase, adjustments and transfers in both directions over the
\* same rows, one of which does not exist yet.
SystemDrafts   == sale1 :> At1(<<1, 1>>) @@ purchase1 :> At1(<<1, 1>>)
SystemOpening  == <<1, 1>> :> 1 @@ <<2, 1>> :> 1
SystemRequests ==
  Plain(sale1, {"sale.complete", "sale.cancel"})
    \cup Plain(purchase1, {"purchase.complete", "purchase.cancel"})
    \cup Transfers({1}, {1, 2}, {1})
    \cup Openings({<<1, 2>>}, {1}) \cup Adjustments({<<1, 1>>}, {-1, 1})

\* The same, smaller, for liveness, with a confirmation that is refused
\* without a rollback.
LiveDrafts   == sale1 :> At1(<<1>>)
LiveOpening  == <<1, 1>> :> 1
LiveRequests ==
  Plain(sale1, {"sale.confirm", "sale.complete"}) \cup Transfers({1}, {1, 2}, {1})
=============================================================================
