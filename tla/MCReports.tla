----------------------------- MODULE MCReports -----------------------------
(* An instance of Reports for TLC.                                         *)
EXTENDS Reports

CONSTANTS b1, b2, clerk, boss

(* A sale and its payment, a purchase of the other day and branch, an      *)
(* adjustment, a receipt and a product.                                    *)
Row(table, n, b, d) == [table |-> table, n |-> n, branch |-> b, day |-> d]
Store == {Row("sales", 1, b1, 1), Row("purchases", 1, b2, 2),
          Row("payments", 1, b1, 1), Row("movements", 1, b1, 1),
          Row("deliveries", 1, b2, 1), Row("products", 1, b1, 1)}

(* For one day and for both, for one branch and for all a user may see.    *)
Ask(name, u, days, b) == [report |-> name, user |-> u, days |-> days, branch |-> b]
Menu ==
  {Ask("sales", clerk, {1, 2}, Everywhere), Ask("sales", boss, {2}, Everywhere),
   Ask("purchases", boss, {2}, b2), Ask("purchases", clerk, {1, 2}, Everywhere),
   Ask("payments", clerk, {1}, b1), Ask("payments", boss, {2}, Everywhere),
   Ask("inventory", clerk, {1}, Everywhere), Ask("profit", boss, {1, 2}, Everywhere),
   Ask("dashboard", clerk, {1}, Everywhere)}

AssignedBranches == [u \in Users |-> IF u = clerk THEN {b1} ELSE {}]

(* The last day is the first of a month: the dashboard's two conditions on *)
(* the date differ from each other and from none.                          *)
TwoMonths == [d \in Days |-> IF d = 3 THEN 2 ELSE 1]
=============================================================================
