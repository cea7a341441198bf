----------------------------- MODULE MCPayments -----------------------------
(* Instances of SalePayments for TLC.                                      *)
EXTENDS SalePayments, TLC

CONSTANTS sale1, sale2

Amount(cents, stored) == [cents |-> cents, stored |-> stored]
Exact(ns) == {Amount(n, n) : n \in ns}

\* One sale of two cents with every rounding of small amounts, and amounts
\* whose sum wraps.
OneTotal     == sale1 :> 2
BothAmounts  == Exact({0, 1, 2, 6, 7})
                  \cup {Amount(1, 2), Amount(2, 1), Amount(1, 0), Amount(0, 1)}
\* Two sales, small amounts only, one rounded differently by the table.
SmallAmounts == Exact({1}) \cup {Amount(1, 2)}
TwoTotals    == sale1 :> 2 @@ sale2 :> 1

Symmetry == Permutations(Sessions)
=============================================================================
