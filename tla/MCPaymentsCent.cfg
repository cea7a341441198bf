\* Every sale may end up paid and final, and nothing is left to do.
CHECK_DEADLOCK FALSE
CONSTANTS
  Sessions = {u1, u2}
  sale1 = sale1
  sale2 = sale2
  NoOne = NoOne
  Sales = {sale1, sale2}
  Total <- TwoTotals
  Amounts <- SmallAmounts
  MaxInt = 7
SPECIFICATION Spec
INVARIANTS NeverOverpaid
SYMMETRY Symmetry
