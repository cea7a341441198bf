\* Every sale may end up paid and final, and nothing is left to do.
CHECK_DEADLOCK FALSE
CONSTANTS
  Sessions = {u1, u2, u3}
  sale1 = sale1
  sale2 = sale2
  NoOne = NoOne
  Sales = {sale1}
  Total <- OneTotal
  Amounts <- BothAmounts
  MaxInt = 7
SPECIFICATION Spec
INVARIANTS TypeOK OverpaidByACentAtMost
PROPERTIES PaidWhilePayable SummaryNeverRegresses
