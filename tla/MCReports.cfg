CONSTANTS
  Sessions = {s1}
  b1 = b1
  b2 = b2
  clerk = clerk
  boss = boss
  Users = {clerk, boss}
  Branches = {b1, b2}
  Rows <- Store
  Asks <- Menu
  Supers = {boss}
  Assigned <- AssignedBranches
  Days = {1, 2, 3}
  Month <- TwoMonths
  Everywhere = Everywhere
SPECIFICATION Spec
CHECK_DEADLOCK FALSE
INVARIANTS TypeOK FiguresExplained LaterPartsHoldMore
