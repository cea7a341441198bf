CONSTANTS
  Sessions = {u1, u2}
  sale1 = sale1
  sale2 = sale2
  purchase1 = purchase1
  purchase2 = purchase2
  NoOne = NoOne
  Sales = {sale1, sale2}
  Purchases = {}
  Products = {1, 2}
  Branches = {1}
  MaxInt = 3
  Toggled = {}
  Drafts <- SaleDrafts
  Opening <- SaleOpening
  Requests <- SaleRequests
SPECIFICATION Spec
SYMMETRY SessionSymmetry
INVARIANTS MovedOnce ProgressMatchesStatus
PROPERTIES Refinement
