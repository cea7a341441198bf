CONSTANTS
  Sessions = {u1, u2}
  sale1 = sale1
  sale2 = sale2
  purchase1 = purchase1
  purchase2 = purchase2
  NoOne = NoOne
  Sales = {}
  Purchases = {purchase1, purchase2}
  Products = {1, 2}
  Branches = {1}
  MaxInt = 3
  Toggled = {1}
  Drafts <- PurchaseDrafts
  Opening <- PurchaseOpening
  Requests <- PurchaseRequests
SPECIFICATION Spec
SYMMETRY SessionSymmetry
INVARIANTS ProgressMatchesStatus
PROPERTIES Refinement
