CONSTANTS
  Sessions = {u1, u2, u3}
  sale1 = sale1
  sale2 = sale2
  purchase1 = purchase1
  purchase2 = purchase2
  NoOne = NoOne
  Sales = {sale1}
  Purchases = {purchase1}
  Products = {1, 2}
  Branches = {1, 2}
  MaxInt = 2
  Toggled = {}
  Drafts <- SystemDrafts
  Opening <- SystemOpening
  Requests <- SystemRequests
SPECIFICATION Spec
SYMMETRY SessionSymmetry
INVARIANTS TypeOK LedgerBalanced NoLostUpdate LocksGoUp NoDeadlock
