CONSTANTS
  Sessions = {u1, u2}
  sale1 = sale1
  sale2 = sale2
  purchase1 = purchase1
  purchase2 = purchase2
  NoOne = NoOne
  Sales = {sale1}
  Purchases = {}
  Products = {1}
  Branches = {1, 2}
  MaxInt = 1
  Toggled = {}
  Drafts <- LiveDrafts
  Opening <- LiveOpening
  Requests <- LiveRequests
SPECIFICATION FairSpec
PROPERTIES EveryRequestEnds
