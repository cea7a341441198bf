CONSTANTS
  Sessions = {s1, s2}
  p1 = p1
  p2 = p2
  c1 = c1
  x = x
  y = y
  z = z
  k = k
  l = l
  Products = {p1, p2}
  Categories = {c1}
  Skus = {x, y, z}
  Barcodes = {k, l}
  Asks <- Menu
  MaxVersion = 3
  None = None
SPECIFICATION Spec
SYMMETRY Symmetry
INVARIANTS TypeOK ReferencesHold OnlyRivalsDeadlock
