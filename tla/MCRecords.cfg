CONSTANTS
  Sessions = {s1, s2, s3}
  Records = {r1, r2}
  Codes = {a, b}
  MaxVersion = 3
  NoOne = NoOne
  NoCode = NoCode
  NoRecord = NoRecord
SPECIFICATION Spec
SYMMETRY Symmetry
INVARIANTS TypeOK NoBlindOverwrite NoFalseConflict NoDeadlock
PROPERTIES DeletedStaysDeleted
