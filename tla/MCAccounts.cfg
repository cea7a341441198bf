CONSTANTS
  Sessions = {s1, s2}
  r1 = r1
  r2 = r2
  r3 = r3
  u1 = u1
  u2 = u2
  a = a
  b = b
  e1 = e1
  e2 = e2
  e3 = e3
  p = p
  RoleIds = {r1, r2, r3}
  UserIds = {u1, u2}
  Names = {SUPER_ADMIN, a, b}
  Permissions = {p}
  Emails = {e1, e2, e3}
  Asks <- Menu
  AdminRole = r1
  Admin = u1
  AdminEmail = e1
  MaxVersion = 3
  Super = SUPER_ADMIN
  None = None
SPECIFICATION Spec
SYMMETRY Symmetry
INVARIANTS TypeOK HoldersHaveRole NoBlindOverwrite OnlyKnownDeadlocks
PROPERTIES NoAssignmentLost EditsAreWhole
