\* Publishers may have sent all they send and every client may be gone.
CHECK_DEADLOCK FALSE
CONSTANTS
  Clients = {c1, c2}
  Publishers = {p1, p2}
  Capacity = 1
  MaxMessages = 1
  NoClient = NoClient
SPECIFICATION Spec
SYMMETRY Symmetry
INVARIANTS TypeOK BroadcastIsSafe ShutdownLeavesNobody
