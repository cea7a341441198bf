\* Publishers may have sent all they send and every client may be gone.
CHECK_DEADLOCK FALSE
CONSTANTS
  Clients = {c1}
  Publishers = {p1, p2}
  Capacity = 1
  MaxMessages = 2
  NoClient = NoClient
SPECIFICATION FairSpec
INVARIANTS InOrder
PROPERTIES BroadcastEnds LostClientGoes ShutdownEnds
