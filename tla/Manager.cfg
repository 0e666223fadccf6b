CONSTANTS
  p1 = p1
  p2 = p2
  p3 = p3
  Peers = {p1, p2, p3}
  Dialled = {p3}
  Acceptors = {a1, a2}
  Backlog = 1
  OneAtATime = TRUE
  Repeats = TRUE
  PeerISS <- MCPeerISS
  LocalISS = 23
  MaxConns = 2
  Modulus = 24
  MaxBuffered = 2
  MaxOutstanding = 2
SPECIFICATION Spec
INVARIANTS
  TypeOK
  HandlersNeverWait
  OnlyRaceForgets
PROPERTY OnlyClosedLeave
CHECK_DEADLOCK FALSE
