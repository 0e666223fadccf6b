CONSTANTS
  Client = Client
  Server = Server
  Active = {Client}
  ISS <- MCISS
  MaxSend <- MCTwo
  Modulus = 24
  MaxBuffered = 2
  MaxOutstanding = 2
  Closers = {Client, Server}
  Lossy = FALSE
  Leftover = {"SYN", "ACK"}
SPECIFICATION Spec
INVARIANTS
  InOrderAfterFirst
  ThreeWay
  NothingLost
CHECK_DEADLOCK FALSE
