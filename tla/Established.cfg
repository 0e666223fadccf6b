CONSTANTS
  Client = Client
  Server = Server
  Active = {Client}
  ISS <- MCISS
  MaxSend <- MCBothWays
  Modulus = 32
  MaxBuffered = 1
  MaxOutstanding = 2
  Closers = {Server}
  Lossy = FALSE
  Leftover = {"SYN"}
SPECIFICATION EstablishedSpec
INVARIANTS
  DeliveredIsPrefix
  AckedWasTaken
  StreamInv
  FitsReceiveWindow
PROPERTIES
  NeverBack
  ImplementsStream
CHECK_DEADLOCK FALSE
