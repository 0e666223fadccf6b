CONSTANTS
  Client = Client
  Server = Server
  Active = {Client}
  ISS <- MCLastISS
  MaxSend <- MCTwo
  Modulus = 16
  MaxBuffered = 2
  MaxOutstanding = 2
  Closers = {}
  Lossy = TRUE
  Leftover = {}
SPECIFICATION FairEstablishedSpec
PROPERTY Reliable
CHECK_DEADLOCK FALSE
