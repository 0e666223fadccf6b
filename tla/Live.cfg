CONSTANTS
  Client = Client
  Server = Server
  Active = {Client}
  ISS <- MCISS
  MaxSend <- MCOneWay
  Modulus = 24
  MaxBuffered = 2
  MaxOutstanding = 2
  Closers = {}
  Lossy = TRUE
  Leftover = {}
SPECIFICATION FairEstablishedSpec
PROPERTIES
  AllDelivered
  SenderWakes
CHECK_DEADLOCK FALSE
