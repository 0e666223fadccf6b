CONSTANTS
  Client = Client
  Server = Server
  Active = {Client}
  ISS <- MCISS
  MaxSend <- MCTwo
  Modulus = 24
  MaxBuffered = 2
  MaxOutstanding = 2
  Closers = {}
  Lossy = TRUE
  Leftover = {}
SPECIFICATION QuietSpec
PROPERTIES
  GoesQuiet
CHECK_DEADLOCK FALSE
