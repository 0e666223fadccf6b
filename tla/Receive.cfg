CONSTANTS
  r1 = r1
  r2 = r2
  Receivers <- MCReceivers
  MaxMessages = 3
  SoTimeout = TRUE
SPECIFICATION FairSpec
INVARIANTS
  NoneSleepsThrough
  ReceivedInOrder
PROPERTY CloseWakesWaiters
CHECK_DEADLOCK FALSE
