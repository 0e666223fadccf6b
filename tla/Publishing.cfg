SPECIFICATION FairSpec
CONSTANTS
  a1 = a1
  a2 = a2
  Attempts = {a1, a2}
  f1 = f1
  Files = {f1}
  Shared = {f1}
  Earlier = Earlier
  None = None
INVARIANTS
  TypeOK
  AloneIsAccepted
  OnlyPublishedStays
  PendingUntilDone
PROPERTY PendingEnds
CHECK_DEADLOCK FALSE
