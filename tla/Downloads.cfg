CONSTANTS
  Downloads = {d1, d2}
  GiveUpAfter = 1
  MaxClicks = 3
  MaxChanges = 3
  MaxFailures = 2
SPECIFICATION FairSpec
INVARIANTS
  OneLoop
  RowsCounted
  MapKnowsRows
  IconHonest
PROPERTIES
  Settles
CHECK_DEADLOCK FALSE
