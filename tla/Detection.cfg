CONSTANTS
  Site = "appengine"
  MaxLoads = 3
  MaxChanges = 3
SPECIFICATION FairSpec
INVARIANTS
  OneCallback
  LocalOverrides
  AnsweredKeepsCookie
  NotTrustedAfterFailure
PROPERTY EveryPageDecides
CHECK_DEADLOCK FALSE
