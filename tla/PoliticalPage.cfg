CONSTANTS
  Site = "politicalvideo"
  MaxLoads = 3
  MaxChanges = 3
SPECIFICATION FairSpec
INVARIANT AnsweredKeepsCookie
CHECK_DEADLOCK FALSE
