CONSTANTS
  Pages <- MCPages
  MaxSearches = 2
  MaxRank = 1
  ResultsAt <- MCResults
  Downloading <- MCDownloading
  MaxEvents = 3
SPECIFICATION FairSpec
INVARIANTS
  OneAlive
  ShownIsCurrent
  KeepsPolling
  SwitchFollows
PROPERTIES
  AsksNoMore
  Settles
CHECK_DEADLOCK FALSE
