SPECIFICATION FairSpec
CONSTANTS
  Parts = {"session", "lineage"}
  SessionSetups <- SmallFeeds
  LineageSetups <- SmallLineages
INVARIANTS
  NoSilentSkip
PROPERTIES
  
  OneHistory
  CatchesUp
CHECK_DEADLOCK FALSE
