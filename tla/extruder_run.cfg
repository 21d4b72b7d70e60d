SPECIFICATION FairSpec
CONSTANTS
  MaxTemp = 2
  ChunksPerLoad = 2
  MaxTaps = 5
  MaxQueue = 2
  MaxBreaks = 1
INVARIANTS
  LockedWhileItRuns
  OnlyLeavingLeavesHot
  NothingFeedsUnseen
PROPERTIES
  OnlyUnheardMisleads
  BusyEnds
CHECK_DEADLOCK FALSE
