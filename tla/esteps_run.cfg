SPECIFICATION FairSpec
CONSTANTS
  MaxRuns = 2
  MaxUnderWay = 3
  MaxRd = 2
  MaxDrops = 1
INVARIANTS
  OnlyOverlapLeavesHot
  RightUnlessUnheard
PROPERTIES
  StagesEnd
CHECK_DEADLOCK FALSE
