SPECIFICATION FairSpec
CONSTANTS
  MaxRuns = 2
  MaxUnderWay = 3
  MaxDrops = 1
INVARIANTS
  OnlyRacesBreakPromises
  OnlyOverlapLosesProbe
PROPERTY StepsEnd
CHECK_DEADLOCK FALSE
