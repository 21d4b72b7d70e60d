SPECIFICATION PanelFairSpec
CONSTANTS
  Objects = {o1, o2}
  MaxBreaks = 1
  MaxUpdates = 1
INVARIANTS
  StateIsThePrinters
  OnlyRefusalOrOvertakingMisleads
PROPERTIES
  ComesUp
CHECK_DEADLOCK FALSE
