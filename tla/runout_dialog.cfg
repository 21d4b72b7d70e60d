SPECIFICATION RunoutSpec
CONSTANTS
  None = None
  HasM600 = FALSE
  MaxDrops = 1
  CanDisable = FALSE
  CanListFiles = FALSE
  MaxWire = 1
  MaxScripts = 2
  MaxAtLoad = 3
  LoadChunks = 2
INVARIANTS
  DialogOwnsFeedAndTimer
  LoadStaysInBudget
CHECK_DEADLOCK FALSE
