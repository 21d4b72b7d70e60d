SPECIFICATION RunoutFairSpec
CONSTANTS
  None = None
  HasM600 = TRUE
  MaxDrops = 1
  CanDisable = TRUE
  CanListFiles = FALSE
  MaxWire = 1
  MaxScripts = 1
  MaxAtLoad = 0
  LoadChunks = 1
PROPERTY RunoutSurfaces
CHECK_DEADLOCK FALSE
