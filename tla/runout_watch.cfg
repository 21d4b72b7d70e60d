SPECIFICATION RunoutFairSpec
CONSTANTS
  None = None
  HasM600 = FALSE
  MaxDrops = 1
  CanDisable = TRUE
  CanListFiles = TRUE
  MaxWire = 1
  MaxScripts = 1
  MaxAtLoad = 1
  LoadChunks = 1
PROPERTIES
  SurfacesWhereWatched
  TapsTakeEffect
CHECK_DEADLOCK FALSE
