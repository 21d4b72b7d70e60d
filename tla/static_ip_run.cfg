SPECIFICATION Spec
CONSTANTS
  Ssids = {A, B}
  Jobs = {j1, j2}
  None = None
  MaxSaves = 2
  MaxReverts = 1
  MaxOpens = 2
  MaxRoams = 1
  MaxBoots = 1
INVARIANTS
  OnlyTroubleDisagrees
  
  NeverStuck
  OnlyReopeningMisleads
PROPERTIES
  OnlyOverlapLosesEntries
CHECK_DEADLOCK FALSE
