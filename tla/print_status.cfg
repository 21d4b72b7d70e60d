SPECIFICATION Spec
CONSTANTS
  Files = {f1, f2}
  Parts = {p1, p2}
  None = None
  MaxJobs = 2
  MaxTaps = 2
  MaxTroubles = 1
SYMMETRY Symmetry
INVARIANTS
  OnlyLateMetadataMisleads
  EndIsSummarised
  OnlyUnheardDims
  OnlyBlindExclusionEmpties
CHECK_DEADLOCK FALSE
