SPECIFICATION Spec
CONSTANTS
  Ssids = {A, B}
  None = None
  MaxInputs = 3
  Rescans = 1
SYMMETRY Symmetry
INVARIANTS
  OnlyOverlapMisreads
  QuietScreenIsRight
  OnlyLateEventHidesPassword
  LastJoinHasTheLastWord
PROPERTIES
  OnlyListingAsksAgain
CHECK_DEADLOCK FALSE
