SPECIFICATION Spec
CONSTANTS
  cube = cube
  boat = boat
  usb_vase = usb_vase
  usb_stick = usb_stick
  s1 = s1
  Files <- MCFiles
  Folder <- MCFolder
  Usb <- MCUsb
  Unscannable = {boat}
  Spools = {s1}
  Root = root
  None = None
  MaxEvents = 1
  MaxTaps = 4
  MaxUnderWay = 1
INVARIANTS
  OnlyOverlapMislists
  DetailsAreTheFiles
  OnlyOthersMislead
PROPERTIES
  PrintsTheTapped
CHECK_DEADLOCK FALSE
