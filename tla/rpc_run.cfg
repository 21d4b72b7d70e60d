SPECIFICATION FairSpec
CONSTANTS
  LVGL = LVGL
  Libhv = Libhv
  c1 = c1
  c2 = c2
  c3 = c3
  None = None
  EventLoop = Libhv
  Threads <- MCThreads
  Calls <- MCCalls
  WithCallback <- MCWithCallback
  UnderLock <- MCUnderLock
  MaxCloses = 2
INVARIANTS
  OnlyOverlapMixesUp
PROPERTIES
  KeepsPromise
  EveryReplyHandled
CHECK_DEADLOCK FALSE
