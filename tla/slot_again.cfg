SPECIFICATION Spec
CONSTANTS
  U32 = 64
  U16 = 16
  BootQuantity = 2
  FlowPeriod = 1
  SleepLoops = 2
  StationLoops = 1
  MaxSleep = 3
  Litres = {0, 1}
  Stations = {FALSE}
  InitPort <- MCInitPort
  PostIntervals = {}
  PostQuantities = {}
  SyncTimes = {}
  ClockStepsBack = FALSE
  FlashErrors = FALSE
  MaxNow = 5
  MaxResets = 0
  MaxSyncs = 0
  MaxPosts = 0
PROPERTIES
  OneOpeningPerSlot
