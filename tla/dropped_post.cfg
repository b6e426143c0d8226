SPECIFICATION HttpSpec
CONSTANTS
  U32 = 64
  U16 = 16
  BootQuantity = 2
  FlowPeriod = 1
  SleepLoops = 2
  StationLoops = 1
  MaxSleep = 3
  Litres = {2}
  Stations = {FALSE, TRUE}
  InitPort <- MCInitPort
  PostIntervals = {3, 5}
  PostQuantities = {2, 4}
  SyncTimes = {2}
  ClockStepsBack = FALSE
  FlashErrors = FALSE
  MaxNow = 3
  MaxResets = 0
  MaxSyncs = 0
  MaxPosts = 2
  Bodies <- MCPlans
  ScratchSize = 4
  HeapDocs = 1
PROPERTIES
  SuccessMeansStored
