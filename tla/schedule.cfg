SPECIFICATION SpecAlone
CONSTANTS
  U32 = 64
  U16 = 16
  BootQuantity = 2
  FlowPeriod = 1
  SleepLoops = 3
  StationLoops = 2
  MaxSleep = 3
  Litres = {0, 1}
  Stations = {FALSE, TRUE}
  InitPort <- MCInitPort
  PostIntervals = {}
  PostQuantities = {}
  SyncTimes = {0, 4, 9}
  ClockStepsBack = FALSE
  FlashErrors = TRUE
  MaxNow = 9
  MaxResets = 1
  MaxSyncs = 2
  MaxPosts = 0
INVARIANTS
  TypeOK
  OverrunBounded
  VaultHoldsClosed
PROPERTIES
  SleepsOpenInTwoCases
  KeepsSchedule
