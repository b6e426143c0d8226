SPECIFICATION Spec
CONSTANTS
  Window = 2
  Factor2 = 2
  U32 = 16
  U16 = 3
  MaxNow = 8
  MaxPulses = 9
  ClockStepsBack = FALSE
INVARIANTS
  TypeOK
  NeverOvercounts
PROPERTIES
  WindowIsFull
  KeepsPromise
