SPECIFICATION Spec
CONSTANTS
  ByteBits = 2
  Frames <- MCFrames
  Release = 15
  Response = 80
  BitLow = 50
  ZeroHigh = 28
  OneHigh = 70
INVARIANTS
  TypeOK
  LostPulsesTimeOut
  OneMisreadIsReported
  NeverMoreThanSent
PROPERTIES
  ReadEnds
CHECK_DEADLOCK FALSE
