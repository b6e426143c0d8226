SPECIFICATION Spec
CONSTANTS
  EPD_WIDTH = 16
  EPD_HEIGHT = 5
  Font <- MCFont
  RamCols = 3
  RamRows = 5
  FirstRow = 3
  Lines = 4
  Outline <- MCOutline
  Updates <- MCUpdates
  Garbage <- MCGarbage
  MaxResets = 1
INVARIANTS
  TypeOK
  GlassShowsTheFrame
  MovesByFrames
PROPERTIES
  NeverTorn
  DrawsThePicture
  ComesBack
