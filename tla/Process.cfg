SPECIFICATION Spec
CONSTANTS
  WordBits = 11
  Bases <- ThreeBases
  COD_SEG = 30
  Ahead = 25
  LinkLen = 5
  EnterLen = 5
  PlatterLens <- NoneOrAJump
  FlushLens <- AJump
  BadLens <- AJump
  MaxPlatter = 5
  MaxFlush = 5
  MaxBad = 5
  PageSize = 16
  Space = 48
  Top = 528
  The <- TheValues
  BitWord = 2
  FileLens <- Files
  MaxFiles = 2
  ArrayLens <- OneArray
INVARIANTS FrameKept CallsAsDeclared GoesWhereTold PatchRight
INVARIANTS NeverOverruns FlowsOn SegmentsHeld
INVARIANTS ArrayZeroWhole BitmapsCover
INVARIANTS EncodesRight RoomAhead
CHECK_DEADLOCK FALSE
