SPECIFICATION Spec
CONSTANTS
  Frames = 4
  MaxInSocket = 2
  MaxLost = 3
  MaxOvertakes = 1
  MaxOther = 1
  HeadSize = 2
  ScanSize = 3
INVARIANTS
  TypeOK
  MixedOnlyIfDisturbed
  RecoversAfterOne
CHECK_DEADLOCK FALSE
