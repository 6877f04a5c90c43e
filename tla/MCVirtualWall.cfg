SPECIFICATION Spec
CONSTANTS
  Ids = {1, 2}
  Shapes = {square, oblong, segment}
  Degenerate = {segment}
  NoWall = NoWall
INVARIANTS
  TypeOK
  LocalWithinGlobal
  DisarmedOnlyWhenClear
PROPERTIES
  DeletedWallDisappears
