SPECIFICATION Spec
CONSTANTS
  Names = {dock}
  HOME = HOME
  Places = {origin, here}
  Origin = origin
  RetryMax = 2
  MaxGotos = 2
  MaxRestarts = 1
INVARIANTS
  TypeOK
  GoesWhereAsked
PROPERTIES
  ChainsEnd
