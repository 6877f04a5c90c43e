SPECIFICATION Spec
CONSTANTS
  TagIds = {0}
  Poses <- GotoPoses
  Charging = {0, 2}
  PoseSources = {rviz}
  RequestModes = {10}
  NoMarkerMax = 0
  NoMarker2Max = 0
  RotationMax = 0
  BackMax = 0
  RetryMax = 2
  MaxGotos = 2
INVARIANTS
  GoalsPaidFor
PROPERTIES
  NavigationSettles
