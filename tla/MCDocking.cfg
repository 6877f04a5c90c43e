SPECIFICATION Spec
CONSTANTS
  TagIds = {0, 1}
  Poses <- DockingPoses
  Charging = {0, 2}
  PoseSources = {}
  RequestModes = {1, 4}
  NoMarkerMax = 1
  NoMarker2Max = 1
  RotationMax = 1
  BackMax = 1
  RetryMax = 1
  MaxGotos = 0
INVARIANTS
  TypeOK
  HaltedWhenDone
  ApproachesRequestedMarker
PROPERTIES
  DockingPhasesEnd
