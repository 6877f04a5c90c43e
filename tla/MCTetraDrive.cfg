SPECIFICATION Spec
CONSTANTS
  Speeds <- SomeSpeeds
  Creep = 1
  Brake = 3
INVARIANTS
  TypeOK
  BumperHoldsServoOff
PROPERTIES
  NoOvershoot
  SpeedReached
  ReleaseRestoresServo
