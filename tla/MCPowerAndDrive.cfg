SPECIFICATION Spec
CONSTANTS
  Speeds <- SomeSpeeds
  Patience = 1
  Creep = 1
  Brake = 1
  Queue = 2
PROPERTY
  CutOffArrives
