SPECIFICATION Spec
CONSTANTS
  Accels <- SomeAccels
  Boot = 5
  Motions <- SomeMotions
  Switches <- Unpressed
  Noise = 2
  Behind = 1
INVARIANTS
  InStepUnlessLate
  SettingsAgree
CHECK_DEADLOCK FALSE
PROPERTIES
  Resynchronises
