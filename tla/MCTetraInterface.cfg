SPECIFICATION Spec
CONSTANTS
  Reads = {"parameter"}
  Leftover <- ByteLeftover
  Patience = 2
  Behind = 1
INVARIANTS
  TypeOK
  CutOffMeansSilence
  PublishedIntact
  InStepUnlessLate
PROPERTIES
  DisconnectCutsServo
  KeepsWatch
