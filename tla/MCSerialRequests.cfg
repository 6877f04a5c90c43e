SPECIFICATION RequestSpec
CONSTANTS
  Numbers <- SomeNumbers
  Params <- SomeParams
  Speeds <- SomeSpeeds
  Settings <- SomeSettings
  Inports <- SomeInports
  Words <- SomeWords
  Strays <- SomeStrays
INVARIANTS
  WellFramed
  Understood
  RepliesAreAnswers
