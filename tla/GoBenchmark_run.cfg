CONSTANTS
  NumChunks = 3
  Timeout = 3
SPECIFICATION LiveSpec
INVARIANTS
  TypeOK
  StreamInStep
  FailureHasCause
PROPERTIES
  EchoSpec
  ClientEnds
  GoroutineReturns
