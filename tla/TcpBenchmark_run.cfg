CONSTANTS
  c1 = c1
  c2 = c2
  Clients = {c1, c2}
  NumChunks = 2
SPECIFICATION LiveSpec
INVARIANTS
  TypeOK
  StreamInStep
  FailureHasCause
  OkMeansReadVerified
PROPERTIES
  EchoSpec
  ClientsEnd
  SessionsEnd
