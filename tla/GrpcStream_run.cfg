CONSTANTS
  NumChunks = 6
  MaxInflight = 4
  Window = 2
SPECIFICATION LiveSpec
INVARIANTS
  TypeOK
  MapBounded
  NoLostWakeup
  OrphanIsUnregistered
  BlameMeansHalfInserted
  SuccessMeansVerified
  NoSilentFailure
PROPERTIES
  ReadInOrder
  EchoSpec
  EndsOrHangs
  HandlerReturns
  CleanRunSucceeds
