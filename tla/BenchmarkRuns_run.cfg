SPECIFICATION LiveSpec
CONSTANTS
  ChunkSize = 3
  Header = 2
  Modulus = 64
  Sizes <- MCSizes
  MaxInflight = 2
INVARIANTS
  TypeOK
  EndTestsSound
  NothingSkipped
  SummaryTruthful
  PairFromOneRun
  CountsBalanced
PROPERTIES
  RunsEnd
