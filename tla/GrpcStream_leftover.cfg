CONSTANTS
  NumChunks = 3
  MaxInflight = 2
  Window = 1
SPECIFICATION Spec
INVARIANTS
  AllAnsweredLeavesNone
