CONSTANTS
  NumChunks = 3
  Timeout = 3
SPECIFICATION Spec
INVARIANTS
  TimeoutMeansSlowCall
