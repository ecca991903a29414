CONSTANTS
  c1 = c1
  Clients = {c1}
  NumChunks = 2
SPECIFICATION Spec
INVARIANTS
  ShortReadMeansEnd
