CONSTANTS
  c1 = c1
  c2 = c2
  Clients = {c1, c2}
  NumChunks = 2
SPECIFICATION Spec
INVARIANTS
  ResultsMeanSuccess
