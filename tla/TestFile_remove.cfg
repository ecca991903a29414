CONSTANTS
  c1 = c1
  c2 = c2
  Clients = {c1, c2}
  NumBlocks = 2
SPECIFICATION Spec
PROPERTIES
  RemovesOldFile
