SPECIFICATION Spec
CONSTANTS
  Producers = {p1, p2}
  Consumers = {c1, c2}
  NULL = NULL
  NumPages = 3
  NumPkgs = 2
  AckThreshold = 10
SYMMETRY HartSymmetry
INVARIANT AllSentAtExit
