SPECIFICATION Spec
CONSTANTS
  Producers = {p1, p2}
  Consumers = {c1, c2}
  NULL = NULL
  NumPages = 2
  NumPkgs = 3
  AckThreshold = 1
SYMMETRY HartSymmetry
INVARIANTS
  ListsWellFormed
  PagesConserved
  PackagesConserved
  SequenceNumbers
