SPECIFICATION FairSpec
CONSTANTS
  Cores = {c1, c2, c3, c4}
  IterMod = 2
INVARIANTS
  TypeOK
  CountInv
PROPERTIES
  ImplementsBarrier
  EveryCallReturns
