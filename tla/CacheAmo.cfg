SPECIFICATION FairSpec
CONSTANTS
  Tiles = {0, 1}
  Cores = {0, 1}
  ReqIds = {0, 1}
  Addrs = {0}
  Width = 3
  None = None
  Requests <- ConditionalsAndOthers
INVARIANTS
  TypeOK
  AluCorrect
PROPERTIES
  ImplementsAtomicMemory
  EveryRequestAnswered
