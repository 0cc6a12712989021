SPECIFICATION FairSpec
CONSTANTS
  NumHarts = 3
  NumLocks = 2
  MCS_TLS_SLOTS = 4
  Uses <- BothButHart0
  NULL = NULL
INVARIANT
  NodesAlive
PROPERTIES
  ImplementsFifoLock
  EveryAcquireReturns
