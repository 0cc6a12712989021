SPECIFICATION FairSpec
CONSTANTS
  c1 = c1
  c2 = c2
  Clients = {c1, c2}
  Programs <- Sessions
  DM_TASK_QUEUE_SIZE = 2
  OwnPrograms <- Own
  Depth = 2
  IdWrap = 8
  FirstId = 6
  MaxJobs = 7
  DmSize = 12
  AllocSize = 9
  MemStart = 8
  MemEnd = 40
  L3Start = 3
CHECK_DEADLOCK FALSE
INVARIANTS
  TypeOK
  WaitCompletes
  RegionsDisjoint
PROPERTIES
  
  DmaWaitCovers
  EveryCallReturns
