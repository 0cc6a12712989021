SPECIFICATION FairSpec
CONSTANTS
  NumCores = 3
  MaxForks = 2
  Wrap = 65536
  Argcs = {7, 11}
  Microtasks <- StaticAndDynamic
CHECK_DEADLOCK FALSE
INVARIANTS
  TypeOK
  NoStrayWakeUp
  StaticSplit
  NoIterationSkipped
PROPERTIES
  ImplementsForkJoin
  SessionEnds
