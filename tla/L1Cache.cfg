SPECIFICATION FairSpec
CONSTANTS
  Tiles = {0, 1}
  NumBanks = 1
  Offsets = {5}
  Privates = {0, 1}
  Addrs = {1}
  TileMasks = {{0}}
  SpmSizes = {0}
  MemStart = 8
  MemEnd = 131080
  L3Start = 0
INVARIANTS
  Tracking
PROPERTIES
  NoDataLost
  WaitCovers
  EveryCallReturns
