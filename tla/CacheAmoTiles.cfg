SPECIFICATION FairSpec
CONSTANTS
  Tiles = {0, 1}
  Cores = {0}
  ReqIds = {0}
  Addrs = {0}
  Width = 1
  None = None
  Requests <- StoreOfAnotherTile
PROPERTIES
  ScOnlyWithReservation
