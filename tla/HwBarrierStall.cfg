SPECIFICATION FairSpec
CONSTANTS
  t1 = t1
  t2 = t2
  t3 = t3
  Tiles <- TwoTiles
  Ports = {p0, p1}
  Port0 = p0
  BusMayStall = TRUE
  MaskValues = {}
  MaskAnytime = FALSE
PROPERTY
  EveryLoadReturns
