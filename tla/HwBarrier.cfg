SPECIFICATION FairSpec
CONSTANTS
  t1 = t1
  t2 = t2
  t3 = t3
  Tiles <- ThreeTiles
  Ports = {p0, p1}
  Port0 = p0
  BusMayStall = FALSE
  MaskValues <- Masks
  MaskAnytime = FALSE
INVARIANT
  HwInv
PROPERTIES
  ImplementsBarrier
  EveryLoadReturns
