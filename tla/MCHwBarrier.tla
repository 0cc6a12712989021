----------------------------- MODULE MCHwBarrier -----------------------------
(* Three tiles of two harts; the mask takes in all tiles or two of them. *)
EXTENDS HwBarrier

CONSTANTS t1, t2, t3

TwoTiles == {t1, t2}
ThreeTiles == {t1, t2, t3}
Masks == {{t1, t2, t3}, {t1, t3}}
==============================================================================
