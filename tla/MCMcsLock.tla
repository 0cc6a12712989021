----------------------------- MODULE MCMcsLock -----------------------------
(* Three harts on one lock, two of them on a second one as well; with four  *)
(* slots to a row, hart 2 has just the two slots it needs to hold both.     *)
EXTENDS McsLock

BothButHart0(h) == IF h = 0 THEN {1} ELSE {1, 2}
=============================================================================
