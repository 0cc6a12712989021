----------------------------- MODULE MCL1Cache -----------------------------
(* Two tiles, each with a bank that is private or shared: an instruction is *)
(* for both tiles or one, and for the bank of a tile or none.               *)
EXTENDS L1Cache
=============================================================================
