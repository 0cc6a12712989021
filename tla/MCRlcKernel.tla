----------------------------- MODULE MCRlcKernel -----------------------------
(* Two producers and two consumers; harts of one role are interchangeable. *)
EXTENDS RlcKernel, TLC

HartSymmetry == Permutations(Producers) \cup Permutations(Consumers)
==============================================================================
