------------------------------- MODULE Barrier -------------------------------
(***************************************************************************)
(* What every barrier of CachePool promises to the harts that call it.     *)
(*                                                                         *)
(* A hart is "out" of the barrier, "waiting" in it, or "released" by it    *)
(* and on its way out.  peers[c] is the set of harts that c synchronises   *)
(* with: all harts for the software barrier of snRuntime, the harts of     *)
(* the tiles in the participation mask for the hardware barrier, and the   *)
(* harts of its own tile for a hart whose tile is not in the mask.         *)
(***************************************************************************)
CONSTANT Cores

VARIABLES
  phase,  \* [Cores -> {"out", "waiting", "released"}]
  peers   \* [Cores -> SUBSET Cores]

vars == <<phase, peers>>

Phases == {"out", "waiting", "released"}

TypeOK ==
  /\ phase \in [Cores -> Phases]
  /\ peers \in [Cores -> SUBSET Cores]

Init ==
  /\ phase = [c \in Cores |-> "out"]
  /\ peers \in [Cores -> SUBSET Cores]

Move(S, from, to) ==
  /\ \A c \in S : phase[c] = from
  /\ phase' = [c \in Cores |-> IF c \in S THEN to ELSE phase[c]]

(* Harts call the barrier. *)
Arrive(S) == Move(S, "out", "waiting") /\ UNCHANGED peers

(* The barrier opens for a set of harts in which nobody misses a peer. *)
Release(S) ==
  /\ \A c \in S : peers[c] \subseteq S
  /\ Move(S, "waiting", "released")
  /\ UNCHANGED peers

(* Released harts return from the barrier, together or one by one. *)
Leave(S) == Move(S, "released", "out") /\ UNCHANGED peers

(* Software chooses other peers, while nobody waits for the present ones. *)
Regroup ==
  /\ \A c \in Cores : phase[c] # "waiting"
  /\ peers' \in [Cores -> SUBSET Cores]
  /\ UNCHANGED phase

Next ==
  \/ \E S \in SUBSET Cores : Arrive(S) \/ Release(S) \/ Leave(S)
  \/ Regroup

Spec == Init /\ [][Next]_vars
==============================================================================
