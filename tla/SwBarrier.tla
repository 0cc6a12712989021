------------------------------ MODULE SwBarrier ------------------------------
(***************************************************************************)
(* The software barrier of snRuntime (software/snRuntime/src/barrier.c).   *)
(* snrt_barrier, snrt_cluster_sw_barrier and snrt_global_barrier run the   *)
(* same four shared-memory accesses; each access is one action here:       *)
(*                                                                         *)
(*    prev = barr->barrier_iteration               Enter                   *)
(*    b = atomic ++barr->barrier                   Add                     *)
(*    b == n:  barr->barrier = 0                   Reset                   *)
(*             atomic ++barr->barrier_iteration    Advance, then Return    *)
(*    else:    spin while prev == iteration        Spin                    *)
(*                                                                         *)
(* Every hart calls the barrier again and again, as fast as it likes.      *)
(***************************************************************************)
EXTENDS Naturals, FiniteSets

CONSTANTS
  Cores,    \* the harts that call the barrier; n is their number
  IterMod   \* barrier_iteration is a uint32_t: it wraps at IterMod (2^32)

ASSUME CoresAssumption == IsFiniteSet(Cores) /\ Cores # {}
ASSUME IterAssumption == IterMod \in Nat /\ IterMod >= 2

VARIABLES
  barrier,            \* struct snrt_barrier: harts arrived in this iteration
  barrier_iteration,  \* struct snrt_barrier: completed iterations, modulo
  prev_it,            \* local of every hart: the iteration it entered in
  pc                  \* the next access of every hart

vars == <<barrier, barrier_iteration, prev_it, pc>>

n == Cardinality(Cores)

Init ==
  /\ barrier = 0
  /\ barrier_iteration = 0
  /\ prev_it = [c \in Cores |-> 0]
  /\ pc = [c \in Cores |-> "out"]

(* Mutant of Enter: the local is not refreshed on a second call. *)
EnterStale(c) ==
  /\ pc[c] = "out"
  /\ pc' = [pc EXCEPT ![c] = "add"]
  /\ UNCHANGED <<barrier, barrier_iteration, prev_it>>

(* The call: remember the previous iteration. *)
Enter(c) ==
  /\ pc[c] = "out"
  /\ prev_it' = [prev_it EXCEPT ![c] = barrier_iteration]
  /\ pc' = [pc EXCEPT ![c] = "add"]
  /\ UNCHANGED <<barrier, barrier_iteration>>

(* Mutant of Add: fetch_add instead of add_fetch, the old value compared. *)
AddFetchOld(c) ==
  /\ pc[c] = "add"
  /\ barrier' = barrier + 1
  /\ pc' = [pc EXCEPT ![c] = IF barrier = n THEN "reset" ELSE "spin"]
  /\ UNCHANGED <<barrier_iteration, prev_it>>

(* One atomic read-modify-write; the last of n harts opens the barrier. *)
Add(c) ==
  /\ pc[c] = "add"
  /\ barrier' = barrier + 1
  /\ pc' = [pc EXCEPT ![c] = IF barrier + 1 = n THEN "reset" ELSE "spin"]
  /\ UNCHANGED <<barrier_iteration, prev_it>>

(* Mutant of Reset: the last hart forgets to clear the counter. *)
ResetDropped(c) ==
  /\ pc[c] = "reset"
  /\ pc' = [pc EXCEPT ![c] = "advance"]
  /\ UNCHANGED <<barrier, barrier_iteration, prev_it>>

Reset(c) ==
  /\ pc[c] = "reset"
  /\ barrier' = 0
  /\ pc' = [pc EXCEPT ![c] = "advance"]
  /\ UNCHANGED <<barrier_iteration, prev_it>>

Advance(c) ==
  /\ pc[c] = "advance"
  /\ barrier_iteration' = (barrier_iteration + 1) % IterMod
  /\ pc' = [pc EXCEPT ![c] = "return"]
  /\ UNCHANGED <<barrier, prev_it>>

(* A read that still finds the old iteration goes round the empty loop. *)
Spin(c) ==
  /\ pc[c] = "spin"
  /\ prev_it[c] # barrier_iteration
  /\ pc' = [pc EXCEPT ![c] = "out"]
  /\ UNCHANGED <<barrier, barrier_iteration, prev_it>>

Return(c) ==
  /\ pc[c] = "return"
  /\ pc' = [pc EXCEPT ![c] = "out"]
  /\ UNCHANGED <<barrier, barrier_iteration, prev_it>>

(* Mutant of Step: the iteration is advanced before the counter is cleared. *)
StepSwapped(c) ==
  \/ Enter(c) \/ Add(c) \/ Spin(c) \/ Return(c)
  \/ /\ pc[c] = "reset"
     /\ barrier_iteration' = (barrier_iteration + 1) % IterMod
     /\ pc' = [pc EXCEPT ![c] = "advance"]
     /\ UNCHANGED <<barrier, prev_it>>
  \/ /\ pc[c] = "advance"
     /\ barrier' = 0
     /\ pc' = [pc EXCEPT ![c] = "return"]
     /\ UNCHANGED <<barrier_iteration, prev_it>>

Step(c) ==
  Enter(c) \/ Add(c) \/ Reset(c) \/ Advance(c) \/ Spin(c) \/ Return(c)

Next == \E c \in Cores : Step(c)

Spec == Init /\ [][Next]_vars

(* The harts run in parallel: none is stopped for ever. *)
FairSpec == Spec /\ \A c \in Cores : WF_vars(Step(c))
------------------------------------------------------------------------------
TypeOK ==
  /\ barrier \in 0..n
  /\ barrier_iteration \in 0..(IterMod - 1)
  /\ prev_it \in [Cores -> 0..(IterMod - 1)]
  /\ pc \in [Cores -> {"out", "add", "reset", "advance", "spin", "return"}]

(* The harts counted by the current iteration that are not its last one. *)
Waiting == {c \in Cores : pc[c] = "spin" /\ prev_it[c] = barrier_iteration}

Opening(c) == pc[c] \in {"reset", "advance"}

(***************************************************************************)
(* The shared counter is the number of harts that wait in the current      *)
(* iteration, so an early arrival for the next iteration is never lost and *)
(* a late leaver of the previous one never counted; a hart that has read   *)
(* the iteration but not yet added itself cannot have read a stale one;    *)
(* and whoever opens the barrier does so while every other hart waits.     *)
(***************************************************************************)
CountInv ==
  /\ \A c \in Cores : pc[c] = "add" => prev_it[c] = barrier_iteration
  /\ \A c \in Cores :
        Opening(c) => /\ \A d \in Cores \ {c} : d \in Waiting
                      /\ barrier = IF pc[c] = "reset" THEN n ELSE 0
  /\ (\A c \in Cores : ~Opening(c)) =>
        barrier = Cardinality(Waiting) /\ barrier < n

(***************************************************************************)
(* The barrier promise, for all n harts: a hart is released once it has    *)
(* seen, or is about to see, the advanced iteration.                       *)
(***************************************************************************)
phase == [c \in Cores |->
  CASE pc[c] \in {"out", "add"} -> "out"
    [] pc[c] = "return" \/ (pc[c] = "spin" /\ c \notin Waiting) -> "released"
    [] OTHER -> "waiting"]

peers == [c \in Cores |-> Cores]

B == INSTANCE Barrier

(* barrier.c implements the abstract barrier: no hart leaves an iteration  *)
(* before all n harts have entered it, however far the fast ones run ahead.*)
ImplementsBarrier == B!Spec

(* A hart that calls the barrier returns from it, provided all n harts     *)
(* call it; in particular the wrap-around of barrier_iteration and the     *)
(* early re-entry of fast harts never leave one spinning for ever.         *)
EveryCallReturns == \A c \in Cores : (pc[c] = "add") ~> (pc[c] = "out")
==============================================================================
