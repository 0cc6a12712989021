---------------------------- MODULE ClusterBarrier ----------------------------
(***************************************************************************)
(* The last level of the hardware barrier: cachepool_cluster_barrier.sv.   *)
(* ClusterTick is one clock edge; all tiles' state machines move together. *)
(***************************************************************************)
EXTENDS BarrierLink

VARIABLES
  cstate,    \* [Tiles -> state_q of the tile's state machine]
  barrier_q  \* the tiles that take part in the barrier

ClusterTypeOK ==
  /\ cstate \in [Tiles -> {"Idle", "Wait", "Take"}]
  /\ barrier_q \in SUBSET Tiles

(* After reset the participation register reads all ones, and barrier_q    *)
(* has followed it.                                                        *)
ClusterInit ==
  /\ cstate = [t \in Tiles |-> "Idle"]
  /\ barrier_q = Tiles

(* Mutant of GlobalTake: a waiting participant is enough. *)
SomeTake == \E t \in barrier_q : cstate[t] = "Wait"

GlobalTake == barrier_q = {t \in Tiles : cstate[t] = "Wait"}

(* Mutant of ClusterNextState: no short cut for a tile outside the mask. *)
EveryTileWaits(t, rready) ==
  CASE cstate[t] = "Idle" /\ ar[t] -> "Wait"
    [] cstate[t] = "Wait" /\ GlobalTake -> "Take"
    [] cstate[t] = "Take" /\ t \in rready -> "Idle"
    [] OTHER -> cstate[t]

(* rready: the tiles whose read channel carries nothing else and is ready. *)
ClusterNextState(t, rready) ==
  CASE cstate[t] = "Idle" /\ ar[t] -> (IF t \in barrier_q THEN "Wait" ELSE "Take")
    [] cstate[t] = "Wait" /\ GlobalTake -> "Take"
    [] cstate[t] = "Take" /\ t \in rready -> "Idle"
    [] OTHER -> cstate[t]

ClusterTick(rready) ==
  /\ cstate' = [t \in Tiles |-> ClusterNextState(t, rready)]
  /\ ar' = [t \in Tiles |-> ar[t] /\ cstate[t] # "Idle"]
  /\ r' = [t \in Tiles |-> r[t] \/ (cstate[t] = "Take" /\ t \in rready)]
  /\ UNCHANGED barrier_q

(* A store to the participation register.  barrier_q follows the register  *)
(* one clock later in every state of the machines, since the guard on      *)
(* is_barrier is evaluated just after is_barrier is cleared; no request    *)
(* issued after the store can reach the machines before that.              *)
SetMask(m) ==
  /\ barrier_q' = m
  /\ UNCHANGED <<cstate, ar, r>>
==============================================================================
