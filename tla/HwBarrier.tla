------------------------------ MODULE HwBarrier ------------------------------
(***************************************************************************)
(* The two-level hardware barrier of a CachePool cluster: the tiles' and   *)
(* the cluster's barriers, joined by the narrow AXI path.                  *)
(***************************************************************************)
EXTENDS TileBarrier, ClusterBarrier

CONSTANTS
  MaskValues,  \* the values software stores in the participation register
  MaskAnytime  \* TRUE: at any time.  FALSE: as the partial_barrier program
               \* does, while no hart waits in the hardware barrier

ASSUME MaskAssumption ==
  MaskValues \subseteq SUBSET Tiles /\ BusMayStall \in BOOLEAN /\ MaskAnytime \in BOOLEAN

vars == <<ar, r, core, tstate, cstate, barrier_q>>

Cores == Tiles \X Ports

(* A load is released once the cluster has granted its tile's request. *)
Released(t, p) ==
  \/ tstate[t][p] = "Take"
  \/ tstate[t][p] = "Global" /\ (r[t] \/ cstate[t] = "Take")

phase == [c \in Cores |->
  IF core[c[1]][c[2]] = "run" THEN "out"
  ELSE IF Released(c[1], c[2]) THEN "released" ELSE "waiting"]

peers == [c \in Cores |-> (IF c[1] \in barrier_q THEN barrier_q ELSE {c[1]}) \X Ports]

Init == LinkInit /\ TileInit /\ ClusterInit

HartStep(t, p) == Request(t, p) /\ UNCHANGED <<cstate, barrier_q>>

TileEdge(t) == TileStep(t) /\ UNCHANGED <<cstate, barrier_q>>

ClusterEdge ==
  /\ \E rready \in SUBSET Tiles : ClusterTick(rready)
  /\ UNCHANGED <<core, tstate>>

WriteMask ==
  /\ MaskAnytime \/ \A c \in Cores : phase[c] # "waiting"
  /\ \E c \in Cores : core[c[1]][c[2]] = "run"
  /\ \E m \in MaskValues : SetMask(m)
  /\ UNCHANGED <<core, tstate>>

Next ==
  \/ \E t \in Tiles, p \in Ports : HartStep(t, p)
  \/ \E t \in Tiles : TileEdge(t)
  \/ ClusterEdge
  \/ WriteMask

Spec == Init /\ [][Next]_vars

(* The clock does not stop, harts and channels do not refuse responses for *)
(* ever, and every hart keeps coming to the barrier.                       *)
FairSpec ==
  /\ Spec
  /\ \A t \in Tiles, p \in Ports : WF_vars(HartStep(t, p))
  /\ \A t \in Tiles : WF_vars(TileTick(t, TRUE, Ports) /\ UNCHANGED <<cstate, barrier_q>>)
  /\ WF_vars(ClusterTick(Tiles) /\ UNCHANGED <<core, tstate>>)
------------------------------------------------------------------------------
TypeOK == LinkTypeOK /\ TileTypeOK /\ ClusterTypeOK

(***************************************************************************)
(* A tile has at most one token: its request on the way to the cluster,    *)
(* its entry in the cluster's state machine, or the response.  While the   *)
(* token is out, all ports of the tile hold their hart's load in Global    *)
(* (a response still offered while port 0 is in Take is the one just       *)
(* taken), so a hart's early next load never meets an old response.        *)
(***************************************************************************)
Outstanding(t) == ar[t] \/ cstate[t] # "Idle"

TokenInv == \A t \in Tiles :
  /\ ar[t] => cstate[t] = "Idle"
  /\ Outstanding(t) => ~r[t] /\ \A p \in Ports : tstate[t][p] = "Global"
  /\ r[t] => \/ \A p \in Ports : tstate[t][p] = "Global"
             \/ tstate[t][Port0] = "Take"
  /\ tstate[t][Port0] = "Global" => Outstanding(t) \/ r[t]
  /\ \A p \in Ports : tstate[t][p] = "Global" => tstate[t][Port0] \in {"Wait", "Global"}

(* The port's state machine and its hart agree on the load's progress. *)
PortInv == \A t \in Tiles, p \in Ports :
  /\ tstate[t][p] \in {"Wait", "Global"} => core[t][p] = "req"
  /\ tstate[t][p] = "Take" <=> core[t][p] = "acc"

(* Port, hart, channel and cluster agree on where each barrier load is. *)
HwInv == TypeOK /\ TokenInv /\ PortInv

B == INSTANCE Barrier

(* The hardware barrier implements the abstract one: harts of the tiles in *)
(* the participation mask leave only after all of them came, harts of      *)
(* other tiles only after all harts of their own tile came.                *)
ImplementsBarrier == B!Spec

(* Every load of the barrier register is answered once all harts load it.  *)
EveryLoadReturns ==
  \A t \in Tiles, p \in Ports : (core[t][p] = "req") ~> (core[t][p] = "run")
==============================================================================
