----------------------------- MODULE TileBarrier -----------------------------
(***************************************************************************)
(* The first level of the hardware barrier: cachepool_tile_barrier.sv, one *)
(* instance per tile, with the harts that load the barrier register.       *)
(* TileTick is one clock edge of one tile: all its ports move together.    *)
(***************************************************************************)
EXTENDS BarrierLink

CONSTANT BusMayStall  \* may the path refuse the tile's request for a cycle?

VARIABLES
  core,   \* [Tiles -> [Ports -> {"run", "req", "acc"}]]: the hart runs, its
          \* barrier load is requested, its load is accepted
  tstate  \* [Tiles -> [Ports -> state_q of the port]]

TileTypeOK ==
  /\ core \in [Tiles -> [Ports -> {"run", "req", "acc"}]]
  /\ tstate \in [Tiles -> [Ports -> {"Idle", "Wait", "Global", "Take"}]]

TileInit ==
  /\ core = [t \in Tiles |-> [p \in Ports |-> "run"]]
  /\ tstate = [t \in Tiles |-> [p \in Ports |-> "Idle"]]

(* _snrt_cluster_barrier: the load, and the stall on its result. *)
Request(t, p) ==
  /\ core[t][p] = "run"
  /\ core' = [core EXCEPT ![t][p] = "req"]
  /\ UNCHANGED <<tstate, ar, r>>

(* Mutant of LocalBarrier: OR instead of AND over is_barrier. *)
AnyBarrier(t) == \E p \in Ports : tstate[t][p] = "Wait"

LocalBarrier(t) == \A p \in Ports : tstate[t][p] = "Wait"

DoneBarrier(t) == {p \in Ports : tstate[t][p] = "Global" /\ (p = Port0 => r[t])}

TakeBarrier(t) == DoneBarrier(t) = Ports

(* The request leaves through port 0 in the cycle in which all ports wait. *)
SendsRequest(t, qready) == LocalBarrier(t) /\ qready

NextState(t, p, qready, pready) ==
  CASE tstate[t][p] = "Idle" /\ core[t][p] = "req" -> "Wait"
    [] tstate[t][p] = "Wait" /\ LocalBarrier(t) /\ (p = Port0 => qready) -> "Global"
    [] tstate[t][p] = "Global" /\ TakeBarrier(t) -> "Take"
    [] tstate[t][p] = "Take" /\ p \in pready -> "Idle"
    [] OTHER -> tstate[t][p]

(* q_ready to the hart in Global, its response in Take. *)
NextCore(t, p, pready) ==
  CASE tstate[t][p] = "Global" /\ TakeBarrier(t) -> "acc"
    [] tstate[t][p] = "Take" /\ p \in pready -> "run"
    [] OTHER -> core[t][p]

(* qready: the path takes a request in this cycle.  pready: the harts that *)
(* take a response; port 0's p_ready is passed on to the path as it is.    *)
TileTick(t, qready, pready) ==
  /\ tstate' = [tstate EXCEPT ![t] = [p \in Ports |-> NextState(t, p, qready, pready)]]
  /\ core' = [core EXCEPT ![t] = [p \in Ports |-> NextCore(t, p, pready)]]
  /\ ar' = [ar EXCEPT ![t] = ar[t] \/ SendsRequest(t, qready)]
  /\ r' = [r EXCEPT ![t] = r[t] /\ Port0 \notin pready]

TileStep(t) ==
  \E qready \in (IF BusMayStall THEN BOOLEAN ELSE {TRUE}), pready \in SUBSET Ports :
     TileTick(t, qready, pready)
==============================================================================
