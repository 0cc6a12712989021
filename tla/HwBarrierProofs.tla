--------------------------- MODULE HwBarrierProofs ---------------------------
(***************************************************************************)
(* Proofs about the two-level hardware barrier, for any number of tiles    *)
(* and ports, any participation masks, with and without bus stalls.        *)
(***************************************************************************)
EXTENDS HwBarrier, TLAPS

(* The invariant, tile by tile. *)
TileInv(t) ==
  /\ ar[t] => cstate[t] = "Idle"
  /\ Outstanding(t) => ~r[t] /\ \A p \in Ports : tstate[t][p] = "Global"
  /\ r[t] => \/ \A p \in Ports : tstate[t][p] = "Global"
             \/ tstate[t][Port0] = "Take"
  /\ tstate[t][Port0] = "Global" => Outstanding(t) \/ r[t]
  /\ \A p \in Ports : tstate[t][p] = "Global" => tstate[t][Port0] \in {"Wait", "Global"}
  /\ \A p \in Ports :
        /\ tstate[t][p] \in {"Wait", "Global"} => core[t][p] = "req"
        /\ tstate[t][p] = "Take" <=> core[t][p] = "acc"

LEMMA InvByTile ==
  /\ HwInv <=> TypeOK /\ \A t \in Tiles : TileInv(t)
  /\ HwInv' <=> TypeOK' /\ \A t \in Tiles : TileInv(t)'
<1>1. HwInv <=> TypeOK /\ \A t \in Tiles : TileInv(t)
  BY DEF HwInv, TokenInv, PortInv, TileInv
<1>2. HwInv' <=> TypeOK' /\ \A t \in Tiles : TileInv(t)'
  BY DEF HwInv, TokenInv, PortInv, TileInv
<1>3. QED
  BY <1>1, <1>2

LEMMA InitHwInv == Init => HwInv
<1> SUFFICES ASSUME Init PROVE HwInv
  OBVIOUS
<1> USE DEF Init, LinkInit, TileInit, ClusterInit
<1>1. TypeOK
  BY DEF TypeOK, LinkTypeOK, TileTypeOK, ClusterTypeOK
<1>2. \A t \in Tiles : TileInv(t)
  BY PortAssumption DEF TileInv, Outstanding
<1>3. QED
  BY <1>1, <1>2, InvByTile

(* A tile none of whose state changes keeps its invariant. *)
LEMMA OtherTile ==
  ASSUME NEW t \in Tiles, TileInv(t),
         ar'[t] = ar[t], r'[t] = r[t], cstate'[t] = cstate[t],
         tstate'[t] = tstate[t], core'[t] = core[t]
  PROVE  TileInv(t)'
  BY DEF TileInv, Outstanding

LEMMA RequestInv ==
  ASSUME HwInv, NEW t \in Tiles, NEW p \in Ports, HartStep(t, p)
  PROVE  HwInv'
<1> USE DEF HartStep, Request, TypeOK, LinkTypeOK, TileTypeOK, ClusterTypeOK
<1>1. TypeOK /\ \A u \in Tiles : TileInv(u)
  BY InvByTile
<1>2. TypeOK'
  BY <1>1
<1>3. ASSUME NEW u \in Tiles PROVE TileInv(u)'
  <2>1. CASE u = t
    BY <1>1, <2>1 DEF TileInv, Outstanding
  <2>2. CASE u # t
    BY <1>1, <2>2, OtherTile
  <2>3. QED
    BY <2>1, <2>2
<1>4. QED
  BY <1>2, <1>3, InvByTile

LEMMA MaskInv == HwInv /\ WriteMask => HwInv'
<1> SUFFICES ASSUME HwInv, WriteMask PROVE HwInv'
  OBVIOUS
<1>1. TypeOK /\ \A t \in Tiles : TileInv(t)
  BY InvByTile
<1>2. TypeOK' /\ UNCHANGED <<ar, r, core, tstate, cstate>>
  BY <1>1, MaskAssumption
  DEF WriteMask, SetMask, TypeOK, LinkTypeOK, TileTypeOK, ClusterTypeOK
<1>3. \A t \in Tiles : TileInv(t)'
  BY <1>1, <1>2 DEF TileInv, Outstanding
<1>4. QED
  BY <1>2, <1>3, InvByTile
(* What one clock edge of a tile does, component by component. *)
LEMMA TileTickEffect ==
  ASSUME TypeOK, NEW t \in Tiles, NEW qready \in BOOLEAN, NEW pready \in SUBSET Ports,
         TileTick(t, qready, pready)
  PROVE  /\ \A p \in Ports : /\ tstate'[t][p] = NextState(t, p, qready, pready)
                             /\ core'[t][p] = NextCore(t, p, pready)
         /\ ar'[t] <=> ar[t] \/ SendsRequest(t, qready)
         /\ r'[t] <=> r[t] /\ Port0 \notin pready
         /\ \A u \in Tiles \ {t} : /\ tstate'[u] = tstate[u] /\ core'[u] = core[u]
                                  /\ ar'[u] = ar[u] /\ r'[u] = r[u]
         /\ TileTypeOK' /\ LinkTypeOK'
<1> USE DEF TypeOK, LinkTypeOK, TileTypeOK
<1>1. \A p \in Ports : NextState(t, p, qready, pready) \in {"Idle", "Wait", "Global", "Take"}
  BY DEF NextState
<1>2. \A p \in Ports : NextCore(t, p, pready) \in {"run", "req", "acc"}
  BY DEF NextCore
<1>3. tstate' \in [Tiles -> [Ports -> {"Idle", "Wait", "Global", "Take"}]]
  BY <1>1 DEF TileTick
<1>4. core' \in [Tiles -> [Ports -> {"run", "req", "acc"}]]
  BY <1>2 DEF TileTick
<1>5. /\ ar' \in [Tiles -> BOOLEAN]
      /\ ar'[t] <=> ar[t] \/ SendsRequest(t, qready)
      /\ \A u \in Tiles \ {t} : ar'[u] = ar[u]
  BY DEF TileTick, SendsRequest, LocalBarrier
<1>6. /\ r' \in [Tiles -> BOOLEAN]
      /\ r'[t] <=> r[t] /\ Port0 \notin pready
      /\ \A u \in Tiles \ {t} : r'[u] = r[u]
  BY DEF TileTick
<1>7. QED
  BY <1>3, <1>4, <1>5, <1>6 DEF TileTick

LEMMA TileEdgeInv ==
  ASSUME HwInv, NEW t \in Tiles, TileEdge(t)
  PROVE  HwInv'
<1>1. TypeOK /\ \A u \in Tiles : TileInv(u)
  BY InvByTile
<1>2. PICK qready \in BOOLEAN, pready \in SUBSET Ports : TileTick(t, qready, pready)
  BY DEF TileEdge, TileStep
<1>3. UNCHANGED <<cstate, barrier_q>>
  BY DEF TileEdge
<1>4. TypeOK'
  BY <1>1, <1>2, <1>3, TileTickEffect DEF TypeOK, ClusterTypeOK
<1>5. \A u \in Tiles \ {t} : TileInv(u)'
  BY <1>1, <1>2, <1>3, TileTickEffect, OtherTile
<1>6. TileInv(t)'
  <2>1. \A p \in Ports : /\ tstate'[t][p] = NextState(t, p, qready, pready)
                         /\ core'[t][p] = NextCore(t, p, pready)
    BY <1>1, <1>2, TileTickEffect
  <2>2. /\ ar'[t] <=> ar[t] \/ SendsRequest(t, qready)
        /\ r'[t] <=> r[t] /\ Port0 \notin pready
    BY <1>1, <1>2, TileTickEffect
  <2>3. \A p \in Ports : /\ tstate[t][p] \in {"Idle", "Wait", "Global", "Take"}
                         /\ core[t][p] \in {"run", "req", "acc"}
    BY <1>1 DEF TypeOK, TileTypeOK
  <2> USE PortAssumption, <1>1
  <2>4. \A p \in Ports : /\ tstate'[t][p] \in {"Wait", "Global"} => core'[t][p] = "req"
                         /\ tstate'[t][p] = "Take" <=> core'[t][p] = "acc"
    BY <2>1, <2>3 DEF TileInv, NextState, NextCore
  <2>5. CASE LocalBarrier(t)
    <3>1. ~r[t] /\ ~Outstanding(t)
      BY <2>5 DEF TileInv, LocalBarrier
    <3>2. \A p \in Ports : tstate'[t][p] = IF p = Port0 /\ ~qready THEN "Wait" ELSE "Global"
      BY <2>1, <2>5 DEF NextState, LocalBarrier
    <3>3. ~r'[t] /\ (ar'[t] <=> qready) /\ cstate'[t] = "Idle"
      BY <1>3, <2>2, <2>5, <3>1 DEF Outstanding, SendsRequest
    <3>4. QED
      BY <2>4, <3>2, <3>3 DEF TileInv, Outstanding
  <2>6. CASE ~LocalBarrier(t) /\ TakeBarrier(t)
    <3>1. \A p \in Ports : tstate[t][p] = "Global" /\ r[t]
      BY <2>6 DEF TakeBarrier, DoneBarrier
    <3>2. ~Outstanding(t) /\ \A p \in Ports : tstate'[t][p] = "Take"
      BY <2>1, <2>6, <3>1 DEF NextState, TileInv
    <3>3. ~ar'[t] /\ cstate'[t] = "Idle"
      BY <1>3, <2>2, <2>6, <3>2 DEF Outstanding, SendsRequest
    <3>4. QED
      BY <2>4, <3>2, <3>3 DEF TileInv, Outstanding
  <2>7. CASE ~LocalBarrier(t) /\ ~TakeBarrier(t)
    <3>1. \A p \in Ports : tstate[t][p] \in {"Wait", "Global"} => tstate'[t][p] = tstate[t][p]
      BY <2>1, <2>7 DEF NextState
    <3>2. \A p \in Ports : tstate'[t][p] \in {"Global", "Take"} => tstate[t][p] = tstate'[t][p]
      BY <2>1, <2>3, <2>7 DEF NextState
    <3>3. (ar'[t] <=> ar[t]) /\ cstate'[t] = cstate[t]
      BY <1>3, <2>2, <2>7 DEF SendsRequest
    <3>4. r[t] => tstate[t][Port0] = "Take"
      BY <2>7 DEF TakeBarrier, DoneBarrier, TileInv
    <3>5. r'[t] => r[t] /\ tstate'[t][Port0] = "Take"
      BY <2>1, <2>2, <3>4 DEF NextState
    <3>6. QED
      BY <2>4, <3>1, <3>2, <3>3, <3>4, <3>5 DEF TileInv, Outstanding
  <2>8. QED
    BY <2>5, <2>6, <2>7
<1>7. QED
  BY <1>4, <1>5, <1>6, InvByTile
(* What one clock edge of the cluster does to one tile. *)
LEMMA ClusterTickEffect ==
  ASSUME TypeOK, NEW rready \in SUBSET Tiles, ClusterTick(rready)
  PROVE  /\ \A t \in Tiles : /\ cstate'[t] = ClusterNextState(t, rready)
                             /\ ar'[t] <=> ar[t] /\ cstate[t] # "Idle"
                             /\ r'[t] <=> r[t] \/ (cstate[t] = "Take" /\ t \in rready)
         /\ ClusterTypeOK' /\ LinkTypeOK'
<1>1. \A t \in Tiles : ClusterNextState(t, rready) \in {"Idle", "Wait", "Take"}
  BY DEF ClusterNextState, TypeOK, ClusterTypeOK
<1>2. cstate' \in [Tiles -> {"Idle", "Wait", "Take"}] /\ barrier_q' = barrier_q
  BY <1>1 DEF ClusterTick
<1>3. \A t \in Tiles : /\ cstate'[t] = ClusterNextState(t, rready)
                       /\ ar'[t] <=> ar[t] /\ cstate[t] # "Idle"
                       /\ r'[t] <=> r[t] \/ (cstate[t] = "Take" /\ t \in rready)
  BY DEF ClusterTick
<1>4. LinkTypeOK'
  BY DEF ClusterTick, LinkTypeOK, TypeOK
<1>5. QED
  BY <1>2, <1>3, <1>4 DEF TypeOK, ClusterTypeOK

LEMMA ClusterEdgeInv == HwInv /\ ClusterEdge => HwInv'
<1> SUFFICES ASSUME HwInv, ClusterEdge PROVE HwInv'
  OBVIOUS
<1>1. TypeOK /\ \A t \in Tiles : TileInv(t)
  BY InvByTile
<1>2. PICK rready \in SUBSET Tiles : ClusterTick(rready)
  BY DEF ClusterEdge
<1>3. UNCHANGED <<core, tstate>>
  BY DEF ClusterEdge
<1>4. TypeOK'
  BY <1>1, <1>2, <1>3, ClusterTickEffect DEF TypeOK, TileTypeOK
<1>5. ASSUME NEW t \in Tiles PROVE TileInv(t)'
  <2>1. /\ cstate'[t] = ClusterNextState(t, rready)
        /\ ar'[t] <=> ar[t] /\ cstate[t] # "Idle"
        /\ r'[t] <=> r[t] \/ (cstate[t] = "Take" /\ t \in rready)
    BY <1>1, <1>2, ClusterTickEffect
  <2>2. cstate[t] \in {"Idle", "Wait", "Take"} /\ TileInv(t)
    BY <1>1 DEF TypeOK, ClusterTypeOK
  <2>3. ~ar'[t]
    BY <2>1, <2>2 DEF TileInv
  <2>4. CASE cstate[t] = "Idle"
    <3>1. (cstate'[t] # "Idle" <=> ar[t]) /\ (r'[t] <=> r[t])
      BY <2>1, <2>4 DEF ClusterNextState
    <3>2. QED
      BY <1>3, <2>2, <2>3, <2>4, <3>1 DEF TileInv, Outstanding
  <2>5. CASE cstate[t] = "Wait"
    <3>1. cstate'[t] # "Idle" /\ (r'[t] <=> r[t])
      BY <2>1, <2>5 DEF ClusterNextState
    <3>2. QED
      BY <1>3, <2>2, <2>3, <2>5, <3>1 DEF TileInv, Outstanding
  <2>6. CASE cstate[t] = "Take"
    <3>1. (cstate'[t] = "Idle" <=> t \in rready) /\ (r'[t] <=> r[t] \/ t \in rready)
      BY <2>1, <2>6 DEF ClusterNextState
    <3>2. QED
      BY <1>3, <2>2, <2>3, <2>6, <3>1 DEF TileInv, Outstanding
  <2>7. QED
    BY <2>2, <2>4, <2>5, <2>6
<1>6. QED
  BY <1>4, <1>5, InvByTile

LEMMA NextHwInv == HwInv /\ [Next]_vars => HwInv'
<1> SUFFICES ASSUME HwInv, [Next]_vars PROVE HwInv'
  OBVIOUS
<1>1. ASSUME NEW t \in Tiles, NEW p \in Ports, HartStep(t, p) PROVE HwInv'
  BY <1>1, RequestInv
<1>2. ASSUME NEW t \in Tiles, TileEdge(t) PROVE HwInv'
  BY <1>2, TileEdgeInv
<1>3. CASE ClusterEdge
  BY <1>3, ClusterEdgeInv
<1>4. CASE WriteMask
  BY <1>4, MaskInv
<1>5. CASE UNCHANGED vars
  BY <1>5 DEF vars, HwInv, TypeOK, LinkTypeOK, TileTypeOK, ClusterTypeOK, TokenInv, PortInv,
              Outstanding
<1>6. QED
  BY <1>1, <1>2, <1>3, <1>4, <1>5 DEF Next

(* Whatever the masks, the stalls and the latencies, a tile never has two  *)
(* barrier requests on its way and never takes an old response for a new   *)
(* one.                                                                    *)
THEOREM HwInvariant == Spec => []HwInv
<1>1. QED
  BY InitHwInv, NextHwInv, PTL DEF Spec
------------------------------------------------------------------------------
(* A hart's request is its arrival. *)
LEMMA SimulateRequest ==
  ASSUME HwInv, NEW t \in Tiles, NEW p \in Ports, HartStep(t, p)
  PROVE  B!Next
<1> USE DEF HwInv, TypeOK, LinkTypeOK, TileTypeOK, ClusterTypeOK
<1>1. UNCHANGED peers /\ UNCHANGED <<tstate, r, cstate>>
  BY DEF HartStep, Request, peers
<1>2. \A c \in Cores : core'[c[1]][c[2]] = IF c = <<t, p>> THEN "req" ELSE core[c[1]][c[2]]
  BY DEF HartStep, Request, Cores
<1>3. core[t][p] = "run" /\ ~Released(t, p)
  BY DEF HartStep, Request, PortInv, Released
<1>4. \A c \in Cores : Released(c[1], c[2])' = Released(c[1], c[2])
  BY <1>1 DEF Released
<1>5. phase[<<t, p>>] = "out"
  BY <1>3 DEF phase, Cores
<1>6. \A c \in Cores : phase'[c] = IF c \in {<<t, p>>} THEN "waiting" ELSE phase[c]
  BY <1>2, <1>3, <1>4 DEF phase, Cores
<1>7. phase' = [c \in Cores |-> IF c \in {<<t, p>>} THEN "waiting" ELSE phase[c]]
  BY <1>6 DEF phase
<1>8. B!Arrive({<<t, p>>})
  BY <1>1, <1>5, <1>7 DEF B!Arrive, B!Move
<1>9. QED
  BY <1>8 DEF B!Next, Cores
(* A clock edge of a tile is the departure of the harts that take their    *)
(* response; ports that change state inside the barrier stay in phase.     *)
LEMMA SimulateTile ==
  ASSUME HwInv, NEW t \in Tiles, TileEdge(t)
  PROVE  B!Next
<1>1. TypeOK /\ \A u \in Tiles : TileInv(u)
  BY InvByTile
<1>2. PICK qready \in BOOLEAN, pready \in SUBSET Ports : TileTick(t, qready, pready)
  BY DEF TileEdge, TileStep
<1>3. UNCHANGED cstate /\ UNCHANGED peers
  BY DEF TileEdge, peers
<1> DEFINE S == {c \in Cores : c[1] = t /\ tstate[t][c[2]] = "Take" /\ c[2] \in pready}
<1>4. ASSUME NEW c \in Cores, c[1] # t
      PROVE  phase'[c] = phase[c] /\ c \notin S
  <2>1. c[1] \in Tiles \ {t} /\ c[2] \in Ports
    BY <1>4 DEF Cores
  <2>2. /\ tstate'[c[1]] = tstate[c[1]] /\ core'[c[1]] = core[c[1]]
        /\ r'[c[1]] = r[c[1]] /\ cstate'[c[1]] = cstate[c[1]]
    BY <1>1, <1>2, <1>3, <2>1, TileTickEffect
  <2>3. QED
    BY <1>4, <2>2 DEF phase, Released
<1>5. ASSUME NEW p \in Ports
      PROVE  LET c == <<t, p>> IN
             IF tstate[t][p] = "Take" /\ p \in pready
             THEN phase[c] = "released" /\ phase'[c] = "out"
             ELSE phase'[c] = phase[c]
  <2> <<t, p>> \in Cores
    BY DEF Cores
  <2>1. /\ tstate'[t][p] = NextState(t, p, qready, pready)
        /\ core'[t][p] = NextCore(t, p, pready)
        /\ r'[t] <=> r[t] /\ Port0 \notin pready
    BY <1>1, <1>2, TileTickEffect
  <2>2. /\ tstate[t][p] \in {"Idle", "Wait", "Global", "Take"}
        /\ core[t][p] \in {"run", "req", "acc"}
    BY <1>1 DEF TypeOK, TileTypeOK
  <2>3. CASE tstate[t][p] = "Take"
    <3>1. core[t][p] = "acc"
      BY <1>1, <2>3 DEF TileInv
    <3>2. CASE p \in pready
      <4>1. core'[t][p] = "run"
        BY <2>1, <2>3, <3>2 DEF NextCore
      <4>2. phase[<<t, p>>] = "released"
        BY <2>3, <3>1 DEF phase, Released
      <4>3. phase'[<<t, p>>] = "out"
        BY <4>1 DEF phase
      <4>4. QED
        BY <2>3, <3>2, <4>2, <4>3
    <3>3. CASE p \notin pready
      <4>1. tstate'[t][p] = "Take" /\ core'[t][p] = "acc"
        BY <2>1, <2>3, <3>1, <3>3 DEF NextState, NextCore
      <4>2. QED
        BY <2>3, <3>1, <3>3, <4>1 DEF phase, Released
    <3>4. QED
      BY <3>2, <3>3
  <2>4. CASE tstate[t][p] = "Global"
    <3>1. core[t][p] = "req"
      BY <1>1, <2>4 DEF TileInv
    <3>2. CASE TakeBarrier(t)
      <4>1. r[t]
        BY <3>2, PortAssumption DEF TakeBarrier, DoneBarrier
      <4>2. tstate'[t][p] = "Take" /\ core'[t][p] = "acc"
        BY <2>1, <2>4, <3>2 DEF NextState, NextCore
      <4>3. QED
        BY <2>4, <3>1, <4>1, <4>2 DEF phase, Released
    <3>3. CASE ~TakeBarrier(t)
      <4>1. tstate'[t][p] = "Global" /\ core'[t][p] = "req"
        BY <2>1, <2>4, <3>1, <3>3 DEF NextState, NextCore
      <4>2. ~r[t]
        BY <1>1, <2>4, <3>3 DEF TakeBarrier, DoneBarrier, TileInv
      <4>3. ~r'[t]
        BY <2>1, <4>2
      <4>4. QED
        BY <1>3, <2>4, <3>1, <4>1, <4>2, <4>3 DEF phase, Released
    <3>4. QED
      BY <3>2, <3>3
  <2>5. CASE tstate[t][p] \in {"Idle", "Wait"}
    <3>1. core'[t][p] = core[t][p]
      BY <2>1, <2>5 DEF NextCore
    <3>2. CASE tstate'[t][p] \in {"Idle", "Wait"}
      BY <2>5, <3>1, <3>2 DEF phase, Released
    <3>3. CASE tstate'[t][p] \notin {"Idle", "Wait"}
      <4>1. LocalBarrier(t) /\ tstate'[t][p] = "Global"
        BY <2>1, <2>5, <3>3 DEF NextState
      <4>2. ~r[t] /\ cstate[t] = "Idle"
        BY <1>1, <4>1, PortAssumption DEF LocalBarrier, TileInv, Outstanding
      <4>3. ~r'[t] /\ cstate'[t] = "Idle"
        BY <1>3, <2>1, <4>2
      <4>4. QED
        BY <2>5, <3>1, <4>1, <4>2, <4>3 DEF phase, Released
    <3>4. QED
      BY <3>2, <3>3
  <2>6. QED
    BY <2>2, <2>3, <2>4, <2>5
<1>6. \A c \in Cores : IF c \in S THEN phase[c] = "released" /\ phase'[c] = "out"
                      ELSE phase'[c] = phase[c]
  <2> SUFFICES ASSUME NEW c \in Cores
               PROVE  IF c \in S THEN phase[c] = "released" /\ phase'[c] = "out"
                      ELSE phase'[c] = phase[c]
    OBVIOUS
  <2>1. CASE c[1] # t
    BY <1>4, <2>1
  <2>2. CASE c[1] = t
    <3>1. c = <<t, c[2]>> /\ c[2] \in Ports
      BY <2>2 DEF Cores
    <3>2. QED
      BY <1>5, <2>2, <3>1
  <2>3. QED
    BY <2>1, <2>2
<1>7. phase' = [c \in Cores |-> IF c \in S THEN "out" ELSE phase[c]]
  BY <1>6 DEF phase
<1>8. B!Leave(S)
  BY <1>3, <1>6, <1>7 DEF B!Leave, B!Move
<1>9. QED
  BY <1>8 DEF B!Next
(* A clock edge of the cluster is the release of the harts of the tiles it *)
(* grants: a tile outside the mask alone, the tiles of the mask together.  *)
LEMMA SimulateCluster == HwInv /\ ClusterEdge => B!Next
<1> SUFFICES ASSUME HwInv, ClusterEdge PROVE B!Next
  OBVIOUS
<1>1. TypeOK /\ \A t \in Tiles : TileInv(t)
  BY InvByTile
<1>2. PICK rready \in SUBSET Tiles : ClusterTick(rready)
  BY DEF ClusterEdge
<1>3. UNCHANGED <<core, tstate>> /\ UNCHANGED barrier_q /\ UNCHANGED peers
  BY <1>2 DEF ClusterEdge, ClusterTick, peers
<1> DEFINE Granted(t) == \/ cstate[t] = "Idle" /\ ar[t] /\ t \notin barrier_q
                         \/ cstate[t] = "Wait" /\ GlobalTake
           S == {c \in Cores : Granted(c[1])}
<1>4. ASSUME NEW c \in Cores
      PROVE  IF Granted(c[1]) THEN phase[c] = "waiting" /\ phase'[c] = "released"
             ELSE phase'[c] = phase[c]
  <2> DEFINE t == c[1]
             p == c[2]
  <2>1. t \in Tiles /\ p \in Ports
    BY DEF Cores
  <2>2. /\ cstate'[t] = ClusterNextState(t, rready)
        /\ r'[t] <=> r[t] \/ (cstate[t] = "Take" /\ t \in rready)
        /\ core'[t][p] = core[t][p] /\ tstate'[t][p] = tstate[t][p]
    BY <1>1, <1>2, <1>3, <2>1, ClusterTickEffect
  <2>3. cstate[t] \in {"Idle", "Wait", "Take"} /\ TileInv(t)
    BY <1>1, <2>1 DEF TypeOK, ClusterTypeOK
  <2>4. CASE Granted(t)
    <3>1. /\ tstate[t][p] = "Global" /\ core[t][p] = "req"
          /\ ~r[t] /\ cstate[t] # "Take"
      BY <2>1, <2>3, <2>4 DEF TileInv, Outstanding
    <3>2. cstate'[t] = "Take"
      BY <2>2, <2>4 DEF ClusterNextState
    <3>3. QED
      BY <2>2, <2>4, <3>1, <3>2 DEF phase, Released
  <2>5. CASE ~Granted(t)
    <3>1. CASE cstate[t] = "Take"
      <4>1. r'[t] \/ cstate'[t] = "Take"
        BY <2>2, <3>1 DEF ClusterNextState
      <4>2. QED
        BY <2>2, <2>5, <3>1, <4>1 DEF phase, Released
    <3>2. CASE cstate[t] # "Take"
      <4>1. cstate'[t] # "Take" /\ (r'[t] <=> r[t])
        BY <2>2, <2>3, <2>5, <3>2 DEF ClusterNextState
      <4>2. QED
        BY <2>2, <2>5, <3>2, <4>1 DEF phase, Released
    <3>3. QED
      BY <3>1, <3>2
  <2>6. QED
    BY <2>4, <2>5
<1>5. phase' = [c \in Cores |-> IF c \in S THEN "released" ELSE phase[c]]
  BY <1>4 DEF phase
<1>6. ASSUME NEW c \in S PROVE peers[c] \subseteq S
  <2>1. CASE cstate[c[1]] = "Idle"
    BY <2>1 DEF peers, Cores
  <2>2. CASE cstate[c[1]] = "Wait" /\ GlobalTake
    BY <2>2 DEF peers, Cores, GlobalTake
  <2>3. QED
    BY <2>1, <2>2
<1>7. B!Release(S)
  BY <1>3, <1>4, <1>5, <1>6 DEF B!Release, B!Move
<1>8. QED
  BY <1>7 DEF B!Next

(* A store to the mask, while no hart waits, only changes the peers. *)
LEMMA SimulateMask ==
  ASSUME HwInv, WriteMask, ~MaskAnytime
  PROVE  B!Next
<1>1. UNCHANGED <<ar, r, core, tstate, cstate>> /\ barrier_q' \in SUBSET Tiles
  BY MaskAssumption DEF WriteMask, SetMask
<1>2. UNCHANGED phase
  BY <1>1 DEF phase, Released
<1>3. peers' \in [Cores -> SUBSET Cores]
  BY <1>1 DEF peers, Cores
<1>4. \A c \in Cores : phase[c] # "waiting"
  BY DEF WriteMask
<1>5. QED
  BY <1>2, <1>3, <1>4 DEF B!Next, B!Regroup

(* With masks stored only while no hart waits, the two-level hardware      *)
(* barrier implements the abstract barrier, for any number of tiles and    *)
(* ports and any bus latency or stall: no hart leaves before its peers     *)
(* have come.                                                              *)
THEOREM HwBarrierCorrect ==
  ASSUME ~MaskAnytime
  PROVE  Spec => ImplementsBarrier
<1>1. Init => B!Init
  <2> SUFFICES ASSUME Init PROVE B!Init
    OBVIOUS
  <2> USE DEF Init, LinkInit, TileInit, ClusterInit
  <2>1. phase = [c \in Cores |-> "out"]
    BY DEF phase, Cores
  <2>2. peers \in [Cores -> SUBSET Cores]
    BY DEF peers, Cores
  <2>3. QED
    BY <2>1, <2>2 DEF B!Init
<1>2. HwInv /\ [Next]_vars => [B!Next]_(B!vars)
  <2> SUFFICES ASSUME HwInv, [Next]_vars PROVE [B!Next]_(B!vars)
    OBVIOUS
  <2>1. CASE Next
    BY <2>1, SimulateRequest, SimulateTile, SimulateCluster, SimulateMask DEF Next
  <2>2. CASE UNCHANGED vars
    <3>1. phase' = phase
      BY <2>2 DEF vars, phase, Released
    <3>2. peers' = peers
      BY <2>2 DEF vars, peers
    <3>3. QED
      BY <3>1, <3>2 DEF B!vars
  <2>3. QED
    BY <2>1, <2>2
<1>3. QED
  BY <1>1, <1>2, HwInvariant, PTL DEF Spec, ImplementsBarrier, B!Spec
==============================================================================
