--------------------------- MODULE SwBarrierProofs ---------------------------
(***************************************************************************)
(* Proofs about the software barrier, for any number of harts and any      *)
(* width of barrier_iteration.                                             *)
(***************************************************************************)
EXTENDS SwBarrier, FiniteSetTheorems, TLAPS

(* The count of harts is a positive natural. *)
LEMMA HartCount == n \in Nat /\ n > 0
  BY CoresAssumption, FS_CardinalityType, FS_EmptySet DEF n

(* The waiting harts are finitely many, at most n, and n only if all wait. *)
LEMMA WaitingCount ==
  /\ IsFiniteSet(Waiting)
  /\ Cardinality(Waiting) \in Nat
  /\ Cardinality(Waiting) <= n
  /\ \A c \in Cores : c \notin Waiting =>
        /\ Cardinality(Waiting \cup {c}) = Cardinality(Waiting) + 1
        /\ Cardinality(Waiting) + 1 <= n
        /\ Cardinality(Waiting) + 1 = n => Waiting \cup {c} = Cores
<1>1. Waiting \in SUBSET Cores
  BY DEF Waiting
<1>2. IsFiniteSet(Waiting) /\ Cardinality(Waiting) <= n
  BY <1>1, CoresAssumption, FS_Subset DEF n
<1>3. Cardinality(Waiting) \in Nat
  BY <1>2, FS_CardinalityType
<1>4. ASSUME NEW c \in Cores, c \notin Waiting
      PROVE  /\ Cardinality(Waiting \cup {c}) = Cardinality(Waiting) + 1
             /\ Cardinality(Waiting) + 1 <= n
             /\ Cardinality(Waiting) + 1 = n => Waiting \cup {c} = Cores
  <2>1. Cardinality(Waiting \cup {c}) = Cardinality(Waiting) + 1
    BY <1>2, <1>4, FS_AddElement
  <2>2. Waiting \cup {c} \in SUBSET Cores
    BY <1>1
  <2>3. QED
    BY <2>1, <2>2, CoresAssumption, FS_Subset DEF n
<1>5. QED
  BY <1>2, <1>3, <1>4

(* Advancing the iteration always changes it, since IterMod >= 2. *)
LEMMA AdvanceChanges ==
  ASSUME NEW i \in 0..(IterMod - 1)
  PROVE  /\ (i + 1) % IterMod \in 0..(IterMod - 1)
         /\ (i + 1) % IterMod # i
<1>1. CASE i + 1 < IterMod
  <2>1. (i + 1) % IterMod = i + 1
    BY <1>1, IterAssumption
  <2>2. QED
    BY <2>1, <1>1, IterAssumption
<1>2. CASE i + 1 = IterMod
  <2>1. (i + 1) % IterMod = 0
    BY <1>2, IterAssumption
  <2>2. QED
    BY <2>1, <1>2, IterAssumption
<1>3. QED
  BY <1>1, <1>2, IterAssumption
------------------------------------------------------------------------------
IInv == TypeOK /\ CountInv

(* While a hart has yet to arrive, nobody is opening the barrier. *)
LEMMA NobodyOpens ==
  ASSUME IInv, NEW c \in Cores, c \notin Waiting, ~Opening(c)
  PROVE  \A d \in Cores : ~Opening(d)
  BY DEF IInv, CountInv

LEMMA InitIInv == Init => IInv
<1> SUFFICES ASSUME Init PROVE IInv
  OBVIOUS
<1>1. TypeOK
  BY HartCount, IterAssumption DEF Init, TypeOK
<1>2. Waiting = {}
  BY DEF Init, Waiting
<1>3. CountInv
  BY <1>2, HartCount, FS_EmptySet DEF Init, CountInv, Opening
<1>4. QED
  BY <1>1, <1>3 DEF IInv

(* A step that leaves the shared counters alone and takes a hart that is   *)
(* neither waiting nor opening to a place where it is neither.             *)
LEMMA QuietStep ==
  ASSUME IInv, TypeOK', NEW c \in Cores,
         UNCHANGED <<barrier, barrier_iteration>>,
         c \notin Waiting, ~Opening(c),
         pc'[c] \in {"out", "add"},
         pc'[c] = "add" => prev_it'[c] = barrier_iteration,
         \A d \in Cores \ {c} : pc'[d] = pc[d] /\ prev_it'[d] = prev_it[d]
  PROVE  IInv'
<1>1. Waiting' = Waiting
  BY DEF Waiting
<1>2. \A d \in Cores : ~Opening(d) /\ ~Opening(d)'
  BY NobodyOpens DEF Opening
<1>3. CountInv'
  BY <1>1, <1>2 DEF IInv, CountInv
<1>4. QED
  BY <1>3 DEF IInv

LEMMA NextIInv == IInv /\ [Next]_vars => IInv'
<1> SUFFICES ASSUME IInv, [Next]_vars PROVE IInv'
  OBVIOUS
<1> USE HartCount
<1>1. ASSUME NEW c \in Cores, Enter(c) PROVE IInv'
  <2>1. TypeOK'
    BY <1>1 DEF Enter, IInv, TypeOK
  <2>2. QED
    BY <1>1, <2>1, QuietStep DEF Enter, IInv, TypeOK, Waiting, Opening
<1>2. ASSUME NEW c \in Cores, Add(c) PROVE IInv'
  <2>1. c \notin Waiting /\ \A d \in Cores : ~Opening(d)
    BY <1>2, NobodyOpens DEF Add, Waiting, Opening
  <2>2. /\ barrier = Cardinality(Waiting)
        /\ barrier < n
        /\ prev_it[c] = barrier_iteration
    BY <1>2, <2>1 DEF Add, IInv, CountInv
  <2>3. TypeOK'
    BY <1>2, <2>2 DEF Add, IInv, TypeOK
  <2>4. CASE barrier + 1 = n
    <3>1. Waiting \cup {c} = Cores
      BY <2>1, <2>2, <2>4, WaitingCount
    <3>2. Waiting' = Waiting
      BY <1>2, <2>4 DEF Add, Waiting, IInv, TypeOK
    <3>3. Opening(c)' /\ pc'[c] = "reset" /\ barrier' = n
      BY <1>2, <2>4 DEF Add, Opening, IInv, TypeOK
    <3>4. \A d \in Cores \ {c} : ~Opening(d)' /\ pc'[d] # "add"
      BY <1>2, <2>1, <3>1 DEF Add, Opening, Waiting, IInv, TypeOK
    <3>5. CountInv'
      BY <3>1, <3>2, <3>3, <3>4 DEF CountInv
    <3>6. QED
      BY <2>3, <3>5 DEF IInv
  <2>5. CASE barrier + 1 # n
    <3>1. Waiting' = Waiting \cup {c}
      BY <1>2, <2>2, <2>5 DEF Add, Waiting, IInv, TypeOK
    <3>2. barrier' = Cardinality(Waiting') /\ barrier' < n
      BY <1>2, <2>1, <2>2, <2>5, <3>1, WaitingCount DEF Add
    <3>3. \A d \in Cores : ~Opening(d)'
      BY <1>2, <2>1, <2>5 DEF Add, Opening, IInv, TypeOK
    <3>4. \A d \in Cores : pc'[d] = "add" => prev_it'[d] = barrier_iteration'
      BY <1>2 DEF Add, IInv, TypeOK, CountInv
    <3>5. QED
      BY <2>3, <3>2, <3>3, <3>4 DEF IInv, CountInv
  <2>6. QED
    BY <2>4, <2>5
<1>3. ASSUME NEW c \in Cores, Reset(c) PROVE IInv'
  <2>1. TypeOK'
    BY <1>3 DEF Reset, IInv, TypeOK
  <2>2. \A d \in Cores \ {c} : d \in Waiting
    BY <1>3 DEF Reset, IInv, CountInv, Opening
  <2>3. Waiting' = Waiting
    BY <1>3 DEF Reset, Waiting, IInv, TypeOK
  <2>4. pc'[c] = "advance" /\ barrier' = 0
    BY <1>3 DEF Reset, IInv, TypeOK
  <2>5. \A d \in Cores \ {c} : pc'[d] = "spin"
    BY <1>3, <2>2 DEF Reset, Waiting, IInv, TypeOK
  <2>6. CountInv'
    BY <2>2, <2>3, <2>4, <2>5 DEF CountInv, Opening
  <2>7. QED
    BY <2>1, <2>6 DEF IInv
<1>4. ASSUME NEW c \in Cores, Advance(c) PROVE IInv'
  <2>1. /\ barrier_iteration' \in 0..(IterMod - 1)
        /\ barrier_iteration' # barrier_iteration
    BY <1>4, AdvanceChanges DEF Advance, IInv, TypeOK
  <2>2. TypeOK'
    BY <1>4, <2>1 DEF Advance, IInv, TypeOK
  <2>3. barrier = 0 /\ \A d \in Cores \ {c} : d \in Waiting
    BY <1>4 DEF Advance, IInv, CountInv, Opening
  <2>4. \A d \in Cores \ {c} : pc'[d] = "spin" /\ prev_it'[d] # barrier_iteration'
    BY <1>4, <2>1, <2>3 DEF Advance, Waiting, IInv, TypeOK
  <2>5. pc'[c] = "return" /\ barrier' = 0
    BY <1>4, <2>3 DEF Advance, IInv, TypeOK
  <2>6. Waiting' = {}
    BY <2>4, <2>5 DEF Waiting
  <2>7. CountInv'
    BY <2>4, <2>5, <2>6, FS_EmptySet DEF CountInv, Opening
  <2>8. QED
    BY <2>2, <2>7 DEF IInv
<1>5. ASSUME NEW c \in Cores, Spin(c) \/ Return(c) PROVE IInv'
  <2>1. TypeOK'
    BY <1>5 DEF Spin, Return, IInv, TypeOK
  <2>2. QED
    BY <1>5, <2>1, QuietStep DEF Spin, Return, IInv, TypeOK, Waiting, Opening
<1>6. CASE UNCHANGED vars
  <2>1. Waiting' = Waiting /\ \A c \in Cores : Opening(c)' = Opening(c)
    BY <1>6 DEF vars, Waiting, Opening
  <2>2. QED
    BY <1>6, <2>1 DEF vars, IInv, TypeOK, CountInv
<1>7. QED
  BY <1>1, <1>2, <1>3, <1>4, <1>5, <1>6 DEF Next, Step

(* The shared counter is exact in every reachable state, for any number of *)
(* harts and any wrap-around of the iteration.                             *)
THEOREM CountIsExact == Spec => [](TypeOK /\ CountInv)
<1>1. Init => IInv
  BY InitIInv
<1>2. IInv /\ [Next]_vars => IInv'
  BY NextIInv
<1>3. QED
  BY <1>1, <1>2, PTL DEF Spec, IInv

(* TypeOK: barrier never exceeds the harts, and the iteration its width.   *)
THEOREM SwBarrierTypeCorrect == Spec => []TypeOK
BY CountIsExact, PTL
------------------------------------------------------------------------------
(* How one hart's step appears to the abstract barrier. *)
LEMMA SimulateStep ==
  ASSUME IInv, NEW c \in Cores, Step(c)
  PROVE  B!Next \/ UNCHANGED B!vars
<1> USE DEF IInv, TypeOK
<1>0. UNCHANGED peers
  BY DEF peers
<1>1. CASE Enter(c)
  <2>1. \A d \in Cores : phase'[d] = phase[d]
    BY <1>1 DEF Enter, phase, Waiting
  <2>2. phase' = phase
    BY <2>1 DEF phase
  <2>3. QED
    BY <2>2, <1>0 DEF B!vars
<1>2. CASE Add(c)
  <2>1. phase[c] = "out" /\ phase'[c] = "waiting"
    BY <1>2 DEF Add, CountInv, phase, Waiting
  <2>2. \A d \in Cores \ {c} : phase'[d] = phase[d]
    BY <1>2 DEF Add, phase, Waiting
  <2>3. phase' = [d \in Cores |-> IF d \in {c} THEN "waiting" ELSE phase[d]]
    BY <2>1, <2>2 DEF phase
  <2>4. B!Arrive({c})
    BY <2>1, <2>3, <1>0 DEF B!Arrive, B!Move
  <2>5. QED
    BY <2>4 DEF B!Next
<1>3. CASE Reset(c)
  <2>1. \A d \in Cores : phase'[d] = phase[d]
    BY <1>3 DEF Reset, phase, Waiting
  <2>2. phase' = phase
    BY <2>1 DEF phase
  <2>3. QED
    BY <2>2, <1>0 DEF B!vars
<1>4. CASE Advance(c)
  <2>1. barrier_iteration' # barrier_iteration
    BY <1>4, AdvanceChanges DEF Advance
  <2>2. \A d \in Cores \ {c} : pc[d] = "spin" /\ prev_it[d] = barrier_iteration
    BY <1>4 DEF Advance, CountInv, Opening, Waiting
  <2>3. \A d \in Cores : phase[d] = "waiting" /\ phase'[d] = "released"
    BY <1>4, <2>1, <2>2 DEF Advance, phase, Waiting
  <2>4. phase' = [d \in Cores |-> IF d \in Cores THEN "released" ELSE phase[d]]
    BY <2>3 DEF phase
  <2>5. B!Release(Cores)
    BY <2>3, <2>4, <1>0 DEF B!Release, B!Move, peers
  <2>6. QED
    BY <2>5 DEF B!Next
<1>5. CASE Spin(c) \/ Return(c)
  <2>1. phase[c] = "released" /\ phase'[c] = "out"
    BY <1>5 DEF Spin, Return, phase, Waiting
  <2>2. \A d \in Cores \ {c} : phase'[d] = phase[d]
    BY <1>5 DEF Spin, Return, phase, Waiting
  <2>3. phase' = [d \in Cores |-> IF d \in {c} THEN "out" ELSE phase[d]]
    BY <2>1, <2>2 DEF phase
  <2>4. B!Leave({c})
    BY <2>1, <2>3, <1>0 DEF B!Leave, B!Move
  <2>5. QED
    BY <2>4 DEF B!Next
<1>6. QED
  BY <1>1, <1>2, <1>3, <1>4, <1>5 DEF Step

(* snrt_barrier implements the abstract barrier for any number of harts:   *)
(* no hart leaves an iteration that some hart has not entered.             *)
THEOREM SwBarrierCorrect == Spec => ImplementsBarrier
<1>1. Init => B!Init
  <2> SUFFICES ASSUME Init PROVE B!Init
    OBVIOUS
  <2>1. phase = [c \in Cores |-> "out"]
    BY DEF Init, phase
  <2>2. QED
    BY <2>1 DEF B!Init, peers
<1>2. IInv /\ [Next]_vars => [B!Next]_(B!vars)
  <2> SUFFICES ASSUME IInv, [Next]_vars PROVE [B!Next]_(B!vars)
    OBVIOUS
  <2>1. CASE Next
    BY <2>1, SimulateStep DEF Next
  <2>2. CASE UNCHANGED vars
    BY <2>2 DEF vars, B!vars, phase, peers, Waiting
  <2>3. QED
    BY <2>1, <2>2
<1>3. QED
  BY <1>1, <1>2, InitIInv, NextIInv, PTL DEF Spec, ImplementsBarrier, B!Spec
==============================================================================
