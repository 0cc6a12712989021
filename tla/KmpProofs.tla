----------------------------- MODULE KmpProofs -----------------------------
(***************************************************************************)
(* Proofs about the event unit (eu.c), for any number of cores, and about  *)
(* the OpenMP runtime on top of it.                                        *)
(***************************************************************************)
EXTENDS Kmp, FiniteSetTheorems, TLAPS

(* The workers that workers_in_loop and workers_wfi count, and those that  *)
(* are done with the event of the open region.                             *)
InLoopSet == {c \in Workers : pc[c] \notin {"init", "barrier", "enter"}}
WfiSet == {c \in Workers : pc[c] \in {"wfi", "clear", "woken"}}
FiniSet == {c \in Workers : pc[c] = "sleep" \/ (pc[c] = "wfi" /\ c \notin cl_clint)}

(* The workers are busy with an event: those that FiniSet does not have    *)
(* yet have been woken, or are on their way into the loop.                 *)
Busy == pc[0] \in {"call", "task", "join"} /\ nthreads > 1

CountsExact ==
  /\ workers_in_loop = Cardinality(InLoopSet)
  /\ workers_wfi = Cardinality(WfiSet)
  /\ pc[0] = "boot" \/ Busy => fini_count = Cardinality(FiniSet)
  /\ pc[0] \in {"init", "barrier", "wake"} => fini_count = 0

(* An interrupt is pending from the wake-up until the worker clears it.    *)
IrqPending ==
  /\ cl_clint \subseteq Workers
  /\ \A c \in cl_clint : pc[c] \in {"wfi", "clear"}
  /\ \A c \in Workers : pc[c] = "clear" => c \in cl_clint

AllAt(labels) == \A c \in Workers : pc[c] \in labels
Quiet == cl_clint = {}

(* Where the workers may be, by the place of core 0. *)
Phases ==
  /\ exit_flag <=> pc[0] \in {"wakeexit", "end", "finished"}
  /\ nthreads = 0 <=> pc[0] \in {"init", "barrier", "boot", "serial", "wakeexit", "end", "finished"}
  /\ pc[0] \in {"init", "barrier"} => AllAt({"init", "barrier"}) /\ Quiet
  /\ pc[0] = "boot" => AllAt({"enter", "check", "team", "fini", "sleep", "wfi"}) /\ Quiet
  /\ pc[0] \in {"serial", "reset"} => AllAt({"sleep", "wfi"}) /\ Quiet
  /\ pc[0] \in {"run", "wake", "wakeexit"} => AllAt({"wfi"}) /\ Quiet
  /\ pc[0] = "wake" => nthreads > 1
  /\ Busy => AllAt({"wfi", "clear", "woken", "check", "team", "call", "task", "fini", "sleep"})
  /\ pc[0] \in {"call", "task", "join"} /\ ~Busy => AllAt({"wfi"}) /\ Quiet
  /\ pc[0] = "end" => AllAt({"wfi", "clear", "woken", "check", "end"})
                      /\ \A c \in Workers : pc[c] = "wfi" => c \in cl_clint
  /\ pc[0] = "finished" => AllAt({"finished"})
  /\ pc[0] \in {"init", "barrier", "boot", "serial", "run", "wake", "call", "task", "join",
                "reset", "wakeexit", "end", "finished"}

(* What a core has made of the open region, by its place. *)
Progress(c) ==
  IF c >= nthreads \/ pc[0] \in {"run", "wake"} THEN "idle"
  ELSE IF pc[c] = "task" THEN "running"
  ELSE IF pc[c] \in {"join", "reset", "fini"} \/ c \in FiniSet THEN "done"
  ELSE "idle"

StatusExact ==
  /\ \A c \in Cores : status[c] = Progress(c)
  /\ \A c \in Workers : pc[c] \in {"call", "task"} => c < nthreads

EuInv == EuTypeOK /\ CountsExact /\ IrqPending /\ Phases /\ StatusExact
------------------------------------------------------------------------------
LEMMA CoreCount ==
  /\ NumCores \in Nat /\ NumCores > 0
  /\ 0 \in Cores /\ Workers \subseteq Cores /\ 0 \notin Workers
  /\ \A c \in Cores : c \in Nat /\ c < NumCores
  /\ \A c \in Workers : c > 0
  /\ IsFiniteSet(Workers) /\ Cardinality(Workers) = NumCores - 1
<1>1. NumCores \in Nat /\ NumCores > 0
  BY CoresAssumption
<1>2. Workers = 1..(NumCores - 1)
  BY <1>1 DEF Workers, Cores
<1>3. IsFiniteSet(Workers) /\ Cardinality(Workers) = NumCores - 1
  BY <1>1, <1>2, FS_Interval
<1>4. QED
  BY <1>1, <1>3 DEF Workers, Cores

(* Counting workers: adding one, removing one, and having them all.        *)
LEMMA CountWorkers ==
  ASSUME NEW S \in SUBSET Workers
  PROVE  /\ IsFiniteSet(S)
         /\ Cardinality(S) \in 0..(NumCores - 1)
         /\ Cardinality(S) = NumCores - 1 => S = Workers
         /\ \A c \in Workers : c \notin S =>
               Cardinality(S \cup {c}) = Cardinality(S) + 1 /\ Cardinality(S) + 1 <= NumCores - 1
         /\ \A c \in Workers : c \in S =>
               Cardinality(S \ {c}) = Cardinality(S) - 1 /\ Cardinality(S) >= 1
<1>1. \A T \in SUBSET Workers :
        /\ IsFiniteSet(T) /\ Cardinality(T) \in Nat /\ Cardinality(T) <= NumCores - 1
        /\ Cardinality(T) = NumCores - 1 => T = Workers
  BY CoreCount, FS_Subset, FS_CardinalityType
<1>2. ASSUME NEW c \in Workers, c \notin S
      PROVE  Cardinality(S \cup {c}) = Cardinality(S) + 1 /\ Cardinality(S) + 1 <= NumCores - 1
  <2>1. Cardinality(S \cup {c}) = Cardinality(S) + 1
    BY <1>1, <1>2, FS_AddElement
  <2>2. QED
    BY <1>1, <2>1
<1>3. ASSUME NEW c \in Workers, c \in S
      PROVE  Cardinality(S \ {c}) = Cardinality(S) - 1 /\ Cardinality(S) >= 1
  <2>1. Cardinality(S \ {c}) = Cardinality(S) - 1
    BY <1>1, <1>3, FS_RemoveElement
  <2>2. Cardinality(S \ {c}) \in Nat
    BY <1>1
  <2>3. QED
    BY <1>1, <2>1, <2>2
<1>4. QED
  BY <1>1, <1>2, <1>3, CoreCount

(* What wait_worker_wfi has seen: in the serial part all workers sleep.    *)
LEMMA AllAsleep ==
  ASSUME EuInv, AllInWfi, pc[0] = "serial"
  PROVE  AllAt({"wfi"})
<1>1. InLoopSet = Workers
  BY DEF EuInv, Phases, AllAt, InLoopSet
<1>2. WfiSet \in SUBSET Workers
  BY DEF WfiSet
<1>3. Cardinality(WfiSet) = NumCores - 1
  BY <1>1, CoreCount DEF EuInv, CountsExact, AllInWfi
<1>4. WfiSet = Workers
  BY <1>2, <1>3, CountWorkers
<1>5. QED
  BY <1>4 DEF EuInv, Phases, AllAt, WfiSet
------------------------------------------------------------------------------
LEMMA InitEuInv == EuInit => EuInv
<1> SUFFICES ASSUME EuInit PROVE EuInv
  OBVIOUS
<1>1. InLoopSet = {} /\ WfiSet = {} /\ FiniSet = {}
  BY CoreCount DEF EuInit, InLoopSet, WfiSet, FiniSet
<1>2. EuTypeOK /\ IrqPending
  <2>0. eu_ready \in BOOLEAN /\ exit_flag \in BOOLEAN
    BY DEF EuInit
  <2>1. EuTypeOK
    BY <2>0, CoreCount DEF EuInit, EuTypeOK, Labels
  <2>2. IrqPending
    BY CoreCount DEF EuInit, IrqPending, Workers
  <2>3. QED
    BY <2>1, <2>2
<1>3. CountsExact
  BY <1>1, FS_EmptySet, CoreCount DEF EuInit, CountsExact, Busy
<1>4. Phases
  BY CoreCount DEF EuInit, Phases, AllAt, Quiet, Busy
<1>5. StatusExact
  BY CoreCount DEF EuInit, StatusExact, Progress
<1>6. QED
  BY <1>2, <1>3, <1>4, <1>5 DEF EuInv
------------------------------------------------------------------------------
(* A step of a worker. *)
LEMMA WorkerEuInv == ASSUME EuInv, NEW c \in Workers, WorkerStep(c) PROVE EuInv'
<1> USE CoreCount DEF EuInv, EuTypeOK, Labels, Move, Goto, At, counters
<1>0. pc[0] \in Labels /\ c \in Cores /\ c # 0
  OBVIOUS
<1>a. \A S \in {InLoopSet, WfiSet, FiniSet} :
        /\ Cardinality(S) \in 0..(NumCores - 1)
        /\ c \notin S => Cardinality(S \cup {c}) = Cardinality(S) + 1 /\ Cardinality(S) + 1 <= NumCores - 1
        /\ c \in S => Cardinality(S \ {c}) = Cardinality(S) - 1 /\ Cardinality(S) >= 1
  <2>1. InLoopSet \in SUBSET Workers /\ WfiSet \in SUBSET Workers /\ FiniSet \in SUBSET Workers
    BY DEF InLoopSet, WfiSet, FiniSet
  <2>2. QED
    BY <2>1, CountWorkers
<1>1. CASE EnterLoop(c)
  <2>1. /\ InLoopSet' = InLoopSet \cup {c} /\ WfiSet' = WfiSet /\ FiniSet' = FiniSet
        /\ c \notin InLoopSet /\ pc'[0] = pc[0] /\ Busy' = Busy
    BY <1>1 DEF EnterLoop, InLoopSet, WfiSet, FiniSet, IrqPending, Phases, AllAt, Quiet, Busy
  <2>2. CountsExact'
    BY <1>1, <1>a, <2>1 DEF EnterLoop, CountsExact, InLoopSet, WfiSet, FiniSet, Phases, AllAt
  <2>3. EuTypeOK'
    BY <1>1, <2>1, <1>a, <2>2 DEF EnterLoop, CountsExact, InLoopSet, WfiSet, FiniSet, Phases, AllAt
  <2>4. IrqPending'
    BY <1>1 DEF EnterLoop, IrqPending
  <2>5. Phases'
    BY <1>1, <2>1 DEF EnterLoop, Phases, AllAt, Quiet, IrqPending
  <2>6. StatusExact'
    BY <1>1, <2>1 DEF EnterLoop, StatusExact, Progress, Phases, AllAt, Busy, FiniSet
  <2>7. QED
    BY <2>2, <2>3, <2>4, <2>5, <2>6
<1>2. CASE CheckExit(c)
  <2>1. /\ InLoopSet' = InLoopSet /\ WfiSet' = WfiSet /\ FiniSet' = FiniSet
        /\ pc'[0] = pc[0] /\ Busy' = Busy
    BY <1>2 DEF CheckExit, InLoopSet, WfiSet, FiniSet, IrqPending, Phases, AllAt, Quiet, Busy
  <2>2. CountsExact'
    BY <1>2, <1>a, <2>1 DEF CheckExit, CountsExact, InLoopSet, WfiSet, FiniSet, Phases, AllAt
  <2>3. EuTypeOK'
    BY <1>2, <2>1, <1>a, <2>2 DEF CheckExit, CountsExact, InLoopSet, WfiSet, FiniSet, Phases, AllAt
  <2>4. IrqPending'
    BY <1>2 DEF CheckExit, IrqPending
  <2>5. Phases'
    <3>1. pc' = [pc EXCEPT ![c] = IF pc[0] \in {"wakeexit", "end", "finished"} THEN "end" ELSE "team"]
      BY <1>2 DEF CheckExit, Phases
    <3>2. Busy \/ pc[0] \in {"boot", "end"}
      BY <1>2 DEF CheckExit, Phases, AllAt
    <3>3. pc'[c] = IF pc[0] = "end" THEN "end" ELSE "team"
      BY <3>1, <3>2 DEF Busy
    <3>4. UNCHANGED <<exit_flag, nthreads, cl_clint>>
      BY <1>2 DEF CheckExit
    <3>5. \A d \in Workers \ {c} : pc'[d] = pc[d]
      BY <3>1
    <3>6. QED
      BY <2>1, <3>2, <3>3, <3>4, <3>5 DEF Phases, AllAt, Quiet, Busy
  <2>6. StatusExact'
    BY <1>2, <2>1 DEF CheckExit, StatusExact, Progress, Phases, AllAt, Busy, FiniSet
  <2>7. QED
    BY <2>2, <2>3, <2>4, <2>5, <2>6
<1>3. CASE CheckTeam(c)
  <2>1. /\ InLoopSet' = InLoopSet /\ WfiSet' = WfiSet /\ FiniSet' = FiniSet
        /\ pc'[0] = pc[0] /\ Busy' = Busy
    BY <1>3 DEF CheckTeam, InLoopSet, WfiSet, FiniSet, IrqPending, Phases, AllAt, Quiet, Busy
  <2>2. CountsExact'
    BY <1>3, <1>a, <2>1 DEF CheckTeam, CountsExact, InLoopSet, WfiSet, FiniSet, Phases, AllAt
  <2>3. EuTypeOK'
    BY <1>3, <2>1, <1>a, <2>2 DEF CheckTeam, CountsExact, InLoopSet, WfiSet, FiniSet, Phases, AllAt
  <2>4. IrqPending'
    BY <1>3 DEF CheckTeam, IrqPending
  <2>5. Phases'
    BY <1>3, <2>1 DEF CheckTeam, Phases, AllAt, Quiet, IrqPending
  <2>6. StatusExact'
    BY <1>3, <2>1 DEF CheckTeam, StatusExact, Progress, Phases, AllAt, Busy, FiniSet
  <2>7. QED
    BY <2>2, <2>3, <2>4, <2>5, <2>6
<1>4. CASE AddFini(c)
  <2>1. /\ InLoopSet' = InLoopSet /\ WfiSet' = WfiSet /\ FiniSet' = FiniSet \cup {c}
        /\ c \notin FiniSet /\ pc'[0] = pc[0] /\ Busy' = Busy
    BY <1>4 DEF AddFini, InLoopSet, WfiSet, FiniSet, IrqPending, Phases, AllAt, Quiet, Busy
  <2>2. CountsExact'
    BY <1>4, <1>a, <2>1 DEF AddFini, CountsExact, InLoopSet, WfiSet, FiniSet, Phases, AllAt
  <2>3. EuTypeOK'
    BY <1>4, <2>1, <1>a, <2>2 DEF AddFini, CountsExact, InLoopSet, WfiSet, FiniSet, Phases, AllAt
  <2>4. IrqPending'
    BY <1>4 DEF AddFini, IrqPending
  <2>5. Phases'
    BY <1>4, <2>1 DEF AddFini, Phases, AllAt, Quiet, IrqPending
  <2>6. StatusExact'
    BY <1>4, <2>1 DEF AddFini, StatusExact, Progress, Phases, AllAt, Busy, FiniSet
  <2>7. QED
    BY <2>2, <2>3, <2>4, <2>5, <2>6
<1>5. CASE AddWfi(c)
  <2>1. /\ InLoopSet' = InLoopSet /\ WfiSet' = WfiSet \cup {c} /\ FiniSet' = FiniSet
        /\ c \notin WfiSet /\ pc'[0] = pc[0] /\ Busy' = Busy
    BY <1>5 DEF AddWfi, InLoopSet, WfiSet, FiniSet, IrqPending, Phases, AllAt, Quiet, Busy
  <2>2. CountsExact'
    BY <1>5, <1>a, <2>1 DEF AddWfi, CountsExact, InLoopSet, WfiSet, FiniSet, Phases, AllAt
  <2>3. EuTypeOK'
    BY <1>5, <2>1, <1>a, <2>2 DEF AddWfi, CountsExact, InLoopSet, WfiSet, FiniSet, Phases, AllAt
  <2>4. IrqPending'
    BY <1>5 DEF AddWfi, IrqPending
  <2>5. Phases'
    BY <1>5, <2>1 DEF AddWfi, Phases, AllAt, Quiet, IrqPending
  <2>6. StatusExact'
    BY <1>5, <2>1 DEF AddWfi, StatusExact, Progress, Phases, AllAt, Busy, FiniSet
  <2>7. QED
    BY <2>2, <2>3, <2>4, <2>5, <2>6
<1>6. CASE Wfi(c)
  <2>1. /\ InLoopSet' = InLoopSet /\ WfiSet' = WfiSet /\ FiniSet' = FiniSet
        /\ pc'[0] = pc[0] /\ Busy' = Busy
    BY <1>6 DEF Wfi, InLoopSet, WfiSet, FiniSet, IrqPending, Phases, AllAt, Quiet, Busy
  <2>2. CountsExact'
    BY <1>6, <1>a, <2>1 DEF Wfi, CountsExact, InLoopSet, WfiSet, FiniSet, Phases, AllAt
  <2>3. EuTypeOK'
    BY <1>6, <2>1, <1>a, <2>2 DEF Wfi, CountsExact, InLoopSet, WfiSet, FiniSet, Phases, AllAt
  <2>4. IrqPending'
    BY <1>6 DEF Wfi, IrqPending
  <2>5. Phases'
    BY <1>6, <2>1 DEF Wfi, Phases, AllAt, Quiet, IrqPending
  <2>6. StatusExact'
    BY <1>6, <2>1 DEF Wfi, StatusExact, Progress, Phases, AllAt, Busy, FiniSet
  <2>7. QED
    BY <2>2, <2>3, <2>4, <2>5, <2>6
<1>7. CASE ClearIrq(c)
  <2>1. /\ InLoopSet' = InLoopSet /\ WfiSet' = WfiSet /\ FiniSet' = FiniSet
        /\ pc'[0] = pc[0] /\ Busy' = Busy
    BY <1>7 DEF ClearIrq, InLoopSet, WfiSet, FiniSet, IrqPending, Phases, AllAt, Quiet, Busy
  <2>2. CountsExact'
    BY <1>7, <1>a, <2>1 DEF ClearIrq, CountsExact, InLoopSet, WfiSet, FiniSet, Phases, AllAt
  <2>3. EuTypeOK'
    BY <1>7, <2>1, <1>a, <2>2 DEF ClearIrq, CountsExact, InLoopSet, WfiSet, FiniSet, Phases, AllAt
  <2>4. IrqPending'
    BY <1>7 DEF ClearIrq, IrqPending
  <2>5. Phases'
    BY <1>7, <2>1 DEF ClearIrq, Phases, AllAt, Quiet, IrqPending
  <2>6. StatusExact'
    BY <1>7, <2>1 DEF ClearIrq, StatusExact, Progress, Phases, AllAt, Busy, FiniSet
  <2>7. QED
    BY <2>2, <2>3, <2>4, <2>5, <2>6
<1>8. CASE SubWfi(c)
  <2>1. /\ InLoopSet' = InLoopSet /\ WfiSet' = WfiSet \ {c} /\ FiniSet' = FiniSet
        /\ c \in WfiSet /\ pc'[0] = pc[0] /\ Busy' = Busy
    BY <1>8 DEF SubWfi, InLoopSet, WfiSet, FiniSet, IrqPending, Phases, AllAt, Quiet, Busy
  <2>2. CountsExact'
    BY <1>8, <1>a, <2>1 DEF SubWfi, CountsExact, InLoopSet, WfiSet, FiniSet, Phases, AllAt
  <2>3. EuTypeOK'
    BY <1>8, <2>1, <1>a, <2>2 DEF SubWfi, CountsExact, InLoopSet, WfiSet, FiniSet, Phases, AllAt
  <2>4. IrqPending'
    BY <1>8 DEF SubWfi, IrqPending
  <2>5. Phases'
    BY <1>8, <2>1 DEF SubWfi, Phases, AllAt, Quiet, IrqPending
  <2>6. StatusExact'
    BY <1>8, <2>1 DEF SubWfi, StatusExact, Progress, Phases, AllAt, Busy, FiniSet
  <2>7. QED
    BY <2>2, <2>3, <2>4, <2>5, <2>6
<1>9. QED
  BY <1>1, <1>2, <1>3, <1>4, <1>5, <1>6, <1>7, <1>8 DEF WorkerStep
------------------------------------------------------------------------------
(* A step of core 0 that moves no worker.                                  *)
LEMMA SameWorkers ==
  ASSUME EuInv, NEW label \in Labels, Goto(0, label)
  PROVE  /\ pc'[0] = label /\ \A c \in Workers : pc'[c] = pc[c]
         /\ InLoopSet' = InLoopSet /\ WfiSet' = WfiSet
         /\ cl_clint' = cl_clint => FiniSet' = FiniSet
         /\ pc' \in [Cores -> Labels]
<1> USE CoreCount DEF EuInv, EuTypeOK, Goto
<1>1. pc'[0] = label /\ \A c \in Workers : pc'[c] = pc[c]
  OBVIOUS
<1>2. InLoopSet' = InLoopSet /\ WfiSet' = WfiSet
  BY <1>1 DEF InLoopSet, WfiSet
<1>3. ASSUME cl_clint' = cl_clint PROVE FiniSet' = FiniSet
  BY <1>1, <1>3 DEF FiniSet
<1>4. pc' \in [Cores -> Labels]
  OBVIOUS
<1>5. QED
  BY <1>1, <1>2, <1>3, <1>4

(* snrt_omp_bootstrap. *)
LEMMA StartUpEuInv ==
  ASSUME EuInv, Setup \/ HwBarrier \/ Boot \/ \E c \in Workers : AwaitSetup(c)
  PROVE  EuInv'
<1> USE CoreCount DEF EuInv, EuTypeOK, Labels, Move, Goto, At, counters
<1>1. CASE Setup
  <2>1. /\ pc'[0] = "barrier" /\ \A c \in Workers : pc'[c] = pc[c]
        /\ InLoopSet' = InLoopSet /\ WfiSet' = WfiSet /\ FiniSet' = FiniSet
    BY <1>1, SameWorkers DEF Setup
  <2>2. EuTypeOK'
    <3>1. eu_ready' \in BOOLEAN
      BY <1>1 DEF Setup
    <3>2. QED
      BY <1>1, <3>1 DEF Setup
  <2>3. CountsExact' /\ IrqPending' /\ Phases'
    BY <1>1, <2>1 DEF Setup, CountsExact, IrqPending, Phases, AllAt, Quiet, Busy
  <2>4. StatusExact'
    BY <1>1, <2>1 DEF Setup, StatusExact, Progress, Phases, AllAt
  <2>5. QED
    BY <2>2, <2>3, <2>4
<1>2. ASSUME NEW c \in Workers, AwaitSetup(c) PROVE EuInv'
  <2>1. /\ pc'[0] = pc[0] /\ \A d \in Workers \ {c} : pc'[d] = pc[d]
        /\ pc[c] = "init" /\ pc'[c] = "barrier"
        /\ UNCHANGED <<eu_ready, workers_in_loop, workers_wfi, exit_flag, nthreads, fini_count,
                       cl_clint, status>>
    BY <1>2 DEF AwaitSetup
  <2>2. InLoopSet' = InLoopSet /\ WfiSet' = WfiSet /\ FiniSet' = FiniSet
    BY <2>1 DEF InLoopSet, WfiSet, FiniSet
  <2>3. pc[0] \in {"init", "barrier"}
    BY <2>1 DEF Phases, AllAt, Busy
  <2>4. EuTypeOK'
    BY <1>2, <2>1 DEF AwaitSetup
  <2>5. CountsExact' /\ IrqPending' /\ Phases'
    BY <2>1, <2>2, <2>3 DEF CountsExact, IrqPending, Phases, AllAt, Quiet, Busy
  <2>6. StatusExact'
    BY <2>1, <2>2, <2>3 DEF StatusExact, Progress, Phases
  <2>7. QED
    BY <2>4, <2>5, <2>6
<1>3. CASE HwBarrier
  <2>1. /\ pc[0] = "barrier" /\ pc'[0] = "boot"
        /\ \A c \in Workers : pc[c] = "barrier" /\ pc'[c] = "enter"
        /\ UNCHANGED <<eu_ready, workers_in_loop, workers_wfi, exit_flag, nthreads, fini_count,
                       cl_clint, status>>
    BY <1>3 DEF HwBarrier
  <2>2. InLoopSet' = {} /\ InLoopSet = {} /\ WfiSet' = WfiSet /\ FiniSet' = FiniSet /\ FiniSet = {}
    BY <2>1 DEF InLoopSet, WfiSet, FiniSet
  <2>3. EuTypeOK'
    BY <1>3, <2>1 DEF HwBarrier
  <2>4. CountsExact' /\ IrqPending' /\ Phases'
    BY <2>1, <2>2, FS_EmptySet DEF CountsExact, IrqPending, Phases, AllAt, Quiet, Busy
  <2>5. StatusExact'
    BY <2>1, <2>2 DEF StatusExact, Progress, Phases
  <2>6. QED
    BY <2>3, <2>4, <2>5
<1>4. CASE Boot
  <2>1. /\ pc[0] = "boot" /\ pc'[0] = "serial" /\ \A c \in Workers : pc'[c] = pc[c]
        /\ InLoopSet' = InLoopSet /\ WfiSet' = WfiSet /\ FiniSet' = FiniSet
    BY <1>4, SameWorkers DEF Boot
  <2>2. \A c \in Workers : pc[c] = "wfi"
    <3>1. WfiSet \in SUBSET Workers
      BY DEF WfiSet
    <3>2. WfiSet = Workers
      BY <1>4, <3>1, CountWorkers DEF Boot, CountsExact
    <3>3. QED
      BY <2>1, <3>2 DEF WfiSet, Phases, AllAt
  <2>3. EuTypeOK'
    BY <1>4 DEF Boot
  <2>4. CountsExact' /\ IrqPending' /\ Phases'
    BY <1>4, <2>1, <2>2 DEF Boot, CountsExact, IrqPending, Phases, AllAt, Quiet, Busy
  <2>5. StatusExact'
    BY <1>4, <2>1, <2>2 DEF Boot, StatusExact, Progress, Phases
  <2>6. QED
    BY <2>3, <2>4, <2>5
<1>5. QED
  BY <1>1, <1>2, <1>3, <1>4
------------------------------------------------------------------------------
(* eu_dispatch_push and the first half of eu_run_empty: the workers sleep  *)
(* until they are woken together.                                          *)
LEMMA ForkEuInv ==
  ASSUME EuInv, Run \/ WakeForTask \/ \E n \in 1..NumCores : Push(n)
  PROVE  EuInv'
<1> USE CoreCount DEF EuInv, EuTypeOK, Labels, Move, Goto, At, counters
<1>1. ASSUME NEW n \in 1..NumCores, Push(n) PROVE EuInv'
  <2>1. /\ pc[0] = "serial" /\ pc'[0] = "run" /\ \A c \in Workers : pc'[c] = pc[c]
        /\ InLoopSet' = InLoopSet /\ WfiSet' = WfiSet
    BY <1>1, SameWorkers DEF Push
  <2>2. \A c \in Workers : pc[c] = "wfi"
    BY <1>1, <2>1, AllAsleep DEF Push, AllAt
  <2>3. EuTypeOK'
    BY <1>1 DEF Push
  <2>4. CountsExact' /\ IrqPending' /\ Phases'
    BY <1>1, <2>1, <2>2 DEF Push, CountsExact, IrqPending, Phases, AllAt, Quiet, Busy
  <2>5. StatusExact'
    BY <1>1, <2>1, <2>2 DEF Push, StatusExact, Progress, Phases
  <2>6. QED
    BY <2>3, <2>4, <2>5
<1>2. CASE Run
  <2>1. /\ pc[0] = "run" /\ pc'[0] = (IF nthreads > 1 THEN "wake" ELSE "call")
        /\ \A c \in Workers : pc'[c] = pc[c] /\ pc[c] = "wfi"
        /\ InLoopSet' = InLoopSet /\ WfiSet' = WfiSet
    BY <1>2, SameWorkers DEF Run, Phases, AllAt
  <2>2. EuTypeOK'
    BY <1>2 DEF Run
  <2>3. nthreads \in 1..NumCores
    BY <2>1 DEF Phases
  <2>4. CountsExact' /\ IrqPending'
    BY <1>2, <2>1, <2>3 DEF Run, CountsExact, IrqPending, Busy
  <2>5. Phases'
    BY <1>2, <2>1, <2>3 DEF Run, Phases, AllAt, Quiet, Busy
  <2>6. StatusExact'
    <3>1. FiniSet' \subseteq Workers
      BY DEF FiniSet
    <3>2. \A c \in Cores : Progress(c)' = "idle" /\ Progress(c) = "idle"
      BY <1>2, <2>1, <2>3, <3>1 DEF Run, Progress, Workers
    <3>3. QED
      BY <1>2, <2>1, <3>2 DEF Run, StatusExact
  <2>7. QED
    BY <2>2, <2>4, <2>5, <2>6
<1>3. CASE WakeForTask
  <2>1. /\ pc[0] = "wake" /\ pc'[0] = "call"
        /\ \A c \in Workers : pc'[c] = pc[c] /\ pc[c] = "wfi"
        /\ InLoopSet' = InLoopSet /\ WfiSet' = WfiSet
    BY <1>3, SameWorkers DEF WakeForTask, Wake, Phases, AllAt
  <2>2. EuTypeOK'
    BY <1>3 DEF WakeForTask, Wake
  <2>3. nthreads > 1 /\ cl_clint' = Workers /\ FiniSet' = {}
    BY <1>3, <2>1 DEF WakeForTask, Wake, Phases, Quiet, FiniSet
  <2>4. CountsExact' /\ IrqPending'
    BY <1>3, <2>1, <2>3, FS_EmptySet DEF WakeForTask, Wake, CountsExact, IrqPending, Busy
  <2>5. Phases'
    BY <1>3, <2>1, <2>3 DEF WakeForTask, Wake, Phases, AllAt, Quiet, Busy
  <2>6. StatusExact'
    <3>1. \A c \in Cores : Progress(c)' = "idle" /\ Progress(c) = "idle"
      BY <1>3, <2>1, <2>3 DEF WakeForTask, Wake, Progress, Workers
    <3>2. QED
      BY <1>3, <2>1, <3>1 DEF WakeForTask, Wake, StatusExact
  <2>7. QED
    BY <2>2, <2>4, <2>5, <2>6
<1>4. QED
  BY <1>1, <1>2, <1>3
------------------------------------------------------------------------------
(* The task, on any core.                                                  *)
LEMMA TaskEuInv ==
  ASSUME EuInv, NEW c \in Cores, Call(c) \/ Return(c)
  PROVE  EuInv'
<1> USE CoreCount DEF EuInv, EuTypeOK, Labels, Move, Goto, At, counters
<1> DEFINE from == pc[c]
           to == pc'[c]
<1>1. /\ from \in {"call", "task"} /\ pc[0] \in {"call", "task", "join"}
      /\ to = (IF from = "call" THEN "task" ELSE IF c = 0 THEN "join" ELSE "fini")
      /\ \A d \in Cores \ {c} : pc'[d] = pc[d]
      /\ UNCHANGED <<eu_ready, workers_in_loop, workers_wfi, exit_flag, nthreads, fini_count, cl_clint>>
      /\ status' = [status EXCEPT ![c] = IF from = "call" THEN "running" ELSE "done"]
  <2>1. /\ from \in {"call", "task"}
        /\ to = (IF from = "call" THEN "task" ELSE IF c = 0 THEN "join" ELSE "fini")
        /\ \A d \in Cores \ {c} : pc'[d] = pc[d]
        /\ UNCHANGED <<eu_ready, workers_in_loop, workers_wfi, exit_flag, nthreads, fini_count, cl_clint>>
        /\ status' = [status EXCEPT ![c] = IF from = "call" THEN "running" ELSE "done"]
    BY DEF Call, Return
  <2>2. pc[0] \in {"call", "task", "join"}
    BY <2>1 DEF Phases, AllAt, Busy, Workers
  <2>3. QED
    BY <2>1, <2>2
<1>2. pc'[0] \in {"call", "task", "join"} /\ (c # 0 => pc'[0] = pc[0] /\ Busy)
  BY <1>1 DEF Phases, AllAt, Busy, Workers
<1>3. InLoopSet' = InLoopSet /\ WfiSet' = WfiSet /\ FiniSet' = FiniSet
  BY <1>1 DEF InLoopSet, WfiSet, FiniSet
<1>4. Busy' = Busy
  BY <1>1, <1>2 DEF Busy
<1>5. EuTypeOK'
  <2>1. pc' \in [Cores -> Labels] /\ status' \in [Cores -> {"idle", "running", "done"}]
    BY DEF Call, Return
  <2>2. QED
    BY <1>1, <2>1
<1>6. CountsExact' /\ IrqPending'
  BY <1>1, <1>2, <1>3, <1>4 DEF CountsExact, IrqPending, Busy
<1>7. Phases'
  BY <1>1, <1>2, <1>4 DEF Phases, AllAt, Quiet, Busy, Workers
<1>8. StatusExact'
  <2>1. c < nthreads
    BY <1>1 DEF StatusExact, Phases, Workers
  <2>2. c \notin FiniSet
    BY <1>1 DEF FiniSet
  <2>3. QED
    BY <1>1, <1>2, <1>3, <2>1, <2>2 DEF StatusExact, Progress
<1>9. QED
  BY <1>5, <1>6, <1>7, <1>8
------------------------------------------------------------------------------
(* The second half of eu_run_empty: fini_count has reached workers_in_loop *)
(* only when every worker, in the team or not, is done with the event.     *)
LEMMA JoinEuInv ==
  ASSUME EuInv, AwaitFini \/ Reset
  PROVE  EuInv'
<1> USE CoreCount DEF EuInv, EuTypeOK, Labels, Move, Goto, At, counters
<1>1. CASE AwaitFini
  <2>1. /\ pc[0] = "join" /\ pc'[0] = "reset" /\ \A c \in Workers : pc'[c] = pc[c]
        /\ InLoopSet' = InLoopSet /\ WfiSet' = WfiSet /\ FiniSet' = FiniSet
    BY <1>1, SameWorkers DEF AwaitFini
  <2>2. Quiet /\ \A c \in Workers : pc[c] \in {"sleep", "wfi"}
    <3>1. CASE Busy
      <4>1. InLoopSet = Workers
        BY <3>1 DEF InLoopSet, Phases, AllAt
      <4>2. Cardinality(FiniSet) = NumCores - 1
        BY <1>1, <3>1, <4>1 DEF AwaitFini, CountsExact, Busy
      <4>3. FiniSet \in SUBSET Workers
        BY DEF FiniSet
      <4>4. FiniSet = Workers
        BY <4>2, <4>3, CountWorkers
      <4>5. \A c \in Workers : pc[c] = "sleep" \/ (pc[c] = "wfi" /\ c \notin cl_clint)
        BY <4>4 DEF FiniSet
      <4>6. cl_clint = {}
        BY <4>5 DEF IrqPending
      <4>7. QED
        BY <4>5, <4>6 DEF Quiet
    <3>2. CASE ~Busy
      BY <2>1, <3>2 DEF Phases, AllAt
    <3>3. QED
      BY <3>1, <3>2
  <2>3. EuTypeOK'
    BY <1>1 DEF AwaitFini
  <2>4. CountsExact' /\ IrqPending' /\ Phases'
    BY <1>1, <2>1, <2>2 DEF AwaitFini, CountsExact, IrqPending, Phases, AllAt, Quiet, Busy
  <2>5. StatusExact'
    BY <1>1, <2>1, <2>2 DEF AwaitFini, StatusExact, Progress, Workers
  <2>6. QED
    BY <2>3, <2>4, <2>5
<1>2. CASE Reset
  <2>1. /\ pc[0] = "reset" /\ pc'[0] = "serial" /\ \A c \in Workers : pc'[c] = pc[c]
        /\ InLoopSet' = InLoopSet /\ WfiSet' = WfiSet
    BY <1>2, SameWorkers DEF Reset
  <2>2. EuTypeOK'
    BY <1>2 DEF Reset
  <2>3. CountsExact' /\ IrqPending' /\ Phases'
    BY <1>2, <2>1 DEF Reset, CountsExact, IrqPending, Phases, AllAt, Quiet, Busy
  <2>4. StatusExact'
    BY <1>2, <2>1 DEF Reset, StatusExact, Progress, Phases, AllAt
  <2>5. QED
    BY <2>2, <2>3, <2>4
<1>3. QED
  BY <1>1, <1>2

(* eu_exit and the end of the session.                                     *)
LEMMA ExitEuInv ==
  ASSUME EuInv, SetExit \/ WakeForExit \/ Finish
  PROVE  EuInv'
<1> USE CoreCount DEF EuInv, EuTypeOK, Labels, Move, Goto, At, counters
<1>1. CASE SetExit
  <2>1. /\ pc[0] = "serial" /\ pc'[0] = "wakeexit" /\ \A c \in Workers : pc'[c] = pc[c]
        /\ InLoopSet' = InLoopSet /\ WfiSet' = WfiSet
    BY <1>1, SameWorkers DEF SetExit
  <2>2. \A c \in Workers : pc[c] = "wfi"
    BY <1>1, <2>1, AllAsleep DEF SetExit, AllAt
  <2>3. EuTypeOK'
    <3>1. exit_flag' \in BOOLEAN
      BY <1>1 DEF SetExit
    <3>2. QED
      BY <1>1, <3>1 DEF SetExit
  <2>4. CountsExact' /\ IrqPending' /\ Phases'
    BY <1>1, <2>1, <2>2 DEF SetExit, CountsExact, IrqPending, Phases, AllAt, Quiet, Busy
  <2>5. StatusExact'
    BY <1>1, <2>1, <2>2 DEF SetExit, StatusExact, Progress, Phases
  <2>6. QED
    BY <2>3, <2>4, <2>5
<1>2. CASE WakeForExit
  <2>1. /\ pc[0] = "wakeexit" /\ pc'[0] = "end"
        /\ \A c \in Workers : pc'[c] = pc[c] /\ pc[c] = "wfi"
        /\ InLoopSet' = InLoopSet /\ WfiSet' = WfiSet
    BY <1>2, SameWorkers DEF WakeForExit, Wake, Phases, AllAt
  <2>2. cl_clint' = Workers
    BY <1>2 DEF WakeForExit, Wake
  <2>3. EuTypeOK'
    BY <1>2 DEF WakeForExit, Wake
  <2>4. CountsExact' /\ IrqPending' /\ Phases'
    BY <1>2, <2>1, <2>2 DEF WakeForExit, Wake, CountsExact, IrqPending, Phases, AllAt, Quiet, Busy
  <2>5. StatusExact'
    BY <1>2, <2>1, <2>2 DEF WakeForExit, Wake, StatusExact, Progress, Phases
  <2>6. QED
    BY <2>3, <2>4, <2>5
<1>3. CASE Finish
  <2>1. /\ \A c \in Cores : pc[c] = "end" /\ pc'[c] = "finished"
        /\ UNCHANGED <<eu_ready, workers_in_loop, workers_wfi, exit_flag, nthreads, fini_count,
                       cl_clint, status>>
    BY <1>3 DEF Finish
  <2>2. InLoopSet' = InLoopSet /\ WfiSet' = WfiSet /\ cl_clint = {}
    BY <2>1 DEF InLoopSet, WfiSet, IrqPending
  <2>3. EuTypeOK'
    BY <1>3, <2>1 DEF Finish
  <2>4. CountsExact' /\ IrqPending' /\ Phases'
    BY <2>1, <2>2 DEF CountsExact, IrqPending, Phases, AllAt, Quiet, Busy
  <2>5. StatusExact'
    BY <2>1, <2>2 DEF StatusExact, Progress, Phases
  <2>6. QED
    BY <2>3, <2>4, <2>5
<1>4. QED
  BY <1>1, <1>2, <1>3

(* Every step of the event unit preserves the invariant.                   *)
LEMMA NextEuInv == EuInv /\ [EuNext]_euVars => EuInv'
<1> SUFFICES ASSUME EuInv, [EuNext]_euVars PROVE EuInv'
  OBVIOUS
<1>1. CASE UNCHANGED euVars
  BY <1>1 DEF EuInv, EuTypeOK, CountsExact, IrqPending, Phases, StatusExact, InLoopSet, WfiSet,
              FiniSet, Busy, AllAt, Quiet, Progress, euVars, counters
<1>2. CASE EuNext
  BY <1>2, CoreCount, StartUpEuInv, ForkEuInv, TaskEuInv, JoinEuInv, ExitEuInv, WorkerEuInv
     DEF EuNext, EuStep, MasterStep
<1>3. QED
  BY <1>1, <1>2

LEMMA EuInvariant == EuSpec => []EuInv
BY InitEuInv, NextEuInv, PTL DEF EuSpec
------------------------------------------------------------------------------
(* What the invariant says of wake-ups.                                    *)
LEMMA StrayWakeUp == EuInv => NoStrayWakeUp
<1> SUFFICES ASSUME EuInv PROVE NoStrayWakeUp
  OBVIOUS
<1>1. \A c \in cl_clint : pc[c] \in {"wfi", "clear"}
  BY DEF EuInv, IrqPending
<1>2. ASSUME pc[0] \in {"serial", "run"}, AllInWfi
      PROVE  cl_clint = {} /\ \A c \in Workers : pc[c] = "wfi"
  BY <1>2, AllAsleep DEF EuInv, Phases, AllAt, Quiet
<1>3. QED
  BY <1>1, <1>2 DEF NoStrayWakeUp, At

(* The event unit's steps are steps of fork and join, or stutter.          *)
LEMMA ForkJoinInit == EuInit => FJ!Init
BY DEF EuInit, FJ!Init, team

LEMMA ForkJoinStep == EuInv /\ [EuNext]_euVars => [FJ!Next]_(FJ!vars)
<1> SUFFICES ASSUME EuInv, [EuNext]_euVars PROVE [FJ!Next]_(FJ!vars)
  OBVIOUS
<1> USE CoreCount DEF EuInv, EuTypeOK, At, Move, team
<1>1. ASSUME NEW n \in 1..NumCores, Push(n) PROVE FJ!Next
  <2>1. team = {} /\ team' = 0..(n - 1) /\ 0 \in team' /\ team' \in SUBSET Cores /\ status' = status
    BY <1>1 DEF Push, Phases, Cores
  <2>2. QED
    BY <2>1 DEF FJ!Next, FJ!Fork
<1>2. ASSUME NEW c \in Cores, Call(c) PROVE FJ!Next
  <2>1. pc[c] = "call" /\ pc[0] \in {"call", "task", "join"} /\ c \notin FiniSet
    BY <1>2 DEF Call, Phases, AllAt, Busy, Workers, FiniSet
  <2>2. c < nthreads /\ status[c] = "idle"
    BY <2>1 DEF StatusExact, Progress, Phases, Workers
  <2>3. c \in team /\ team' = team
    BY <1>2, <2>2 DEF Call, counters
  <2>4. QED
    BY <1>2, <2>2, <2>3 DEF Call, FJ!Next, FJ!Start
<1>3. ASSUME NEW c \in Cores, Return(c) PROVE FJ!Next
  <2>1. pc[c] = "task" /\ pc[0] \in {"call", "task", "join"}
    BY <1>3 DEF Return, Phases, AllAt, Busy, Workers
  <2>2. status[c] = "running"
    BY <2>1 DEF StatusExact, Progress, Phases, Workers
  <2>3. QED
    BY <1>3, <2>2 DEF Return, counters, FJ!Next, FJ!Finish
<1>4. CASE Reset
  <2>1. pc[0] = "reset" /\ nthreads # 0
    BY <1>4 DEF Reset, Phases
  <2>2. \A c \in team : status[c] = "done"
    BY <2>1 DEF StatusExact, Progress, Phases, AllAt, Quiet, FiniSet, Workers, Cores
  <2>3. team # {} /\ team' = {}
    BY <1>4, <2>1 DEF Reset
  <2>4. QED
    BY <1>4, <2>2, <2>3 DEF Reset, FJ!Next, FJ!Join
<1>5. ASSUME UNCHANGED <<nthreads, status>> PROVE UNCHANGED FJ!vars
  BY <1>5 DEF FJ!vars
<1>6. CASE UNCHANGED euVars
  BY <1>5, <1>6 DEF euVars, counters
<1>7. CASE SetExit \/ Setup \/ HwBarrier \/ Boot \/ Run \/ WakeForTask \/ AwaitFini \/ WakeForExit \/ Finish
  BY <1>5, <1>7 DEF SetExit, Setup, HwBarrier, Boot, Run, WakeForTask, AwaitFini, WakeForExit, Wake,
                    Finish, counters
<1>8. ASSUME NEW c \in Workers, AwaitSetup(c) \/ WorkerStep(c) PROVE UNCHANGED FJ!vars
  BY <1>5, <1>8 DEF AwaitSetup, WorkerStep, EnterLoop, CheckExit, CheckTeam, AddFini, AddWfi, Wfi,
                    ClearIrq, SubWfi, counters
<1>9. QED
  BY <1>1, <1>2, <1>3, <1>4, <1>6, <1>7, <1>8 DEF EuNext, EuStep, MasterStep
------------------------------------------------------------------------------
(* The OpenMP runtime.  A core's place is the loop it is in, or is to run  *)
(* next: one that is through with a call of the microtask is at the first  *)
(* loop of the next one.                                                   *)
Through(c) == at[c] > Len(microtask)
CallsLeft(c) == IF Through(c) THEN calls[c] - 1 ELSE calls[c]
NextLoop(c) == IF Through(c) THEN 1 ELSE at[c]

KmpTypes ==
  /\ numThreads \in 1..NumCores /\ nbThreads \in 1..NumCores
  /\ loop_is_setup \in BOOLEAN
  /\ loop_start \in Int /\ loop_end \in Int /\ loop_chunk \in Int
  /\ workers_mutex \in Cores \cup {Free}
  /\ microtask \in Seq(Loops)
  /\ calls \in [Cores -> Nat] /\ at \in [Cores -> Nat \ {0}]
  /\ step \in [Cores -> {"loop", "init", "next", "take", "barrier"}]
  /\ start \in [Cores -> Int]
  /\ \A i \in DOMAIN ran : ran[i] \in Nat

(* num_threads only changes in the serial part.                            *)
TeamExact ==
  nthreads # 0 =>
    /\ nthreads = numThreads /\ nbThreads = numThreads
    /\ microtask # << >> /\ \A c \in Cores : calls[c] > 0

(* A core is only within a loop in the task; the mutex is held in the two  *)
(* critical sections of a dynamic loop.                                    *)
StepsExact ==
  /\ \A c \in Cores : step[c] # "loop" => pc[c] = "task" /\ ~Through(c)
  /\ \A c \in Cores : step[c] \in {"init", "next", "take"} => Loop(c).sched = "dynamic"
  /\ \A c \in Cores : step[c] \in {"init", "take"} <=> workers_mutex = c

(* No core of the team is a loop ahead of another, and ran counts the      *)
(* iterations of the loop they are at.                                     *)
Lockstep ==
  /\ \A c, d \in team : CallsLeft(c) = CallsLeft(d) /\ NextLoop(c) = NextLoop(d)
  /\ \A c \in team : CallsLeft(c) > 0 => DOMAIN ran = Space(microtask[NextLoop(c)])

(* The loop fields are those of the loop that some core takes chunks of;   *)
(* a core that has left it saw loop_start beyond its end.                  *)
Taking == {c \in Cores : step[c] \in {"next", "take"}}

SetUpHeld == loop_is_setup => Taking # {}

FieldsExact ==
  \A c \in Taking :
    /\ loop_end = Loop(c).ub /\ loop_chunk = Loop(c).chunk
    /\ \A i \in Space(Loop(c)) : i < loop_start => ran[i] > 0

StartExact == \A c \in Cores : step[c] = "take" => start[c] = loop_start

NoneSkipped ==
  \A c \in Cores : step[c] = "barrier" /\ Loop(c).sched = "dynamic" =>
    \A i \in Space(Loop(c)) : ran[i] > 0

DynamicExact == SetUpHeld /\ FieldsExact /\ StartExact /\ NoneSkipped

BodyInv == KmpTypes /\ TeamExact /\ StepsExact /\ Lockstep /\ DynamicExact
KmpInv == EuInv /\ BodyInv
------------------------------------------------------------------------------
LEMMA KmpInit == Init => KmpInv
<1> SUFFICES ASSUME Init PROVE KmpInv
  OBVIOUS
<1>1. EuInv
  BY InitEuInv DEF Init
<1>2. nthreads = 0 /\ team = {}
  BY DEF Init, EuInit, team
<1>3. KmpTypes
  <2>1. loop_is_setup \in BOOLEAN
    BY DEF Init
  <2>2. \A i \in DOMAIN ran : ran[i] \in Nat
    BY DEF Init, NoRuns
  <2>3. QED
    BY <2>1, <2>2, CoreCount DEF Init, KmpTypes
<1>4. StepsExact
  BY CoreCount DEF Init, StepsExact, Free
<1>5. TeamExact /\ Lockstep /\ DynamicExact
  BY <1>2 DEF Init, TeamExact, Lockstep, DynamicExact, SetUpHeld, FieldsExact, StartExact, NoneSkipped, Taking
<1>6. QED
  BY <1>1, <1>3, <1>4, <1>5 DEF KmpInv, BodyInv

LEMMA MinOfTwo ==
  ASSUME NEW a \in Int, NEW b \in Int
  PROVE  Min({a, b}) = IF a <= b THEN a ELSE b
<1>1. \E x \in {a, b} : \A y \in {a, b} : x <= y
  OBVIOUS
<1>2. Min({a, b}) \in {a, b} /\ \A y \in {a, b} : Min({a, b}) <= y
  BY <1>1 DEF Min
<1>3. QED
  BY <1>2

(* A step of the runtime is a step of the event unit, or none of it.       *)
LEMMA KmpEuStep == KmpTypes /\ [Next]_vars => [EuNext]_euVars
<1> SUFFICES ASSUME KmpTypes, [Next]_vars PROVE [EuNext]_euVars
  OBVIOUS
<1>1. CASE EuStep \/ UNCHANGED vars
  BY <1>1 DEF EuNext, vars
<1>2. CASE SerialStep
  <2>1. ASSUME NEW n \in 1..(NumCores + 1), PushNumThreads(n) PROVE UNCHANGED euVars
    BY <2>1 DEF PushNumThreads
  <2>2. ASSUME NEW task \in Microtasks, NEW argc \in Argcs, Fork(task, argc) PROVE EuNext
    BY <2>2 DEF Fork, PartialParallelRegion, KmpTypes, EuNext
  <2>3. QED
    BY <1>2, <2>1, <2>2 DEF SerialStep, Destroy, EuNext
<1>3. ASSUME NEW c \in Cores, BodyStep(c) PROVE EuNext \/ UNCHANGED euVars
  <2>1. CASE WrapperReturns(c)
    BY <2>1 DEF WrapperReturns, EuNext
  <2>2. CASE LoopStep(c) \/ FallThrough(c)
    BY <2>2 DEF LoopStep, StaticLoop, DispatchLock, Lock, DispatchInit, NextLock, NextTake, Unlock,
                FallThrough
  <2>3. QED
    BY <1>3, <2>1, <2>2 DEF BodyStep
<1>4. CASE Barrier
  BY <1>4 DEF Barrier
<1>5. QED
  BY <1>1, <1>2, <1>3, <1>4 DEF Next

(* A core that runs the task is in the team, and the region is open.       *)
LEMMA InRegion ==
  ASSUME KmpInv, NEW c \in Cores, pc[c] = "task"
  PROVE  /\ c \in team /\ nthreads = numThreads /\ nbThreads = numThreads /\ calls[c] > 0
         /\ Len(microtask) \in Nat /\ Len(microtask) > 0
         /\ ~Through(c) => Loop(c) \in Loops /\ at[c] \in 1..Len(microtask)
<1> USE CoreCount DEF KmpInv, BodyInv, KmpTypes
<1>1. c < nthreads /\ nthreads # 0
  BY DEF EuInv, EuTypeOK, StatusExact, Phases, Workers
<1>2. nthreads \in Nat /\ c \in team
  BY <1>1 DEF EuInv, EuTypeOK, team
<1>3. Len(microtask) \in Nat /\ Len(microtask) > 0
  BY <1>1 DEF TeamExact
<1>4. ~Through(c) => Loop(c) \in Loops /\ at[c] \in 1..Len(microtask)
  BY <1>3 DEF Through, Loop
<1>5. QED
  BY <1>1, <1>2, <1>3, <1>4 DEF TeamExact

(* When as many cores as the team has are at the barrier, it is the team.  *)
LEMMA TeamArrived ==
  ASSUME KmpInv, Cardinality(AtBarrier) = numThreads
  PROVE  AtBarrier = team /\ 0 \in team
<1> USE CoreCount DEF KmpInv, BodyInv, KmpTypes
<1>1. AtBarrier \in SUBSET Cores /\ \A c \in AtBarrier : pc[c] = "task"
  BY DEF AtBarrier, InLoop, At
<1>2. AtBarrier # {}
  <2>1. numThreads # 0
    OBVIOUS
  <2>2. QED
    BY <2>1, FS_EmptySet, Zenon
<1>3. PICK d \in AtBarrier : TRUE
  BY <1>2
<1>4. nthreads = numThreads /\ AtBarrier \subseteq team
  BY <1>1, <1>3, InRegion
<1>5. IsFiniteSet(team) /\ Cardinality(team) = numThreads
  <2>1. team = 0..(numThreads - 1)
    BY <1>4 DEF team
  <2>2. QED
    BY <2>1, FS_Interval
<1>6. AtBarrier = team
  <2>1. \A S, T : IsFiniteSet(T) /\ S \subseteq T /\ Cardinality(S) = Cardinality(T) => S = T
    BY FS_Subset, Zenon
  <2>2. QED
    BY <1>4, <1>5, <2>1, Zenon
<1>7. QED
  BY <1>4, <1>6 DEF team
------------------------------------------------------------------------------
(* Steps of the event unit alone: no core leaves the task within a loop.   *)
LEMMA SameBody ==
  ASSUME KmpInv, UNCHANGED kmpVars, nthreads' \in {nthreads, 0},
         \A c \in Cores : pc[c] = "task" /\ step[c] # "loop" => pc'[c] = "task"
  PROVE  BodyInv'
<1> USE DEF KmpInv, BodyInv, kmpVars, teamVars, loopVars, bodyVars
<1>1. KmpTypes'
  BY DEF KmpTypes
<1>2. TeamExact'
  BY DEF TeamExact
<1>3. StepsExact'
  BY DEF StepsExact, Loop, Through
<1>4. Lockstep'
  <2>1. team' \in {team, {}}
    BY DEF team
  <2>2. QED
    BY <2>1 DEF Lockstep, CallsLeft, NextLoop, Through, Space
<1>5. DynamicExact'
  BY DEF DynamicExact, SetUpHeld, FieldsExact, StartExact, NoneSkipped, Taking, Loop, Space
<1>6. QED
  BY <1>1, <1>2, <1>3, <1>4, <1>5

LEMMA EuStepBody == ASSUME KmpInv, EuStep, UNCHANGED kmpVars PROVE BodyInv'
<1> USE CoreCount DEF KmpInv, EuInv, EuTypeOK, At, Goto, Move, counters
<1>1. CASE HwBarrier \/ Finish
  BY <1>1, SameBody DEF HwBarrier, Finish
<1>2. CASE Setup \/ Boot \/ MasterStep
  BY <1>2, SameBody DEF Setup, Boot, MasterStep, Run, WakeForTask, WakeForExit, Wake, AwaitFini, Reset
<1>3. ASSUME NEW c \in Workers, AwaitSetup(c) \/ WorkerStep(c) PROVE BodyInv'
  BY <1>3, SameBody DEF AwaitSetup, WorkerStep, EnterLoop, CheckExit, CheckTeam, AddFini, AddWfi, Wfi,
                        ClearIrq, SubWfi
<1>4. ASSUME NEW c \in Cores, Call(c) PROVE BodyInv'
  BY <1>4, SameBody DEF Call
<1>5. QED
  BY <1>1, <1>2, <1>3, <1>4 DEF EuStep

(* The serial part of the program: no core is in the task.                 *)
LEMMA SerialBody == ASSUME KmpInv, SerialStep PROVE BodyInv'
<1> USE CoreCount DEF KmpInv, BodyInv
<1>1. pc[0] = "serial"
  BY DEF SerialStep, PushNumThreads, Fork, PartialParallelRegion, Push, Destroy, SetExit, At, Move
<1>2. nthreads = 0 /\ team = {} /\ \A c \in Cores : pc[c] # "task"
  BY <1>1 DEF EuInv, Phases, AllAt, team, Workers
<1>3. \A c \in Cores : step[c] = "loop"
  BY <1>2 DEF StepsExact
<1>4. ASSUME NEW n \in 1..(NumCores + 1), PushNumThreads(n) PROVE BodyInv'
  <2>1. numThreads' \in 1..NumCores
    BY <1>4, MinOfTwo DEF PushNumThreads
  <2>2. /\ UNCHANGED <<nthreads, pc, nbThreads, microtask, loop_is_setup, loop_start, loop_end, loop_chunk,
                       workers_mutex, calls, at, step, start, ran>>
    BY <1>4 DEF PushNumThreads, euVars, counters, loopVars, bodyVars
  <2>3. KmpTypes' /\ TeamExact'
    BY <1>2, <2>1, <2>2 DEF KmpTypes, TeamExact
  <2>4. StepsExact' /\ DynamicExact'
    BY <1>3, <2>2 DEF StepsExact, DynamicExact, SetUpHeld, FieldsExact, StartExact, NoneSkipped, Taking
  <2>5. Lockstep'
    BY <1>2, <2>2 DEF Lockstep, team
  <2>6. QED
    BY <2>3, <2>4, <2>5
<1>5. ASSUME NEW task \in Microtasks, NEW argc \in Argcs, Fork(task, argc) PROVE BodyInv'
  <2>1. /\ nthreads' = numThreads /\ nbThreads' = numThreads /\ microtask' = task
        /\ calls' = [c \in Cores |-> Calls(argc)] /\ at' = [c \in Cores |-> 1]
        /\ ran' = Fresh(task[1])
        /\ UNCHANGED <<numThreads, loop_is_setup, loop_start, loop_end, loop_chunk, workers_mutex,
                       step, start>>
    BY <1>5 DEF Fork, PartialParallelRegion, Push, loopVars
  <2>2. task \in Seq(Loops) /\ task # << >> /\ Len(task) \in Nat /\ Len(task) > 0
    BY MicrotasksAssumption
  <2>3. Calls(argc) \in Nat \ {0}
    BY DEF Calls
  <2>4. \A i \in DOMAIN ran' : ran'[i] \in Nat
    BY <2>1 DEF Fresh
  <2>5. KmpTypes' /\ TeamExact'
    BY <2>1, <2>2, <2>3, <2>4 DEF KmpTypes, TeamExact
  <2>6. StepsExact' /\ DynamicExact'
    BY <1>3, <2>1 DEF StepsExact, DynamicExact, SetUpHeld, FieldsExact, StartExact, NoneSkipped, Taking
  <2>7. Lockstep'
    <3>1. team' \subseteq Cores
      BY <2>1 DEF team, Cores, KmpTypes
    <3>2. \A c \in Cores : CallsLeft(c)' = Calls(argc) /\ NextLoop(c)' = 1
      BY <2>1, <2>2 DEF CallsLeft, NextLoop, Through
    <3>3. DOMAIN ran' = Space(task[1])' /\ microtask'[1] = task[1]
      BY <2>1 DEF Fresh, Space
    <3>4. QED
      BY <3>1, <3>2, <3>3 DEF Lockstep
  <2>8. QED
    BY <2>5, <2>6, <2>7
<1>6. CASE Destroy
  BY <1>2, <1>6, SameBody DEF Destroy, SetExit
<1>7. QED
  BY <1>4, <1>5, <1>6 DEF SerialStep
------------------------------------------------------------------------------
(* Cores that are within a loop are within the same one.                   *)
LEMMA SameLoop ==
  ASSUME KmpInv, NEW c \in Cores, NEW d \in Cores,
         pc[c] = "task", ~Through(c), pc[d] = "task", ~Through(d)
  PROVE  at[c] = at[d] /\ Loop(c) = Loop(d) /\ DOMAIN ran = Space(Loop(c))
<1>1. c \in team /\ d \in team /\ calls[c] > 0
  BY InRegion
<1>2. NextLoop(c) = at[c] /\ NextLoop(d) = at[d] /\ CallsLeft(c) = calls[c]
  BY DEF NextLoop, CallsLeft
<1>3. QED
  BY <1>1, <1>2 DEF KmpInv, BodyInv, Lockstep, Loop

LEMMA CountGrows ==
  ASSUME KmpInv, NEW iterations
  PROVE  /\ DOMAIN Count(iterations) = DOMAIN ran
         /\ \A i \in DOMAIN ran :
              /\ Count(iterations)[i] \in Nat
              /\ ran[i] > 0 \/ i \in iterations => Count(iterations)[i] > 0
BY DEF KmpInv, BodyInv, KmpTypes, Count

LEMMA LoopPlace ==
  ASSUME KmpInv, NEW c \in Cores, NEW label
  PROVE  InLoop(c, label) <=> pc[c] = "task" /\ ~Through(c) /\ step[c] = label
BY DEF KmpInv, BodyInv, KmpTypes, InLoop, At, Through

(* A step within a loop.                                                   *)
WithinLoop(c, label) ==
  /\ pc[c] = "task" /\ ~Through(c)
  /\ step' = [step EXCEPT ![c] = label]
  /\ UNCHANGED <<euVars, teamVars, calls, at>>
  /\ DOMAIN ran' = DOMAIN ran
  /\ \A i \in DOMAIN ran : ran'[i] \in Nat /\ (ran[i] > 0 => ran'[i] > 0)

LEMMA LoopTeam ==
  ASSUME KmpInv, NEW c \in Cores, NEW label, WithinLoop(c, label)
  PROVE  /\ TeamExact' /\ Lockstep'
         /\ \A d \in Cores : Loop(d)' = Loop(d) /\ Through(d)' = Through(d)
         /\ \A d \in Cores : step'[d] = IF d = c THEN label ELSE step[d]
         /\ UNCHANGED <<pc, numThreads, nbThreads, microtask, at, calls>>
<1> USE DEF KmpInv, BodyInv, WithinLoop, euVars, counters, teamVars
<1>1. TeamExact'
  BY DEF TeamExact
<1>2. team' = team
  BY DEF team
<1>3. Lockstep'
  <2>1. \A d \in Cores : CallsLeft(d)' = CallsLeft(d) /\ NextLoop(d)' = NextLoop(d)
    BY DEF CallsLeft, NextLoop, Through
  <2>2. microtask' = microtask /\ DOMAIN ran' = DOMAIN ran
    OBVIOUS
  <2>3. team \subseteq Cores
    BY CoreCount DEF EuInv, EuTypeOK, team, Cores
  <2>4. \A d \in Cores : Space(microtask'[NextLoop(d)']) = Space(microtask[NextLoop(d)])
    BY <2>1, <2>2
  <2>5. QED
    BY <1>2, <2>1, <2>2, <2>3, <2>4 DEF Lockstep
<1>4. QED
  BY <1>1, <1>3 DEF Loop, KmpTypes, Through

LEMMA StaticBody ==
  ASSUME KmpInv, NEW c \in Cores, StaticLoop(c) PROVE BodyInv'
<1> USE CoreCount DEF KmpInv, BodyInv
<1>1. /\ pc[c] = "task" /\ ~Through(c) /\ step[c] = "loop" /\ Loop(c).sched # "dynamic"
      /\ UNCHANGED <<loop_is_setup, loop_start, loop_end, loop_chunk, workers_mutex, start>>
  BY LoopPlace DEF StaticLoop, loopVars
<1>2. WithinLoop(c, "barrier")
  BY <1>1, CountGrows DEF StaticLoop, WithinLoop
<1>3. /\ TeamExact' /\ Lockstep'
      /\ \A d \in Cores : Loop(d)' = Loop(d) /\ Through(d)' = Through(d)
      /\ \A d \in Cores : step'[d] = IF d = c THEN "barrier" ELSE step[d]
      /\ UNCHANGED <<pc, numThreads, nbThreads, microtask, at, calls>>
  BY <1>2, LoopTeam
<1>4. KmpTypes'
  BY <1>1, <1>2, <1>3 DEF KmpTypes, WithinLoop
<1>5. StepsExact'
  BY <1>1, <1>3 DEF StepsExact
<1>6. DynamicExact'
  <2>1. Taking' = Taking
    BY <1>1, <1>3 DEF Taking
  <2>2. \A d \in Cores : step[d] # "loop" => DOMAIN ran = Space(Loop(d))
    BY SameLoop DEF StepsExact
  <2>3. \A d \in Cores : Space(Loop(d))' = Space(Loop(d))
    BY <1>3 DEF Space
  <2>4. QED
    BY <1>1, <1>2, <1>3, <2>1, <2>2, <2>3 DEF DynamicExact, SetUpHeld, FieldsExact, StartExact, NoneSkipped, WithinLoop, Taking
<1>7. QED
  BY <1>3, <1>4, <1>5, <1>6

(* The two critical sections of a dynamic loop.  Another core may set the  *)
(* loop up again before the first one has left it, but then it is taken    *)
(* from the start.                                                         *)
LEMMA LockBody ==
  ASSUME KmpInv, NEW c \in Cores, DispatchLock(c) \/ NextLock(c) PROVE BodyInv'
<1> USE CoreCount DEF KmpInv, BodyInv
<1> DEFINE label == IF step[c] = "loop" THEN "init" ELSE "take"
<1>1. /\ pc[c] = "task" /\ ~Through(c) /\ Loop(c).sched = "dynamic"
      /\ step[c] \in {"loop", "next"} /\ workers_mutex = Free /\ workers_mutex' = c
      /\ step' = [step EXCEPT ![c] = label]
      /\ UNCHANGED <<loop_is_setup, loop_start, loop_end, loop_chunk, ran, euVars, teamVars, calls, at>>
      /\ start' = IF step[c] = "loop" THEN start ELSE [start EXCEPT ![c] = loop_start]
  BY LoopPlace DEF DispatchLock, NextLock, Lock, loopVars
<1> HIDE DEF label
<1>2. WithinLoop(c, label)
  BY <1>1 DEF WithinLoop, KmpTypes
<1>3. /\ TeamExact' /\ Lockstep'
      /\ \A d \in Cores : Loop(d)' = Loop(d) /\ Through(d)' = Through(d)
      /\ \A d \in Cores : step'[d] = IF d = c THEN label ELSE step[d]
      /\ UNCHANGED <<pc, numThreads, nbThreads, microtask, at, calls>>
  BY <1>2, LoopTeam
<1>4. label = (IF step[c] = "loop" THEN "init" ELSE "take")
  BY DEF label
<1>5. KmpTypes'
  BY <1>1, <1>3, <1>4 DEF KmpTypes
<1>6. StepsExact'
  BY <1>1, <1>3, <1>4 DEF StepsExact, Free
<1>7. DynamicExact'
  <2>1. Taking' = Taking
    BY <1>1, <1>3, <1>4 DEF Taking
  <2>2. \A d \in Cores : Space(Loop(d))' = Space(Loop(d))
    BY <1>3 DEF Space
  <2>3. \A d \in Cores : step'[d] = "take" => start'[d] = loop_start
    BY <1>1, <1>3, <1>4 DEF StepsExact, Free, KmpTypes
  <2>4. SetUpHeld' /\ StartExact'
    BY <1>1, <2>1, <2>3 DEF DynamicExact, SetUpHeld, StartExact
  <2>5. FieldsExact'
    BY <1>1, <1>3, <2>1, <2>2 DEF DynamicExact, FieldsExact, Taking
  <2>6. NoneSkipped'
    BY <1>1, <1>3, <1>4, <2>2 DEF DynamicExact, NoneSkipped
  <2>7. QED
    BY <2>4, <2>5, <2>6 DEF DynamicExact
<1>8. QED
  BY <1>3, <1>5, <1>6, <1>7

LEMMA DispatchInitBody ==
  ASSUME KmpInv, NEW c \in Cores, DispatchInit(c) PROVE BodyInv'
<1> USE CoreCount DEF KmpInv, BodyInv
<1>1. /\ pc[c] = "task" /\ ~Through(c) /\ step[c] = "init" /\ workers_mutex = c /\ workers_mutex' = Free
      /\ step' = [step EXCEPT ![c] = "next"]
      /\ UNCHANGED <<ran, euVars, teamVars, calls, at, start>>
      /\ Loop(c) \in Loops /\ Loop(c).sched = "dynamic"
  BY LoopPlace, InRegion DEF DispatchInit, Unlock, StepsExact
<1>2. WithinLoop(c, "next")
  BY <1>1 DEF WithinLoop, KmpTypes
<1>3. /\ TeamExact' /\ Lockstep'
      /\ \A d \in Cores : Loop(d)' = Loop(d) /\ Through(d)' = Through(d)
      /\ \A d \in Cores : step'[d] = IF d = c THEN "next" ELSE step[d]
      /\ UNCHANGED <<pc, numThreads, nbThreads, microtask, at, calls>>
  BY <1>2, LoopTeam
<1>4. \/ UNCHANGED <<loop_is_setup, loop_start, loop_end, loop_chunk>> /\ loop_is_setup
      \/ /\ loop_is_setup' = TRUE /\ loop_start' = Loop(c).lb
         /\ loop_end' = Loop(c).ub /\ loop_chunk' = Loop(c).chunk
  BY DEF DispatchInit, loopVars
<1>5. KmpTypes'
  <2>1. loop_is_setup' \in BOOLEAN
    BY <1>4 DEF KmpTypes
  <2>2. loop_start' \in Int /\ loop_end' \in Int /\ loop_chunk' \in Int
    <3>1. Loop(c).lb \in Int /\ Loop(c).ub \in Int /\ Loop(c).chunk \in Int
      BY <1>1 DEF Loops
    <3>2. QED
      BY <1>4, <3>1 DEF KmpTypes
  <2>3. QED
    BY <1>1, <1>3, <2>1, <2>2 DEF KmpTypes
<1>6. \A d \in Cores : workers_mutex # d => step[d] \notin {"init", "take"}
  BY DEF StepsExact
<1>7. StepsExact'
  BY <1>1, <1>3, <1>6 DEF StepsExact, Free
<1>8. DynamicExact'
  <2>1. Taking' = Taking \cup {c}
    BY <1>1, <1>3 DEF Taking
  <2>2. \A d \in Cores : Space(Loop(d))' = Space(Loop(d))
    BY <1>3 DEF Space
  <2>3. \A d \in Taking' : Loop(d) = Loop(c)
    BY <1>1, <2>1, SameLoop DEF StepsExact, Taking
  <2>4. /\ loop_end' = Loop(c).ub /\ loop_chunk' = Loop(c).chunk
        /\ \A i \in Space(Loop(c)) : i < loop_start' => ran[i] > 0
    <3>1. CASE UNCHANGED <<loop_is_setup, loop_start, loop_end, loop_chunk>> /\ loop_is_setup
      <4>1. PICK d \in Taking : TRUE
        BY <3>1 DEF DynamicExact, SetUpHeld, FieldsExact, StartExact, NoneSkipped
      <4>2. Loop(d) = Loop(c)
        BY <2>1, <2>3, <4>1
      <4>3. QED
        BY <3>1, <4>1, <4>2 DEF DynamicExact, SetUpHeld, FieldsExact, StartExact, NoneSkipped
    <3>2. CASE loop_start' = Loop(c).lb /\ loop_end' = Loop(c).ub /\ loop_chunk' = Loop(c).chunk
      <4>1. \A i \in Space(Loop(c)) : i \in Int /\ i >= Loop(c).lb
        BY <1>1 DEF Space, Loops
      <4>2. QED
        BY <1>1, <3>2, <4>1 DEF Loops
    <3>3. QED
      BY <1>4, <3>1, <3>2
  <2>5. SetUpHeld'
    BY <2>1 DEF SetUpHeld
  <2>6. FieldsExact'
    BY <1>1, <1>3, <2>1, <2>2, <2>3, <2>4 DEF FieldsExact, Taking
  <2>7. StartExact'
    BY <1>1, <1>3, <1>6 DEF StartExact
  <2>8. NoneSkipped'
    BY <1>1, <1>3, <2>2 DEF DynamicExact, NoneSkipped
  <2>9. QED
    BY <2>5, <2>6, <2>7, <2>8 DEF DynamicExact
<1>9. QED
  BY <1>3, <1>5, <1>7, <1>8

LEMMA NextTakeBody ==
  ASSUME KmpInv, NEW c \in Cores, NextTake(c) PROVE BodyInv'
<1> USE CoreCount DEF KmpInv, BodyInv
<1> DEFINE label == IF start[c] > loop_end THEN "barrier" ELSE "next"
           upTo == Min({start[c] + loop_chunk - 1, loop_end})
<1>1. /\ pc[c] = "task" /\ ~Through(c) /\ step[c] = "take" /\ workers_mutex = c /\ workers_mutex' = Free
      /\ step' = [step EXCEPT ![c] = label]
      /\ UNCHANGED <<euVars, teamVars, calls, at, start, loop_end, loop_chunk>>
      /\ Loop(c) \in Loops /\ Loop(c).sched = "dynamic"
      /\ c \in Taking /\ start[c] = loop_start
  BY LoopPlace, InRegion DEF NextTake, Unlock, StepsExact, DynamicExact, StartExact, Taking
<1>2. \/ start[c] > loop_end /\ loop_is_setup' = FALSE /\ loop_start' = loop_start /\ ran' = ran
      \/ /\ start[c] <= loop_end /\ loop_is_setup' = loop_is_setup
         /\ loop_start' = start[c] + loop_chunk /\ ran' = Count(start[c]..upTo)
  BY DEF NextTake, KmpTypes
<1> HIDE DEF label, upTo
<1>3. WithinLoop(c, label)
  <2>1. DOMAIN ran' = DOMAIN ran /\ \A i \in DOMAIN ran : ran'[i] \in Nat /\ (ran[i] > 0 => ran'[i] > 0)
    BY <1>2, CountGrows DEF KmpTypes
  <2>2. QED
    BY <1>1, <2>1 DEF WithinLoop
<1>4. /\ TeamExact' /\ Lockstep'
      /\ \A d \in Cores : Loop(d)' = Loop(d) /\ Through(d)' = Through(d)
      /\ \A d \in Cores : step'[d] = IF d = c THEN label ELSE step[d]
      /\ UNCHANGED <<pc, numThreads, nbThreads, microtask, at, calls>>
  BY <1>3, LoopTeam
<1>5. label \in {"barrier", "next"} /\ (label = "barrier" <=> start[c] > loop_end)
  BY DEF label
<1>6. KmpTypes'
  <2>1. loop_is_setup' \in BOOLEAN
    BY <1>2 DEF KmpTypes
  <2>2. loop_start' \in Int
    BY <1>1, <1>2 DEF KmpTypes
  <2>3. \A i \in DOMAIN ran' : ran'[i] \in Nat
    BY <1>3 DEF WithinLoop
  <2>4. QED
    BY <1>1, <1>4, <1>5, <2>1, <2>2, <2>3 DEF KmpTypes
<1>7. \A d \in Cores : workers_mutex # d => step[d] \notin {"init", "take"}
  BY DEF StepsExact
<1>8. StepsExact'
  BY <1>1, <1>4, <1>5, <1>7 DEF StepsExact, Free
<1>9. DynamicExact'
  <2>1. Taking' = IF label = "next" THEN Taking ELSE Taking \ {c}
    BY <1>1, <1>4, <1>5 DEF Taking
  <2>2. \A d \in Cores : Space(Loop(d))' = Space(Loop(d))
    BY <1>4 DEF Space
  <2>3. \A d \in Cores : step[d] # "loop" => Loop(d) = Loop(c) /\ DOMAIN ran = Space(Loop(d))
    BY <1>1, SameLoop DEF StepsExact
  <2>4. /\ loop_end = Loop(c).ub /\ loop_chunk = Loop(c).chunk
        /\ \A i \in Space(Loop(c)) : i \in Int /\ i <= loop_end /\ (i < loop_start => ran[i] > 0)
    BY <1>1 DEF DynamicExact, FieldsExact, Space, Loops
  <2>5. \A i \in Space(Loop(c)) : i < loop_start' => ran'[i] > 0
    <3>1. CASE loop_start' = loop_start /\ ran' = ran
      BY <2>4, <3>1
    <3>2. CASE loop_start' = start[c] + loop_chunk /\ ran' = Count(start[c]..upTo)
      <4>1. ASSUME NEW i \in Space(Loop(c)), i < loop_start' PROVE ran[i] > 0 \/ i \in start[c]..upTo
        <5>1. /\ start[c] + loop_chunk - 1 \in Int /\ loop_end \in Int /\ start[c] \in Int
              /\ loop_chunk \in Int /\ loop_start = start[c] /\ i \in Int /\ i <= loop_end
              /\ i < start[c] + loop_chunk
          <6>1. start[c] \in Int /\ loop_chunk \in Int /\ loop_end \in Int
            BY DEF KmpTypes
          <6>2. loop_start = start[c] /\ i \in Int /\ i <= loop_end /\ i < start[c] + loop_chunk
            BY <1>1, <2>4, <3>2, <4>1
          <6>3. QED
            BY <6>1, <6>2
        <5>2. upTo = IF start[c] + loop_chunk - 1 <= loop_end THEN start[c] + loop_chunk - 1 ELSE loop_end
          BY <5>1, MinOfTwo DEF upTo
        <5>3. CASE i < start[c]
          BY <2>4, <4>1, <5>1, <5>3
        <5>4. CASE ~(i < start[c])
          BY <5>1, <5>2, <5>4
        <5>5. QED
          BY <5>3, <5>4
      <4>2. QED
        BY <1>1, <2>3, <3>2, <4>1, CountGrows
    <3>3. QED
      BY <1>2, <3>1, <3>2
  <2>6. SetUpHeld'
    BY <1>1, <1>2, <1>5, <2>1 DEF DynamicExact, SetUpHeld, KmpTypes
  <2>7. FieldsExact'
    BY <1>1, <1>4, <2>1, <2>2, <2>3, <2>4, <2>5 DEF FieldsExact, Taking
  <2>8. StartExact'
    BY <1>1, <1>4, <1>5, <1>7 DEF StartExact
  <2>9. NoneSkipped'
    <3>1. ASSUME label = "barrier" PROVE \A i \in Space(Loop(c)) : ran'[i] > 0
      <4>1. start[c] > loop_end /\ start[c] = loop_start /\ start[c] \in Int /\ loop_end \in Int
        BY <1>1, <1>5, <3>1 DEF KmpTypes
      <4>2. ran' = ran
        BY <1>2, <4>1
      <4> HIDE DEF KmpInv, BodyInv
      <4>3. QED
        BY <2>4, <4>1, <4>2
    <3>2. \A d \in Cores : step[d] # "loop" => \A i \in Space(Loop(d)) : ran[i] > 0 => ran'[i] > 0
      BY <1>3, <2>3 DEF WithinLoop
    <3>3. QED
      BY <1>1, <1>4, <2>2, <3>1, <3>2 DEF DynamicExact, NoneSkipped
  <2>10. QED
    BY <2>6, <2>7, <2>8, <2>9 DEF DynamicExact
<1>10. QED
  BY <1>4, <1>6, <1>8, <1>9
------------------------------------------------------------------------------
(* The barrier moves the whole team on.                                    *)
LEMMA BarrierBody ==
  ASSUME KmpInv, Barrier PROVE BodyInv'
<1> USE CoreCount DEF KmpInv, BodyInv
<1>1. AtBarrier = team /\ 0 \in team /\ team \subseteq Cores
  BY TeamArrived DEF Barrier, AtBarrier
<1>2. /\ UNCHANGED <<pc, nthreads, numThreads, nbThreads, microtask, calls, start, workers_mutex,
                     loop_is_setup, loop_start, loop_end, loop_chunk>>
      /\ at' = [c \in Cores |-> IF c \in team THEN at[c] + 1 ELSE at[c]]
      /\ step' = [c \in Cores |-> IF c \in team THEN "loop" ELSE step[c]]
      /\ ran' = IF at[0] < Len(microtask) THEN Fresh(microtask[at[0] + 1])
                ELSE IF calls[0] > 1 THEN Fresh(microtask[1]) ELSE NoRuns
  BY <1>1 DEF Barrier, euVars, counters, teamVars, loopVars
<1>3. \A c \in team : pc[c] = "task" /\ ~Through(c) /\ step[c] = "barrier"
  BY <1>1, LoopPlace DEF AtBarrier
<1>4. \A c \in Cores : c \notin team => pc[c] # "task" /\ step[c] = "loop"
  BY InRegion DEF StepsExact
<1>5. \A c \in Cores : step'[c] = "loop"
  BY <1>2, <1>4
<1>6. workers_mutex = Free
  BY <1>3, <1>4 DEF StepsExact, KmpTypes
<1>7. ~loop_is_setup
  BY <1>3, <1>4 DEF DynamicExact, SetUpHeld, Taking
<1>8. KmpTypes'
  <2>1. \A i \in DOMAIN ran' : ran'[i] \in Nat
    BY <1>2 DEF Fresh, NoRuns
  <2>2. loop_is_setup' \in BOOLEAN
    BY <1>2 DEF KmpTypes
  <2>3. at' \in [Cores -> Nat \ {0}] /\ step' \in [Cores -> {"loop", "init", "next", "take", "barrier"}]
    <3>1. at \in [Cores -> Nat \ {0}] /\ step \in [Cores -> {"loop", "init", "next", "take", "barrier"}]
      BY DEF KmpTypes
    <3>2. /\ at' = [c \in Cores |-> IF c \in team THEN at[c] + 1 ELSE at[c]]
          /\ step' = [c \in Cores |-> IF c \in team THEN "loop" ELSE step[c]]
      BY <1>2
    <3> HIDE DEF KmpInv, BodyInv
    <3>3. \A c \in Cores : at[c] \in Nat \ {0} /\ at[c] + 1 \in Nat \ {0}
      BY <3>1
    <3>4. QED
      BY <3>1, <3>2, <3>3
  <2>4. UNCHANGED <<numThreads, nbThreads, microtask, calls, start, workers_mutex, loop_start, loop_end, loop_chunk>>
    BY <1>2
  <2>5. QED
    BY <2>1, <2>2, <2>3, <2>4 DEF KmpTypes
<1>9. TeamExact'
  BY <1>2 DEF TeamExact
<1>10. StepsExact'
  BY <1>2, <1>5, <1>6 DEF StepsExact, Free
<1>11. DynamicExact'
  <2>1. ~loop_is_setup'
    BY <1>2, <1>7
  <2>2. QED
    BY <1>5, <2>1 DEF DynamicExact, SetUpHeld, FieldsExact, StartExact, NoneSkipped, Taking
<1>12. Lockstep'
  <2>1. team' = team
    BY <1>2 DEF team
  <2>2. \A c \in team : at[c] = at[0] /\ calls[c] = calls[0]
    BY <1>1, <1>3 DEF Lockstep, CallsLeft, NextLoop
  <2>3. Len(microtask) \in Nat /\ at[0] \in Nat /\ at[0] <= Len(microtask) /\ calls[0] \in Nat
    BY <1>1, <1>3, InRegion DEF KmpTypes
  <2>4. \A c \in team :
          /\ CallsLeft(c)' = IF at[0] < Len(microtask) THEN calls[0] ELSE calls[0] - 1
          /\ NextLoop(c)' = IF at[0] < Len(microtask) THEN at[0] + 1 ELSE 1
    BY <1>1, <1>2, <2>2, <2>3 DEF CallsLeft, NextLoop, Through
  <2>5. \A c \in team : CallsLeft(c)' > 0 => DOMAIN ran' = Space(microtask'[NextLoop(c)'])
    BY <1>2, <2>3, <2>4 DEF Fresh
  <2>6. \A c \in team : CallsLeft(c)' > 0 => (DOMAIN ran = Space(microtask[NextLoop(c)]))'
    BY <2>5 DEF Space
  <2>7. QED
    BY <2>1, <2>4, <2>6 DEF Lockstep
<1>13. QED
  BY <1>8, <1>9, <1>10, <1>11, <1>12

(* After the last loop: the next case of the switch, or the return.        *)
LEMMA WrapperBody ==
  ASSUME KmpInv, NEW c \in Cores, FallThrough(c) \/ WrapperReturns(c) PROVE BodyInv'
<1> USE CoreCount DEF KmpInv, BodyInv
<1>1. pc[c] = "task" /\ Through(c) /\ step[c] = "loop" /\ Len(microtask) \in Nat \ {0}
  <2>1. pc[c] = "task" /\ Through(c)
    BY DEF FallThrough, WrapperReturns, MicrotaskDone, At, Through
  <2>2. Len(microtask) \in Nat \ {0}
    BY <2>1, InRegion
  <2>3. step[c] = "loop"
    BY <2>1 DEF StepsExact
  <2>4. QED
    BY <2>1, <2>2, <2>3
<1>2. CASE FallThrough(c)
  <2>1. /\ calls[c] > 1 /\ calls' = [calls EXCEPT ![c] = @ - 1] /\ at' = [at EXCEPT ![c] = 1]
        /\ UNCHANGED <<pc, nthreads, numThreads, nbThreads, microtask, step, start, ran, workers_mutex,
                       loop_is_setup, loop_start, loop_end, loop_chunk>>
    BY <1>2 DEF FallThrough, euVars, counters, teamVars, loopVars
  <2>2. KmpTypes' /\ TeamExact'
    <3>1. /\ calls' \in [Cores -> Nat] /\ at' \in [Cores -> Nat \ {0}]
          /\ \A d \in Cores : calls[d] > 0 => calls'[d] > 0
      <4>0. calls \in [Cores -> Nat] /\ at \in [Cores -> Nat \ {0}]
        BY DEF KmpTypes
      <4>1. calls \in [Cores -> Nat] /\ at \in [Cores -> Nat \ {0}] /\ calls[c] - 1 \in Nat \ {0}
        <5> HIDE DEF KmpInv, BodyInv
        <5>1. calls[c] > 1
          BY <2>1
        <5>2. QED
          BY <4>0, <5>1
      <4>2. /\ calls' = [calls EXCEPT ![c] = calls[c] - 1]
            /\ at' = [at EXCEPT ![c] = 1] /\ 1 \in Nat \ {0}
        BY <2>1
      <4>3. calls' \in [Cores -> Nat] /\ at' \in [Cores -> Nat \ {0}]
        BY <4>1, <4>2
      <4>4. QED
        BY <4>1, <4>2, <4>3
    <3>2. KmpTypes'
      BY <2>1, <3>1 DEF KmpTypes
    <3>3. QED
      BY <2>1, <3>1, <3>2 DEF TeamExact
  <2>3. \A d \in Cores : d # c => Loop(d)' = Loop(d) /\ Through(d)' = Through(d)
    BY <2>1 DEF Loop, Through, KmpTypes
  <2>4. \A d \in Cores : step[d] # "loop" => d # c
    BY <1>1
  <2>5. StepsExact'
    BY <2>1, <2>3, <2>4 DEF StepsExact
  <2>6. \A d \in Cores : CallsLeft(d)' = CallsLeft(d) /\ NextLoop(d)' = NextLoop(d)
    <3>1. CallsLeft(c)' = CallsLeft(c) /\ NextLoop(c)' = NextLoop(c)
      BY <1>1, <2>1 DEF CallsLeft, NextLoop, Through, KmpTypes
    <3>2. QED
      BY <2>1, <3>1 DEF CallsLeft, NextLoop, Through, KmpTypes
  <2>7. Lockstep'
    <3>1. team' = team /\ team \subseteq Cores
      BY <2>1 DEF team, Cores, EuInv, EuTypeOK
    <3>2. QED
      BY <2>1, <2>6, <3>1 DEF Lockstep, Space
  <2>8. DynamicExact'
    <3>1. SetUpHeld' /\ StartExact'
      BY <2>1 DEF DynamicExact, SetUpHeld, StartExact, Taking
    <3>2. FieldsExact' /\ NoneSkipped'
      BY <2>1, <2>3, <2>4 DEF DynamicExact, FieldsExact, NoneSkipped, Taking, Space
    <3>3. QED
      BY <3>1, <3>2 DEF DynamicExact
  <2>9. QED
    BY <2>2, <2>5, <2>7, <2>8
<1>3. CASE WrapperReturns(c)
  BY <1>1, <1>3, SameBody DEF WrapperReturns, Return, Move, Goto, EuInv, EuTypeOK, At, counters
<1>4. QED
  BY <1>2, <1>3

LEMMA KmpNext == KmpInv /\ [Next]_vars => KmpInv'
<1> SUFFICES ASSUME KmpInv, [Next]_vars PROVE KmpInv'
  OBVIOUS
<1>1. EuInv'
  BY NextEuInv, KmpEuStep DEF KmpInv, BodyInv
<1>2. ASSUME UNCHANGED vars PROVE BodyInv'
  BY <1>2, SameBody DEF vars, euVars, counters
<1>3. ASSUME Next PROVE BodyInv'
  BY <1>3, EuStepBody, SerialBody, StaticBody, LockBody, DispatchInitBody, NextTakeBody, BarrierBody,
     WrapperBody DEF Next, BodyStep, LoopStep
<1>4. QED
  BY <1>1, <1>2, <1>3 DEF KmpInv

LEMMA KmpInvariant == Spec => []KmpInv
BY KmpInit, KmpNext, PTL DEF Spec
------------------------------------------------------------------------------
(* For any number of cores and any regions: every variable has its type,   *)
(* and workers_mutex is held by exactly the core that is in one of the two *)
(* critical sections of __kmpc_dispatch_init_4 and __kmpc_dispatch_next_4. *)
THEOREM KmpTypeCorrect == Spec => []TypeOK
<1>1. KmpInv => TypeOK
  <2> SUFFICES ASSUME KmpInv PROVE TypeOK
    OBVIOUS
  <2>1. \A c \in Cores : InLoop(c, "init") \/ InLoop(c, "take") <=> workers_mutex = c
    BY LoopPlace DEF KmpInv, BodyInv, StepsExact
  <2>2. QED
    BY <2>1 DEF KmpInv, BodyInv, KmpTypes, EuInv, TypeOK
<1>2. QED
  BY <1>1, KmpInvariant, PTL

(* No wake-up of eu.c is lost or left over, for any number of cores: while *)
(* core 0 writes an event all workers sleep with no interrupt pending, and *)
(* a pending interrupt has a worker that is asleep or about to clear it.   *)
THEOREM WakeUpsExact == Spec => []NoStrayWakeUp
<1>1. KmpInv => NoStrayWakeUp
  BY StrayWakeUp DEF KmpInv
<1>2. QED
  BY <1>1, KmpInvariant, PTL

(* The runtime on the event unit implements fork and join for any number   *)
(* of cores: each core of a team runs the task once, no other core runs    *)
(* it, and eu_run_empty returns after the last of them is done.            *)
THEOREM KmpForkJoin == Spec => ImplementsForkJoin
<1>1. Init => FJ!Init
  BY ForkJoinInit DEF Init
<1>2. KmpInv /\ [Next]_vars => [FJ!Next]_(FJ!vars)
  BY KmpEuStep, ForkJoinStep DEF KmpInv, BodyInv
<1>3. QED
  BY <1>1, <1>2, KmpInvariant, PTL DEF Spec, ImplementsForkJoin, FJ!Spec

(* A loop with a dynamic schedule leaves no iteration out and is torn down *)
(* when the team meets at the barrier after it, for any team, bounds and   *)
(* chunk: although a late core may set it up again.                        *)
THEOREM DynamicLoopComplete == Spec => []NoIterationSkipped
<1>1. KmpInv => NoIterationSkipped
  <2> SUFFICES ASSUME KmpInv, AllArrived, Loop(0).sched = "dynamic"
               PROVE  ~loop_is_setup /\ \A i \in Space(Loop(0)) : ran[i] > 0
    BY DEF NoIterationSkipped
  <2>1. AtBarrier = team /\ 0 \in team
    BY TeamArrived DEF AllArrived
  <2>2. \A c \in team : c \in Cores /\ step[c] = "barrier"
    BY <2>1, LoopPlace DEF AtBarrier
  <2>3. \A c \in Cores : step[c] # "loop" => c \in team
    BY InRegion DEF KmpInv, BodyInv, StepsExact
  <2>4. Taking = {}
    BY <2>2, <2>3 DEF Taking
  <2>5. QED
    BY <2>1, <2>2, <2>4 DEF KmpInv, BodyInv, DynamicExact, SetUpHeld, NoneSkipped
<1>2. QED
  BY <1>1, KmpInvariant, PTL
------------------------------------------------------------------------------
(* Quotients and remainders, for the bounds of static schedules.           *)
LEMMA Euclid ==
  ASSUME NEW n \in Nat \ {0}, NEW a \in Int
  PROVE  /\ a \div n \in Int /\ a % n \in 0..(n - 1)
         /\ a = n * (a \div n) + (a % n)
OBVIOUS

LEMMA Quotient ==
  ASSUME NEW n \in Nat \ {0}, NEW q \in Int, NEW r \in 0..(n - 1), NEW a, a = n * q + r
  PROVE  a \div n = q /\ a % n = r
<1>1. (n * q + r) \div n = q /\ (n * q + r) % n = r
  OBVIOUS
<1>2. QED
  BY <1>1

LEMMA TimesMonotone ==
  ASSUME NEW a \in Nat, NEW b \in Int, NEW c \in Int, b <= c
  PROVE  a * b \in Int /\ a * c \in Int /\ a * b <= a * c
<1>1. PICK d \in Nat : c = b + d
  <2>1. c - b \in Nat
    OBVIOUS
  <2>2. QED
    BY <2>1
<1>2. a * (b + d) = a * b + a * d /\ a * d \in Nat /\ a * b \in Int
  OBVIOUS
<1>3. QED
  BY <1>1, <1>2

LEMMA TimesSucc ==
  ASSUME NEW a \in Int, NEW b \in Int
  PROVE  a * b \in Int /\ (a + 1) * b = a * b + b /\ a * (b + 1) = a * b + a /\ a * b = b * a
OBVIOUS

(* Where thread t begins, if r threads take q + 1 iterations and the others q. *)
Begin(q, r, t) == t * q + (IF t < r THEN t ELSE r)

LEMMA BeginNext ==
  ASSUME NEW q \in Nat, NEW r \in Nat, NEW t \in Nat
  PROVE  /\ Begin(q, r, t) \in Nat /\ Begin(q, r, t + 1) \in Nat
         /\ Begin(q, r, t + 1) = Begin(q, r, t) + (IF t < r THEN q + 1 ELSE q)
<1>1. t * q \in Nat
  OBVIOUS
<1>2. PICK p \in Nat : p = t * q
  BY <1>1
<1>3. (t + 1) * q = p + q
  BY <1>2, TimesSucc
<1>4. QED
  BY <1>2, <1>3 DEF Begin

LEMMA BeginGrows ==
  ASSUME NEW q \in Nat, NEW r \in Nat, NEW t \in Nat, NEW u \in Nat, t <= u
  PROVE  Begin(q, r, t) <= Begin(q, r, u)
<1>1. t * q \in Int /\ u * q \in Int /\ t * q <= u * q
  <2>1. q * t \in Int /\ q * u \in Int /\ q * t <= q * u
    BY TimesMonotone
  <2>2. q * t = t * q /\ q * u = u * q
    OBVIOUS
  <2>3. QED
    BY <2>1, <2>2
<1>2. PICK a \in Int, b \in Int : a = t * q /\ b = u * q /\ a <= b
  BY <1>1
<1>3. Begin(q, r, t) = a + (IF t < r THEN t ELSE r) /\ Begin(q, r, u) = b + (IF u < r THEN u ELSE r)
  BY <1>2 DEF Begin
<1>4. QED
  BY <1>2, <1>3

(* Each of the n * q + r iterations has a thread.                          *)
LEMMA BeginCovers ==
  ASSUME NEW n \in Nat \ {0}, NEW q \in Nat, NEW r \in 0..(n - 1), NEW i \in Nat, i < n * q + r
  PROVE  \E t \in 0..(n - 1) : Begin(q, r, t) <= i /\ i < Begin(q, r, t + 1)
<1>1. r * (q + 1) \in Nat /\ n * q \in Nat /\ r * (q + 1) = r * q + r /\ r * q \in Nat
  <2>1. r \in Nat
    OBVIOUS
  <2>2. r * q \in Nat /\ n * q \in Nat
    BY <2>1
  <2>3. r * (q + 1) = r * q + r
    BY <2>1
  <2>4. r * (q + 1) \in Nat
    <3>1. PICK s \in Nat : s = q + 1
      OBVIOUS
    <3>2. r * s \in Nat
      BY <2>1
    <3>3. QED
      BY <3>1, <3>2
  <2>5. QED
    BY <2>2, <2>3, <2>4, Zenon
<1>2. CASE i < r * (q + 1)
  <2>1. PICK d \in Nat \ {0} : d = q + 1
    OBVIOUS
  <2>2. PICK t \in Int, s \in 0..(d - 1) : i = d * t + s
    <3>1. i \div d \in Int /\ i % d \in 0..(d - 1) /\ i = d * (i \div d) + (i % d)
      BY Euclid
    <3>2. QED
      BY <3>1
  <2>3. d * t \in Int /\ d * t = t * q + t /\ t * q \in Int
    BY <2>1, TimesSucc
  <2>4. t >= 0
    <3> SUFFICES ASSUME t <= -1 PROVE FALSE
      OBVIOUS
    <3>1. d * t <= d * (-1) /\ d * (-1) = -d
      BY TimesMonotone
    <3>2. QED
      BY <2>2, <2>3, <3>1
  <2>5. t < r
    <3> SUFFICES ASSUME r <= t PROVE FALSE
      OBVIOUS
    <3>1. d * r <= d * t /\ d * r = r * d
      BY TimesMonotone
    <3>2. i < r * d
      BY <1>2, <2>1
    <3>3. QED
      BY <2>2, <2>3, <3>1, <3>2
  <2>6. Begin(q, r, t) = d * t
    BY <2>3, <2>5 DEF Begin
  <2>7. Begin(q, r, t + 1) = Begin(q, r, t) + d
    BY <2>1, <2>4, <2>5, BeginNext
  <2>8. QED
    BY <2>2, <2>3, <2>4, <2>5, <2>6, <2>7
<1>3. CASE ~(i < r * (q + 1))
  <2>1. PICK j \in Nat, p \in Nat : j = i - (p + r) /\ p = r * q
    BY <1>1, <1>3
  <2>2. PICK m \in Nat : m = n * q
    BY <1>1
  <2>3. j + p < m
    BY <2>1, <2>2
  <2>4. q # 0
    <3> SUFFICES ASSUME q = 0 PROVE FALSE
      OBVIOUS
    <3>1. n * q = 0 /\ r * q = 0
      OBVIOUS
    <3>2. QED
      BY <2>1, <2>2, <2>3, <3>1
  <2>5. PICK k \in Int, s \in 0..(q - 1) : j = q * k + s
    <3>1. j \div q \in Int /\ j % q \in 0..(q - 1) /\ j = q * (j \div q) + (j % q)
      BY <2>4, Euclid
    <3>2. QED
      BY <3>1
  <2>6. q * k \in Int
    OBVIOUS
  <2>7. k >= 0
    <3> SUFFICES ASSUME k <= -1 PROVE FALSE
      OBVIOUS
    <3>1. q * k <= q * (-1)
      BY TimesMonotone
    <3>2. q * (-1) = -q
      OBVIOUS
    <3>3. QED
      BY <2>5, <2>6, <3>1, <3>2
  <2>8. PICK t \in Nat : t = r + k
    BY <2>7
  <2>9. t * q = p + q * k
    <3>1. (r + k) * q = r * q + q * k
      OBVIOUS
    <3>2. QED
      BY <2>1, <2>8, <3>1
  <2>10. t < n
    <3> SUFFICES ASSUME n <= t PROVE FALSE
      OBVIOUS
    <3>1. q * n <= q * t /\ q * n \in Int /\ q * t \in Int
      BY TimesMonotone
    <3>2. q * n = n * q /\ q * t = t * q
      OBVIOUS
    <3>3. m <= p + q * k
      BY <2>2, <2>9, <3>1, <3>2
    <3>4. QED
      BY <2>3, <2>5, <2>6, <3>3
  <2>11. ~(t < r)
    BY <2>7, <2>8
  <2>12. Begin(q, r, t) = p + q * k + r
    BY <2>9, <2>11 DEF Begin
  <2>13. Begin(q, r, t + 1) = Begin(q, r, t) + q
    BY <2>11, BeginNext
  <2>14. QED
    BY <2>1, <2>5, <2>6, <2>10, <2>12, <2>13
<1>4. QED
  BY <1>2, <1>3

(* A chunk's owner: chunks of C iterations are dealt to n threads in turn. *)
LEMMA Span ==
  ASSUME NEW C \in Nat \ {0}, NEW n \in Nat \ {0}
  PROVE  C * n \in Nat \ {0} /\ \A t \in Nat : C * t \in Nat
<1>1. C * n \in Int /\ C * 1 <= C * n /\ C * 1 = C
  BY TimesMonotone
<1>2. QED
  BY <1>1

(* i is iteration j of chunk k, thread t of n begins at T, and S is the    *)
(* distance between two chunks of a thread.                                *)
Dealt(C, n, t, T, S, k, j, i) == T = C * t /\ S = C * n /\ i = C * k + j

Placed(C, n, t, T, S, k, j, i) ==
  /\ k % n = t => T <= i /\ (i - T) % S = j
  /\ k % n # t => (i - T) % S >= C

LEMMA ChunkPlace ==
  ASSUME NEW C \in Nat \ {0}, NEW n \in Nat \ {0}, NEW t \in 0..(n - 1),
         NEW T \in Nat, NEW S \in Nat \ {0}, NEW k \in Int, NEW j \in 0..(C - 1), NEW i \in Nat
  PROVE  Dealt(C, n, t, T, S, k, j, i) => Placed(C, n, t, T, S, k, j, i)
<1>1. SUFFICES ASSUME T = C * t, S = C * n, i = C * k + j
               PROVE  /\ k % n = t => T <= i /\ (i - T) % S = j
                      /\ k % n # t => (i - T) % S >= C
  BY DEF Dealt, Placed
<1>2. PICK m \in Int, u \in 0..(n - 1) : k = n * m + u /\ k % n = u
  BY Euclid
<1>3. PICK U \in Nat, P \in Int : U = C * u /\ P = S * m
  <2>1. C * u \in Nat /\ S * m \in Int
    OBVIOUS
  <2>2. QED
    BY <2>1
<1>4. i - T = P + (U - T) + j
  <2>1. C * k = C * (n * m) + C * u
    BY <1>2
  <2>2. C * (n * m) = (C * n) * m
    OBVIOUS
  <2>3. C * k = P + U
    BY <1>1, <1>3, <2>1, <2>2
  <2>4. QED
    BY <1>1, <2>3
<1>5. \A a \in 0..(n - 1), b \in 0..(n - 1) : a < b => C * a + C <= C * b /\ C * a \in Nat /\ C * b \in Nat
  <2> SUFFICES ASSUME NEW a \in 0..(n - 1), NEW b \in 0..(n - 1), a < b
               PROVE  C * a + C <= C * b /\ C * a \in Nat /\ C * b \in Nat
    OBVIOUS
  <2>1. C * (a + 1) \in Int /\ C * b \in Int /\ C * (a + 1) <= C * b
    BY TimesMonotone
  <2>2. C * (a + 1) = C * a + C /\ C * a \in Nat /\ C * b \in Nat
    OBVIOUS
  <2>3. QED
    BY <2>1, <2>2
<1>6. U + C <= S /\ T + C <= S
  <2>1. \A a \in 0..(n - 1) : C * a + C <= S /\ C * a \in Nat
    <3> SUFFICES ASSUME NEW a \in 0..(n - 1) PROVE C * a + C <= S /\ C * a \in Nat
      OBVIOUS
    <3>1. C * (a + 1) \in Int /\ C * n \in Int /\ C * (a + 1) <= C * n
      BY TimesMonotone
    <3>2. C * (a + 1) = C * a + C /\ C * a \in Nat
      OBVIOUS
    <3>3. QED
      BY <1>1, <3>1, <3>2
  <2>2. QED
    BY <1>1, <1>3, <2>1
<1>7. CASE u = t
  <2>1. U = T
    BY <1>1, <1>3, <1>7
  <2>2. i - T = S * m + j /\ j \in 0..(S - 1)
    BY <1>3, <1>4, <1>6, <2>1
  <2>3. (i - T) % S = j
    BY <2>2, Quotient
  <2>4. T <= i
    <3> SUFFICES ASSUME m <= -1 PROVE FALSE
      <4>1. m >= 0 => S * m >= 0
        OBVIOUS
      <4>2. QED
        BY <1>3, <1>4, <2>1, <4>1
    <3>1. S * m <= S * (-1) /\ S * (-1) = -S
      BY TimesMonotone
    <3>2. QED
      BY <1>3, <1>4, <1>6, <2>1, <3>1
  <2>5. QED
    BY <1>2, <1>7, <2>3, <2>4
<1>8. CASE t < u
  <2>1. T + C <= U
    BY <1>1, <1>3, <1>5, <1>8
  <2>2. PICK r \in C..(S - 1) : r = U - T + j
    BY <1>6, <2>1
  <2>3. i - T = S * m + r /\ r \in 0..(S - 1)
    BY <1>3, <1>4, <2>2
  <2>4. (i - T) % S = r
    BY <2>3, Quotient
  <2>5. QED
    BY <1>2, <1>8, <2>2, <2>4
<1>9. CASE u < t
  <2>1. U + C <= T
    BY <1>1, <1>3, <1>5, <1>9
  <2>2. PICK r \in C..(S - 1) : r = S + U - T + j
    BY <1>6, <2>1
  <2>3. PICK w \in Int : w = m - 1
    OBVIOUS
  <2>4. S * w = P - S
    BY <1>3, <2>3
  <2>5. i - T = S * w + r /\ r \in 0..(S - 1)
    BY <1>4, <2>2, <2>4
  <2>6. (i - T) % S = r
    BY <2>5, Quotient
  <2>7. QED
    BY <1>2, <1>9, <2>2, <2>6
<1>10. QED
  BY <1>7, <1>8, <1>9

LEMMA NegativeMultiple ==
  ASSUME NEW n \in Nat \ {0}, NEW x \in Int
  PROVE  (-x) % n = 0 <=> x % n = 0
<1>1. \A y \in Int : y % n = 0 => (-y) % n = 0
  <2> SUFFICES ASSUME NEW y \in Int, y % n = 0 PROVE (-y) % n = 0
    OBVIOUS
  <2>1. PICK q \in Int : y = n * q
    <3>1. y \div n \in Int /\ y % n \in 0..(n - 1) /\ y = n * (y \div n) + (y % n)
      BY Euclid
    <3>2. QED
      BY <3>1
  <2>2. PICK p \in Int : p = -q
    OBVIOUS
  <2>3. n * p = -(n * q)
    BY <2>2
  <2>4. -y = n * p + 0
    BY <2>1, <2>3
  <2>5. PICK z \in Int : z = -y
    OBVIOUS
  <2>6. z = n * p + 0 /\ 0 \in 0..(n - 1)
    BY <2>4, <2>5
  <2>7. z % n = 0
    BY <2>6, Quotient
  <2>8. QED
    BY <2>5, <2>7
<1>2. -(-x) = x /\ -x \in Int
  OBVIOUS
<1>3. QED
  BY <1>1, <1>2

LEMMA Wraps ==
  ASSUME NEW W \in Nat \ {0}, NEW n \in Nat \ {0}, W % n = 0, NEW x \in Int
  PROVE  (x % W) % n = x % n
<1>1. PICK p \in Int : W = n * p
  <2>1. W \div n \in Int /\ W % n \in 0..(n - 1) /\ W = n * (W \div n) + (W % n)
    BY Euclid
  <2>2. QED
    BY <2>1
<1>2. PICK q \in Int, r \in Int : x = W * q + r /\ x % W = r
  <2>1. x \div W \in Int /\ x % W \in 0..(W - 1) /\ x = W * (x \div W) + (x % W)
    BY Euclid
  <2>2. QED
    BY <2>1
<1>3. PICK a \in Int, b \in 0..(n - 1) : r = n * a + b /\ r % n = b
  BY Euclid
<1>4. PICK c \in Int : c = p * q + a
  <2>1. p * q + a \in Int
    OBVIOUS
  <2>2. QED
    BY <2>1
<1>5. x = n * c + b
  <2>1. (n * p) * q = n * (p * q) /\ n * (p * q + a) = n * (p * q) + n * a
    OBVIOUS
  <2>2. W * q = n * (p * q)
    BY <1>1, <2>1
  <2>3. QED
    BY <1>2, <1>3, <1>4, <2>1, <2>2
<1>6. x % n = b
  BY <1>5, Quotient
<1>7. QED
  BY <1>2, <1>3, <1>6

(* Each iteration is assigned to one thread of n.                          *)
SplitsOnce(l, n) ==
  \A i \in 0..l.ub : \E t \in 0..(n - 1) : \A u \in 0..(n - 1) :
    i \in Assigned(l, Bounds(l, u, n)) <=> u = t

LastIsTold(l, n) ==
  \A t \in 0..(n - 1) :
    Bounds(l, t, n).last <=> l.ub \in Assigned(l, Bounds(l, t, n))

LEMMA StaticFacts ==
  ASSUME NEW l \in Loops, Normal(l), l.sched = "static", NEW n \in Nat \ {0}
  PROVE  SplitsOnce(l, n) /\ LastIsTold(l, n)
<1> DEFINE loopSize == (l.ub - l.lb) \div l.incr + 1
<1>1. PICK q \in Nat, r \in 0..(n - 1) : l.ub + 1 = n * q + r /\ loopSize \div n = q
  <2>1. loopSize = l.ub + 1 /\ loopSize \in Nat
    BY DEF Normal
  <2>2. PICK size \in Nat : size = loopSize
    BY <2>1
  <2>3. size \div n \in Int /\ size % n \in 0..(n - 1) /\ size = n * (size \div n) + (size % n)
    BY Euclid
  <2>4. PICK q \in Int, r \in 0..(n - 1) : size = n * q + r /\ size \div n = q
    BY <2>3
  <2>5. q >= 0
    <3> SUFFICES ASSUME q <= -1 PROVE FALSE
      OBVIOUS
    <3>1. n * q <= n * (-1) /\ n * (-1) = -n /\ n * q \in Int
      BY TimesMonotone
    <3>2. QED
      BY <2>4, <3>1
  <2>6. QED
    BY <2>1, <2>2, <2>4, <2>5
<1>2. n * q \in Nat /\ r \in Nat /\ \A t \in 0..(n - 1) : t \in Nat
  OBVIOUS
<1>3. ASSUME NEW t \in 0..(n - 1)
      PROVE  /\ Bounds(l, t, n).lower = Begin(q, r, t)
             /\ Bounds(l, t, n).upper = Begin(q, r, t + 1) - 1
             /\ Bounds(l, t, n).last <=> Begin(q, r, t + 1) - 1 = l.ub /\ Begin(q, r, t) <= l.ub
  <2>1. loopSize - q * n = r
    <3>1. loopSize = l.ub + 1 /\ q * n = n * q
      BY DEF Normal
    <3>2. QED
      BY <1>1, <1>2, <3>1
  <2> DEFINE mine == IF t < r THEN q + 1 ELSE q
  <2>2. mine \in Nat /\ t * mine \in Nat /\ t * q \in Nat
    <3>1. mine \in Nat
      OBVIOUS
    <3> HIDE DEF mine
    <3>2. QED
      BY <3>1
  <2>3. t * mine + (IF t < r THEN 0 ELSE r) = Begin(q, r, t)
    <3>1. t * (q + 1) = t * q + t
      OBVIOUS
    <3>2. QED
      BY <2>2, <3>1 DEF Begin
  <2>4. Begin(q, r, t) \in Nat /\ Begin(q, r, t + 1) = Begin(q, r, t) + mine
    BY <1>2, BeginNext
  <2>5. l.lb + t * mine * l.incr + (IF t < r THEN 0 ELSE r) = Begin(q, r, t)
    <3> HIDE DEF mine
    <3>1. l.lb = 0 /\ l.incr = 1
      BY DEF Normal
    <3>2. l.lb + t * mine * l.incr = t * mine
      BY <2>2, <3>1
    <3>3. QED
      BY <2>3, <3>2
  <2>6. StaticBounds(l, t, n) =
          [lower |-> Begin(q, r, t), upper |-> Begin(q, r, t) + mine * l.incr - l.incr,
           stride |-> loopSize,
           last |-> Begin(q, r, t) + mine * l.incr - l.incr = l.ub /\ Begin(q, r, t) <= l.ub]
    BY <1>1, <2>1, <2>5, Zenon DEF StaticBounds
  <2>7. Begin(q, r, t) + mine * l.incr - l.incr = Begin(q, r, t + 1) - 1
    <3> HIDE DEF mine
    <3>1. l.incr = 1
      BY DEF Normal
    <3>2. mine * 1 = mine
      BY <2>2
    <3>3. QED
      BY <2>2, <2>4, <3>1, <3>2
  <2>8. Bounds(l, t, n) = StaticBounds(l, t, n)
    BY DEF Bounds, StaticInit4, StaticInit8u
  <2>9. PICK m : m = Begin(q, r, t) + mine * l.incr - l.incr
    OBVIOUS
  <2>10. m = Begin(q, r, t + 1) - 1
    BY <2>7, <2>9, Zenon
  <2>11. PICK la \in BOOLEAN : la <=> m = l.ub /\ Begin(q, r, t) <= l.ub
    OBVIOUS
  <2>12. StaticBounds(l, t, n) = [lower |-> Begin(q, r, t), upper |-> m, stride |-> loopSize, last |-> la]
    <3> HIDE DEF mine, loopSize
    <3>1. QED
      BY <2>6, <2>9, <2>11
  <2>13. StaticBounds(l, t, n).lower = Begin(q, r, t) /\ StaticBounds(l, t, n).upper = m
    <3> HIDE DEF mine, loopSize
    <3>1. QED
      BY <2>12
  <2>14. StaticBounds(l, t, n).last = la
    <3> HIDE DEF mine, loopSize
    <3>1. QED
      BY <2>12
  <2>15. QED
    BY <2>8, <2>10, <2>11, <2>13, <2>14
<1>4. Begin(q, r, 0) = 0 /\ Begin(q, r, n) = l.ub + 1
  <2>1. 0 * q = 0
    OBVIOUS
  <2>2. QED
    BY <1>1, <2>1 DEF Begin
<1>5. ASSUME NEW t \in 0..(n - 1), NEW i \in 0..l.ub
      PROVE  i \in Assigned(l, Bounds(l, t, n)) <=> Begin(q, r, t) <= i /\ i < Begin(q, r, t + 1)
  <2>1. Begin(q, r, t) \in Nat /\ Begin(q, r, t + 1) \in Nat
    BY <1>2, BeginNext
  <2>2. PICK b : b = Bounds(l, t, n)
    OBVIOUS
  <2>3. b.lower = Begin(q, r, t) /\ b.upper = Begin(q, r, t + 1) - 1
    BY <1>3, <2>2
  <2>4. i \in Assigned(l, b) <=> b.lower <= i /\ i - b.lower <= b.upper - b.lower
    BY <2>1, <2>3 DEF Assigned, Normal
  <2>5. QED
    BY <2>1, <2>2, <2>3, <2>4
<1>6. SplitsOnce(l, n)
  <2> SUFFICES ASSUME NEW i \in 0..l.ub
               PROVE  \E t \in 0..(n - 1) : \A u \in 0..(n - 1) :
                        i \in Assigned(l, Bounds(l, u, n)) <=> u = t
    BY DEF SplitsOnce
  <2>1. PICK t \in 0..(n - 1) : Begin(q, r, t) <= i /\ i < Begin(q, r, t + 1)
    <3>1. i \in Nat /\ i < n * q + r
      BY <1>1, <1>2 DEF Normal
    <3>2. QED
      BY <3>1, BeginCovers
  <2>2. ASSUME NEW u \in 0..(n - 1), Begin(q, r, u) <= i, i < Begin(q, r, u + 1) PROVE u = t
    <3>1. Begin(q, r, u) \in Nat /\ Begin(q, r, t) \in Nat /\ Begin(q, r, u + 1) \in Nat /\ Begin(q, r, t + 1) \in Nat
      BY <1>2, BeginNext
    <3>2. CASE u < t
      <4>1. Begin(q, r, u + 1) <= Begin(q, r, t)
        BY <3>2, BeginGrows
      <4>2. QED
        BY <2>1, <2>2, <3>1, <4>1
    <3>3. CASE t < u
      <4>1. Begin(q, r, t + 1) <= Begin(q, r, u)
        BY <3>3, BeginGrows
      <4>2. QED
        BY <2>1, <2>2, <3>1, <4>1
    <3>4. QED
      BY <3>2, <3>3
  <2>3. QED
    BY <1>5, <2>1, <2>2
<1>7. LastIsTold(l, n)
  <2> SUFFICES ASSUME NEW t \in 0..(n - 1)
               PROVE  Bounds(l, t, n).last <=> l.ub \in Assigned(l, Bounds(l, t, n))
    BY DEF LastIsTold
  <2>1. Begin(q, r, t + 1) <= l.ub + 1
    <3>1. t + 1 \in Nat /\ n \in Nat /\ t + 1 <= n
      OBVIOUS
    <3>2. Begin(q, r, t + 1) <= Begin(q, r, n)
      BY <1>2, <3>1, BeginGrows
    <3>3. QED
      BY <1>4, <3>2
  <2>2. Begin(q, r, t + 1) \in Nat /\ l.ub \in Nat /\ l.ub \in 0..l.ub
    <3>1. l.ub \in Nat
      BY DEF Normal
    <3>2. Begin(q, r, t + 1) \in Nat
      BY <1>2, BeginNext
    <3>3. QED
      BY <3>1, <3>2
  <2>3. Begin(q, r, t) \in Nat
    BY <1>2, BeginNext
  <2>4. l.ub \in Assigned(l, Bounds(l, t, n)) <=> Begin(q, r, t) <= l.ub /\ l.ub < Begin(q, r, t + 1)
    BY <1>5, <2>2
  <2>5. Bounds(l, t, n).last <=> Begin(q, r, t + 1) - 1 = l.ub /\ Begin(q, r, t) <= l.ub
    BY <1>3
  <2>6. Begin(q, r, t + 1) - 1 = l.ub <=> l.ub < Begin(q, r, t + 1)
    BY <2>1, <2>2
  <2>7. QED
    BY <2>4, <2>5, <2>6, Zenon
<1>8. QED
  BY <1>6, <1>7

LEMMA ToldChunked ==
  ASSUME NEW l, NEW t, NEW n, NEW ahead
  PROVE  ChunkedBounds(l, t, n, ahead).last <=> ahead % ((l.incr * l.chunk) * n) = 0
<1>1. PICK told \in BOOLEAN : told <=> ahead % ((l.incr * l.chunk) * n) = 0
  OBVIOUS
<1>2. PICK lower, upper, stride :
        ChunkedBounds(l, t, n, ahead) = [lower |-> lower, upper |-> upper, stride |-> stride, last |-> told]
  BY <1>1 DEF ChunkedBounds
<1>3. ChunkedBounds(l, t, n, ahead).last = told
  BY <1>2
<1>4. QED
  BY <1>1, <1>3

LEMMA ChunkedFacts ==
  ASSUME NEW l \in Loops, Normal(l), l.sched = "chunked", NEW n \in Nat \ {0}
  PROVE  /\ SplitsOnce(l, n)
         /\ ~l.wide \/ Wrap % Bounds(l, 0, n).stride = 0 => LastIsTold(l, n)
<1> DEFINE C == l.chunk
<1>1. C \in Nat \ {0} /\ l.lb = 0 /\ l.incr = 1 /\ l.ub \in Nat /\ l.incr * C = C
  BY DEF Normal, Loops
<1> HIDE DEF C
<1>2. \A t \in 0..(n - 1) : C * t \in Nat /\ C * n \in Nat \ {0}
  BY <1>1, Span
<1>3. ASSUME NEW t \in 0..(n - 1)
      PROVE  /\ Bounds(l, t, n).lower = C * t
             /\ Bounds(l, t, n).upper = C * t + C - 1
             /\ Bounds(l, t, n).stride = C * n
  <2>1. \A ahead : /\ ChunkedBounds(l, t, n, ahead).lower = C * t
                   /\ ChunkedBounds(l, t, n, ahead).upper = C * t + C - 1
                   /\ ChunkedBounds(l, t, n, ahead).stride = C * n
    <3> SUFFICES ASSUME NEW ahead
                 PROVE  /\ ChunkedBounds(l, t, n, ahead).lower = C * t
                        /\ ChunkedBounds(l, t, n, ahead).upper = C * t + C - 1
                        /\ ChunkedBounds(l, t, n, ahead).stride = C * n
      OBVIOUS
    <3>1. /\ ChunkedBounds(l, t, n, ahead).lower = l.lb + (l.incr * C) * t
          /\ ChunkedBounds(l, t, n, ahead).upper = l.lb + (l.incr * C) * t + l.incr * C - l.incr
          /\ ChunkedBounds(l, t, n, ahead).stride = (l.incr * C) * n
      BY DEF ChunkedBounds, C
    <3>2. l.lb + C * t = C * t
      BY <1>1, <1>2
    <3>3. QED
      BY <1>1, <3>1, <3>2
  <2>2. QED
    BY <2>1 DEF Bounds, StaticInit4, StaticInit8u
<1>4. ASSUME NEW t \in 0..(n - 1), NEW i \in 0..l.ub
      PROVE  i \in Assigned(l, Bounds(l, t, n)) <=> (i \div C) % n = t
  <2>1. PICK b : b = Bounds(l, t, n)
    OBVIOUS
  <2>2. PICK T \in Nat, S \in Nat \ {0} : T = C * t /\ S = C * n
    BY <1>2
  <2>3. b.lower = T /\ b.upper = T + C - 1 /\ b.stride = S
    BY <1>3, <2>1, <2>2
  <2>4. i \in Nat /\ (i - T) % S \in Int
    BY <2>2
  <2>5. i \in Assigned(l, b) <=> T <= i /\ (i - T) % S <= C - 1
    BY <1>1, <2>2, <2>3, <2>4 DEF Assigned
  <2>6. PICK k \in Int, j \in 0..(C - 1) : i = C * k + j /\ i \div C = k
    <3>1. i \in Int
      BY <2>4
    <3>2. i \div C \in Int /\ i % C \in 0..(C - 1) /\ i = C * (i \div C) + (i % C)
      BY <1>1, <3>1, Euclid, Zenon
    <3>3. QED
      BY <3>2, Zenon
  <2>7. /\ k % n = t => T <= i /\ (i - T) % S = j
        /\ k % n # t => (i - T) % S >= C
    <3>1. C \in Nat \ {0} /\ i \in Nat
      BY <1>1, <2>4
    <3>2. Dealt(C, n, t, T, S, k, j, i) => Placed(C, n, t, T, S, k, j, i)
      BY <3>1, ChunkPlace
    <3>3. QED
      BY <2>2, <2>6, <3>2, Zenon DEF Dealt, Placed
  <2>8. QED
    BY <1>1, <2>1, <2>4, <2>5, <2>6, <2>7
<1>5. SplitsOnce(l, n)
  <2> SUFFICES ASSUME NEW i \in 0..l.ub
               PROVE  \E t \in 0..(n - 1) : \A u \in 0..(n - 1) :
                        i \in Assigned(l, Bounds(l, u, n)) <=> u = t
    BY DEF SplitsOnce
  <2>1. PICK k \in Int : k = i \div C
    BY <1>1
  <2>2. k % n \in 0..(n - 1)
    OBVIOUS
  <2>3. QED
    BY <1>4, <2>1, <2>2
<1>6. ASSUME ~l.wide \/ Wrap % Bounds(l, 0, n).stride = 0 PROVE LastIsTold(l, n)
  <2> SUFFICES ASSUME NEW t \in 0..(n - 1)
               PROVE  Bounds(l, t, n).last <=> l.ub \in Assigned(l, Bounds(l, t, n))
    BY DEF LastIsTold
  <2>1. PICK T \in Nat, S \in Nat \ {0} : T = C * t /\ S = C * n
    BY <1>2
  <2>2. ~l.wide \/ Wrap % S = 0
    BY <1>3, <1>6, <2>1
  <2>3. PICK K \in Int, r \in 0..(C - 1) : l.ub = C * K + r /\ l.ub \div C = K /\ l.ub % C = r
    <3>1. l.ub \in Int
      BY <1>1
    <3>2. l.ub \div C \in Int /\ l.ub % C \in 0..(C - 1) /\ l.ub = C * (l.ub \div C) + (l.ub % C)
      BY <1>1, <3>1, Euclid, Zenon
    <3>3. QED
      BY <3>2, Zenon
  <2>4. PICK N \in Int : N = C * K
    BY <1>1
  <2>5. PICK x \in Int : x = N - T /\ Ahead(l, t) = x
    <3>1. Ahead(l, t) = l.ub - (l.ub % C) - (l.lb + C * t)
      BY <1>1 DEF Ahead, C
    <3>2. Ahead(l, t) = N + r - r - (0 + T)
      BY <1>1, <2>1, <2>3, <2>4, <3>1
    <3>3. QED
      BY <1>1, <3>2
  <2>6. x % S = 0 <=> K % n = t
    <3>1. N \in Nat
      <4>1. K >= 0
        <5> SUFFICES ASSUME K <= -1 PROVE FALSE
          OBVIOUS
        <5>1. C * K <= C * (-1) /\ C * (-1) = -C
          BY <1>1, TimesMonotone
        <5>2. QED
          BY <1>1, <2>3, <2>4, <5>1
      <4>2. QED
        BY <1>1, <2>4, <4>1, Span
    <3>2. N = C * K + 0 /\ 0 \in 0..(C - 1)
      BY <1>1, <2>4
    <3>3. /\ K % n = t => T <= N /\ (N - T) % S = 0
          /\ K % n # t => (N - T) % S >= C
      <4>1. C \in Nat \ {0} /\ 0 \in 0..(C - 1)
        BY <1>1
      <4>2. Dealt(C, n, t, T, S, K, 0, N) => Placed(C, n, t, T, S, K, 0, N)
        BY <3>1, <4>1, ChunkPlace
      <4>3. QED
        BY <2>1, <3>2, <4>2, Zenon DEF Dealt, Placed
    <3>4. QED
      BY <1>1, <2>5, <3>3
  <2>7. \A ahead : ChunkedBounds(l, t, n, ahead).last <=> ahead % S = 0
    BY <1>1, <2>1, ToldChunked DEF C
  <2>8. l.ub \in Assigned(l, Bounds(l, t, n)) <=> K % n = t
    BY <1>1, <1>4, <2>3
  <2>9. CASE ~l.wide
    <3>1. Bounds(l, t, n) = ChunkedBounds(l, t, n, Abs(x))
      BY <2>5, <2>9 DEF Bounds, StaticInit4
    <3>2. Abs(x) % S = 0 <=> x % S = 0
      BY NegativeMultiple DEF Abs
    <3>3. QED
      BY <2>6, <2>7, <2>8, <3>1, <3>2, Zenon
  <2>10. CASE l.wide
    <3>1. Bounds(l, t, n) = ChunkedBounds(l, t, n, Unsigned(x))
      BY <2>5, <2>10 DEF Bounds, StaticInit8u
    <3>2. Unsigned(x) % S = x % S
      BY <2>2, <2>10, WrapAssumption, Wraps DEF Unsigned
    <3>3. QED
      BY <2>6, <2>7, <2>8, <3>1, <3>2, Zenon
  <2>11. QED
    BY <2>9, <2>10
<1>7. QED
  BY <1>5, <1>6
------------------------------------------------------------------------------
(* Static loops.  The region is one of the program's; a core of the team   *)
(* that is not through with a loop's share has run none of it, one that is *)
(* has run each iteration of it once; and those that were told that they   *)
(* ran the last one are past their share.                                  *)
TeamLoop(c) == microtask[NextLoop(c)]
Share(c) == Space(TeamLoop(c)) \cap Assigned(TeamLoop(c), Bounds(TeamLoop(c), c, nbThreads))

SharesRun ==
  \A c \in team :
    CallsLeft(c) > 0 /\ TeamLoop(c).sched # "dynamic" =>
      \A i \in Share(c) : ran[i] = IF step[c] = "barrier" THEN 1 ELSE 0

IsTold(c) == Loop(c).sched # "dynamic" /\ Bounds(Loop(c), c, nbThreads).last

SplitInv ==
  /\ nthreads # 0 => microtask \in Microtasks
  /\ SharesRun
  /\ last = {c \in Cores : step[c] = "barrier" /\ IsTold(c)}

StaticInv == KmpInv /\ SplitInv

LEMMA Shares ==
  ASSUME NEW l \in Loops, l.sched # "dynamic", Normal(l), NEW n \in Nat \ {0}
  PROVE  /\ SplitsOnce(l, n) /\ Space(l) = 0..l.ub
         /\ ~l.wide \/ Wrap % Bounds(l, 0, n).stride = 0 => LastIsTold(l, n)
<1>1. l.sched = "static" \/ l.sched = "chunked"
  BY DEF Loops
<1>2. Space(l) = 0..l.ub
  BY DEF Space, Normal
<1>3. QED
  BY <1>1, <1>2, StaticFacts, ChunkedFacts

(* The loop that the team is at, and its threads.                          *)
LEMMA AtLoop ==
  ASSUME NormalLoops, StaticInv, NEW c \in Cores, pc[c] = "task", ~Through(c)
  PROVE  /\ c \in team /\ nthreads # 0 /\ nbThreads \in Nat \ {0}
         /\ team = 0..(nbThreads - 1) /\ team \subseteq Cores
         /\ Loop(c) \in Loops /\ DOMAIN ran = Space(Loop(c))
         /\ Loop(c).sched # "dynamic" => Normal(Loop(c))
         /\ NextLoop(c) = at[c] /\ CallsLeft(c) > 0
         /\ \A d \in team : CallsLeft(d) > 0 /\ TeamLoop(d) = Loop(c)
<1> USE CoreCount DEF StaticInv, KmpInv, BodyInv
<1>1. /\ c \in team /\ nthreads = numThreads /\ nbThreads = numThreads /\ calls[c] > 0
      /\ Loop(c) \in Loops /\ at[c] \in 1..Len(microtask)
  BY InRegion
<1>2. nbThreads \in 1..NumCores /\ nthreads # 0
  BY <1>1 DEF KmpTypes
<1>3. team = 0..(nbThreads - 1) /\ team \subseteq Cores
  BY <1>1, <1>2 DEF team, Cores
<1>4. Loop(c).sched # "dynamic" => Normal(Loop(c))
  <2>1. microtask \in Microtasks
    BY <1>2 DEF SplitInv
  <2>2. QED
    BY <1>1, <2>1 DEF NormalLoops, Loop
<1>5. NextLoop(c) = at[c] /\ CallsLeft(c) = calls[c]
  BY DEF NextLoop, CallsLeft
<1>6. \A d \in team : CallsLeft(d) = CallsLeft(c) /\ NextLoop(d) = NextLoop(c)
  BY <1>1 DEF Lockstep
<1>7. DOMAIN ran = Space(Loop(c))
  BY <1>1, <1>5 DEF Lockstep, Loop
<1>8. QED
  BY <1>1, <1>2, <1>3, <1>4, <1>5, <1>6, <1>7 DEF Loop, TeamLoop

LEMMA InitSplit == Init => SplitInv
<1> SUFFICES ASSUME Init PROVE SplitInv
  OBVIOUS
<1>1. nthreads = 0 /\ team = {}
  BY DEF Init, EuInit, team
<1>2. last = {} /\ \A c \in Cores : step[c] = "loop"
  BY DEF Init
<1>3. QED
  BY <1>1, <1>2 DEF SplitInv, SharesRun

(* Steps that leave the body alone.                                        *)
LEMMA SameSplit ==
  ASSUME SplitInv, nthreads' \in {nthreads, 0},
         UNCHANGED <<nbThreads, microtask, calls, at, step, ran, last>>
  PROVE  SplitInv'
<1>1. team' \subseteq team
  BY DEF team
<1>2. \A c : NextLoop(c)' = NextLoop(c) /\ CallsLeft(c)' = CallsLeft(c) /\ Loop(c)' = Loop(c)
               /\ Share(c)' = Share(c) /\ TeamLoop(c)' = TeamLoop(c)
  BY DEF NextLoop, CallsLeft, Through, Loop, Share, TeamLoop
<1>3. SharesRun'
  BY <1>1, <1>2 DEF SplitInv, SharesRun
<1>4. \A c \in Cores : IsTold(c)' <=> IsTold(c)
  BY <1>2 DEF IsTold
<1>5. QED
  BY <1>3, <1>4 DEF SplitInv

(* Steps that begin a loop for the whole team.                             *)
LEMMA FreshSplit ==
  ASSUME KmpInv', nthreads' # 0 => microtask' \in Microtasks, last' = {},
         \A c \in Cores : step'[c] = "loop", \A i \in DOMAIN ran' : ran'[i] = 0
  PROVE  SplitInv'
<1>1. \A c \in team' : c \in Cores
  <2>1. nthreads' \in 0..NumCores
    BY DEF KmpInv, EuInv, EuTypeOK
  <2>2. team' = 0..(nthreads' - 1)
    BY DEF team
  <2>3. PICK n \in Nat : n = nthreads' /\ n <= NumCores
    BY <2>1, CoresAssumption
  <2>4. \A c \in 0..(n - 1) : c \in 0..(NumCores - 1)
    <3> SUFFICES ASSUME NEW c \in 0..(n - 1) PROVE c \in 0..(NumCores - 1)
      OBVIOUS
    <3>1. n <= NumCores /\ NumCores \in Int
      BY <2>3, CoresAssumption
    <3>2. c \in Int /\ 0 <= c /\ c < n
      OBVIOUS
    <3>3. QED
      BY <3>1, <3>2
  <2>5. QED
    BY <2>2, <2>3, <2>4 DEF Cores
<1>2. \A c \in team' : CallsLeft(c)' > 0 => (DOMAIN ran = Space(TeamLoop(c)))'
  BY DEF KmpInv, BodyInv, Lockstep, TeamLoop
<1>3. SharesRun'
  <2> SUFFICES ASSUME NEW c \in team', CallsLeft(c)' > 0,
                      NEW i \in Share(c)'
               PROVE  ran'[i] = IF step'[c] = "barrier" THEN 1 ELSE 0
    BY DEF SharesRun
  <2>1. i \in DOMAIN ran' /\ step'[c] = "loop"
    BY <1>1, <1>2 DEF Share
  <2>2. QED
    BY <2>1
<1>4. QED
  BY <1>3 DEF SplitInv

LEMMA EuKeepsSplit ==
  ASSUME KmpInv, SplitInv, EuStep, UNCHANGED kmpVars PROVE SplitInv'
<1> USE CoreCount DEF At, Goto, Move, counters
<1>1. UNCHANGED <<nbThreads, microtask, calls, at, step, ran, last>>
  BY DEF kmpVars, teamVars, bodyVars
<1>2. nthreads' \in {nthreads, 0}
  <2>1. CASE HwBarrier \/ Finish
    BY <2>1 DEF HwBarrier, Finish
  <2>2. CASE Setup \/ Boot \/ MasterStep
    BY <2>2 DEF Setup, Boot, MasterStep, Run, WakeForTask, WakeForExit, Wake, AwaitFini, Reset
  <2>3. ASSUME NEW c \in Workers, AwaitSetup(c) \/ WorkerStep(c) PROVE nthreads' \in {nthreads, 0}
    BY <2>3 DEF AwaitSetup, WorkerStep, EnterLoop, CheckExit, CheckTeam, AddFini, AddWfi, Wfi,
                ClearIrq, SubWfi
  <2>4. ASSUME NEW c \in Cores, Call(c) PROVE nthreads' \in {nthreads, 0}
    BY <2>4 DEF Call
  <2>5. QED
    BY <2>1, <2>2, <2>3, <2>4 DEF EuStep
<1>3. QED
  BY <1>1, <1>2, SameSplit

LEMMA SerialSplit ==
  ASSUME KmpInv, KmpInv', SplitInv, SerialStep PROVE SplitInv'
<1> USE CoreCount
<1>1. pc[0] = "serial"
  BY DEF SerialStep, PushNumThreads, Fork, PartialParallelRegion, Push, Destroy, SetExit, At, Move
<1>2. nthreads = 0 /\ \A c \in Cores : pc[c] # "task"
  BY <1>1 DEF KmpInv, EuInv, Phases, AllAt, Workers
<1>3. \A c \in Cores : step[c] = "loop"
  BY <1>2 DEF KmpInv, BodyInv, StepsExact
<1>4. ASSUME NEW n \in 1..(NumCores + 1), PushNumThreads(n) PROVE SplitInv'
  <2>1. UNCHANGED <<nthreads, nbThreads, microtask, calls, at, step, ran, last>>
    BY <1>4 DEF PushNumThreads, euVars, counters, bodyVars
  <2>2. QED
    BY <2>1, SameSplit
<1>5. ASSUME NEW task \in Microtasks, NEW argc \in Argcs, Fork(task, argc) PROVE SplitInv'
  <2>1. microtask' = task /\ ran' = Fresh(task[1]) /\ UNCHANGED <<step, last>>
    BY <1>5 DEF Fork
  <2>2. last' = {}
    BY <1>3, <2>1 DEF SplitInv
  <2>3. \A i \in DOMAIN ran' : ran'[i] = 0
    BY <2>1 DEF Fresh
  <2>4. QED
    BY <1>3, <2>1, <2>2, <2>3, FreshSplit
<1>6. CASE Destroy
  <2>1. UNCHANGED <<nbThreads, microtask, calls, at, step, ran, last>> /\ nthreads' \in {nthreads, 0}
    BY <1>6 DEF Destroy, SetExit, kmpVars, teamVars, bodyVars, counters
  <2>2. QED
    BY <2>1, SameSplit
<1>7. QED
  BY <1>4, <1>5, <1>6 DEF SerialStep

LEMMA BarrierSplit ==
  ASSUME KmpInv, KmpInv', SplitInv, Barrier PROVE SplitInv'
<1>1. AtBarrier = team
  BY TeamArrived DEF Barrier
<1>2. \A c \in Cores : step'[c] = "loop"
  <2>1. \A c \in Cores : c \notin team => step[c] = "loop"
    BY InRegion DEF KmpInv, BodyInv, StepsExact
  <2>2. QED
    BY <1>1, <2>1 DEF Barrier
<1>3. last' = {} /\ \A i \in DOMAIN ran' : ran'[i] = 0
  BY DEF Barrier, Fresh, NoRuns
<1>4. nthreads' # 0 => microtask' \in Microtasks
  BY DEF Barrier, SplitInv, euVars, counters, teamVars
<1>5. QED
  BY <1>2, <1>3, <1>4, FreshSplit

LEMMA WrapperSplit ==
  ASSUME KmpInv, SplitInv, NEW c \in Cores, FallThrough(c) \/ WrapperReturns(c) PROVE SplitInv'
<1> USE CoreCount
<1>1. pc[c] = "task" /\ Through(c) /\ step[c] = "loop" /\ Len(microtask) \in Nat \ {0}
  <2>1. pc[c] = "task" /\ Through(c)
    BY DEF FallThrough, WrapperReturns, MicrotaskDone, At, Through
  <2>2. Len(microtask) \in Nat \ {0}
    BY <2>1, InRegion
  <2>3. step[c] = "loop"
    BY <2>1 DEF KmpInv, BodyInv, StepsExact
  <2>4. QED
    BY <2>1, <2>2, <2>3
<1>2. CASE FallThrough(c)
  <2>1. /\ calls' = [calls EXCEPT ![c] = @ - 1] /\ at' = [at EXCEPT ![c] = 1]
        /\ UNCHANGED <<nthreads, nbThreads, microtask, step, ran, last>>
    BY <1>2 DEF FallThrough, euVars, counters, teamVars
  <2>2. KmpTypes
    BY DEF KmpInv, BodyInv
  <2>3. \A d \in Cores : d # c => at'[d] = at[d] /\ calls'[d] = calls[d]
    BY <2>1, <2>2 DEF KmpTypes
  <2>4. \A d \in Cores : CallsLeft(d)' = CallsLeft(d) /\ NextLoop(d)' = NextLoop(d)
    <3>1. CallsLeft(c)' = CallsLeft(c) /\ NextLoop(c)' = NextLoop(c)
      BY <1>1, <2>1, <2>2 DEF CallsLeft, NextLoop, Through, KmpTypes
    <3>2. QED
      BY <2>1, <2>3, <3>1 DEF CallsLeft, NextLoop, Through
  <2>5. team' = team /\ team \subseteq Cores
    BY <2>1 DEF team, Cores, KmpInv, EuInv, EuTypeOK
  <2>6. \A d \in Cores : TeamLoop(d)' = TeamLoop(d) /\ Share(d)' = Share(d)
    BY <2>1, <2>4 DEF TeamLoop, Share
  <2>7. SharesRun'
    BY <2>1, <2>4, <2>5, <2>6 DEF SplitInv, SharesRun
  <2>8. \A d \in Cores : step[d] = "barrier" => (IsTold(d)' <=> IsTold(d))
    BY <1>1, <2>1, <2>3 DEF IsTold, Loop
  <2>9. QED
    BY <2>1, <2>7, <2>8 DEF SplitInv
<1>3. CASE WrapperReturns(c)
  <2>1. UNCHANGED <<nthreads, nbThreads, microtask, calls, at, step, ran, last>>
    BY <1>3 DEF WrapperReturns, Return, Move, Goto, counters, kmpVars, teamVars, bodyVars
  <2>2. QED
    BY <2>1, SameSplit
<1>4. QED
  BY <1>2, <1>3

(* A step within a dynamic loop: nobody has a share of it.                 *)
LEMMA DynamicSplit ==
  ASSUME NormalLoops, StaticInv, NEW c \in Cores,
         DispatchLock(c) \/ NextLock(c) \/ DispatchInit(c) \/ NextTake(c)
  PROVE  SplitInv'
<1>1. /\ pc[c] = "task" /\ ~Through(c) /\ Loop(c).sched = "dynamic"
      /\ UNCHANGED <<nthreads, nbThreads, microtask, calls, at, last>>
      /\ \E label : step' = [step EXCEPT ![c] = label]
  BY LoopPlace DEF StaticInv, KmpInv, BodyInv, StepsExact, DispatchLock, NextLock, Lock, DispatchInit,
                   NextTake, Unlock, euVars, counters, teamVars
<1>2. \A d \in team : TeamLoop(d) = Loop(c)
  BY <1>1, AtLoop
<1>3. team' = team /\ \A d : TeamLoop(d)' = TeamLoop(d) /\ Loop(d)' = Loop(d)
  BY <1>1 DEF team, TeamLoop, NextLoop, Through, Loop
<1>4. SharesRun'
  BY <1>1, <1>2, <1>3 DEF SharesRun
<1>5. \A d \in Cores : IsTold(d)' <=> IsTold(d)
  BY <1>1, <1>3 DEF IsTold
<1>6. ~IsTold(c) /\ \A d \in Cores : d # c => step'[d] = step[d]
  BY <1>1 DEF IsTold, StaticInv, KmpInv, BodyInv, KmpTypes
<1>7. QED
  BY <1>1, <1>4, <1>5, <1>6 DEF StaticInv, SplitInv

(* A static schedule: the core runs its share, which no other core has.    *)
LEMMA StaticLoopSplit ==
  ASSUME NormalLoops, StaticInv, NEW c \in Cores, StaticLoop(c) PROVE SplitInv'
<1> DEFINE l == Loop(c)
           mine == Assigned(l, Bounds(l, c, nbThreads))
<1>1. /\ pc[c] = "task" /\ ~Through(c) /\ step[c] = "loop" /\ l.sched # "dynamic"
      /\ UNCHANGED <<nthreads, nbThreads, microtask, calls, at>>
      /\ step' = [step EXCEPT ![c] = "barrier"]
      /\ ran' = Count(mine)
      /\ last' = IF Bounds(l, c, nbThreads).last THEN last \cup {c} ELSE last
  BY LoopPlace DEF StaticInv, StaticLoop, euVars, counters, teamVars
<1> HIDE DEF l, mine
<1>2. /\ c \in team /\ nbThreads \in Nat \ {0} /\ team = 0..(nbThreads - 1) /\ team \subseteq Cores
      /\ l \in Loops /\ Normal(l) /\ DOMAIN ran = Space(l)
      /\ \A d \in team : CallsLeft(d) > 0 /\ TeamLoop(d) = l
  BY <1>1, AtLoop DEF l
<1>3. SplitsOnce(l, nbThreads) /\ Space(l) = 0..l.ub
  BY <1>1, <1>2, Shares
<1>4. team' = team /\ \A d : TeamLoop(d)' = TeamLoop(d) /\ Loop(d)' = Loop(d) /\ Share(d)' = Share(d)
  BY <1>1 DEF team, TeamLoop, NextLoop, Through, Loop, Share
<1>5. \A d \in Cores : step'[d] = IF d = c THEN "barrier" ELSE step[d]
  BY <1>1 DEF StaticInv, KmpInv, BodyInv, KmpTypes
<1>6. \A i \in Space(l) : /\ ran'[i] = IF i \in mine THEN ran[i] + 1 ELSE ran[i]
                          /\ ran[i] \in Nat
  BY <1>1, <1>2 DEF Count, StaticInv, KmpInv, BodyInv, KmpTypes
<1>7. SharesRun'
  <2> SUFFICES ASSUME NEW d \in team, NEW i \in Share(d)
               PROVE  ran'[i] = IF step'[d] = "barrier" THEN 1 ELSE 0
    BY <1>4 DEF SharesRun
  <2>1. i \in Space(l) /\ i \in Assigned(l, Bounds(l, d, nbThreads))
    BY <1>2 DEF Share
  <2>2. ran[i] = IF step[d] = "barrier" THEN 1 ELSE 0
    BY <1>1, <1>2 DEF StaticInv, SplitInv, SharesRun
  <2>3. CASE d = c
    BY <1>1, <1>2, <1>5, <1>6, <2>1, <2>2, <2>3 DEF mine
  <2>4. CASE d # c
    <3>1. i \notin mine
      BY <1>2, <1>3, <2>1, <2>4 DEF SplitsOnce, mine
    <3>2. QED
      BY <1>2, <1>5, <1>6, <2>1, <2>2, <2>4, <3>1
  <2>5. QED
    BY <2>3, <2>4
<1>8. last' = {d \in Cores : step'[d] = "barrier" /\ IsTold(d)}
  <2>1. IsTold(c) <=> Bounds(l, c, nbThreads).last
    BY <1>1 DEF IsTold, l
  <2>2. last = {d \in Cores : step[d] = "barrier" /\ IsTold(d)}
    BY DEF StaticInv, SplitInv
  <2>3. QED
    BY <1>1, <1>5, <2>1, <2>2
<1>9. \A d \in Cores : IsTold(d)' <=> IsTold(d)
  BY <1>1, <1>4 DEF IsTold
<1>10. QED
  BY <1>1, <1>7, <1>8, <1>9 DEF StaticInv, SplitInv

LEMMA NextSplit == NormalLoops /\ StaticInv /\ [Next]_vars => StaticInv'
<1> SUFFICES ASSUME NormalLoops, StaticInv, [Next]_vars PROVE StaticInv'
  OBVIOUS
<1>1. KmpInv /\ KmpInv' /\ SplitInv
  BY KmpNext DEF StaticInv
<1>2. ASSUME UNCHANGED vars PROVE SplitInv'
  BY <1>1, <1>2, SameSplit DEF vars, euVars, counters, kmpVars, teamVars, bodyVars
<1>3. ASSUME Next PROVE SplitInv'
  BY <1>1, <1>3, EuKeepsSplit, SerialSplit, StaticLoopSplit, DynamicSplit, BarrierSplit, WrapperSplit
  DEF Next, BodyStep, LoopStep
<1>4. QED
  BY <1>1, <1>2, <1>3 DEF StaticInv

LEMMA SplitAtBarrier ==
  ASSUME NormalLoops, StaticInv PROVE StaticSplit
<1> SUFFICES ASSUME AllArrived, Loop(0).sched # "dynamic"
             PROVE  /\ \A i \in Space(Loop(0)) : ran[i] = 1
                    /\ ~Loop(0).wide \/ Wrap % Bounds(Loop(0), 0, nbThreads).stride = 0 =>
                         last = {c \in Cores : c < nbThreads
                                   /\ Loop(0).ub \in Assigned(Loop(0), Bounds(Loop(0), c, nbThreads))}
  BY DEF StaticSplit
<1> DEFINE l == Loop(0)
<1>1. AtBarrier = team /\ 0 \in team /\ 0 \in Cores
  BY TeamArrived, CoreCount DEF AllArrived, StaticInv
<1>2. \A c \in team : c \in Cores /\ pc[c] = "task" /\ ~Through(c) /\ step[c] = "barrier"
  BY <1>1, LoopPlace DEF AtBarrier, StaticInv
<1>3. /\ nbThreads \in Nat \ {0} /\ team = 0..(nbThreads - 1) /\ team \subseteq Cores
      /\ l \in Loops /\ Normal(l) /\ l.sched # "dynamic"
      /\ \A d \in team : CallsLeft(d) > 0 /\ TeamLoop(d) = l
  BY <1>1, <1>2, AtLoop
<1>4. \A d \in team : Loop(d) = l
  BY <1>1, <1>2, SameLoop DEF StaticInv
<1>5. \A c \in Cores : step[c] = "barrier" => c \in team
  BY InRegion DEF StaticInv, KmpInv, BodyInv, StepsExact
<1> HIDE DEF l
<1>6. /\ SplitsOnce(l, nbThreads) /\ Space(l) = 0..l.ub
      /\ ~l.wide \/ Wrap % Bounds(l, 0, nbThreads).stride = 0 => LastIsTold(l, nbThreads)
  BY <1>3, Shares
<1>7. ASSUME NEW i \in Space(l) PROVE ran[i] = 1
  <2>1. PICK t \in team : i \in Assigned(l, Bounds(l, t, nbThreads))
    BY <1>3, <1>6 DEF SplitsOnce
  <2>2. i \in Share(t)
    BY <1>3, <2>1 DEF Share
  <2>3. QED
    BY <1>2, <1>3, <2>2 DEF StaticInv, SplitInv, SharesRun
<1>8. ASSUME ~l.wide \/ Wrap % Bounds(l, 0, nbThreads).stride = 0
      PROVE  last = {c \in Cores : c < nbThreads /\ l.ub \in Assigned(l, Bounds(l, c, nbThreads))}
  <2>1. last = {c \in Cores : step[c] = "barrier" /\ IsTold(c)}
    BY DEF StaticInv, SplitInv
  <2>2. \A c \in Cores : c \in team <=> c < nbThreads
    BY <1>3, CoreCount
  <2>3. \A c \in team : IsTold(c) <=> l.ub \in Assigned(l, Bounds(l, c, nbThreads))
    BY <1>3, <1>4, <1>6, <1>8 DEF IsTold, LastIsTold
  <2>4. QED
    BY <1>2, <1>5, <2>1, <2>2, <2>3
<1>9. QED
  BY <1>7, <1>8 DEF l

(* A loop with a static schedule, __kmpc_for_static_init_4 or _8u, is      *)
(* split exactly, for any team, number of iterations and chunk: at the     *)
(* barrier after it each iteration was run once, and plastiter was set for *)
(* the core that ran the last one and for no other.  Of the loops this     *)
(* assumes what a compiler that normalises them makes of them.             *)
THEOREM StaticLoopExact ==
  ASSUME NormalLoops PROVE Spec => []StaticSplit
<1>1. Init => StaticInv
  BY KmpInit, InitSplit DEF StaticInv
<1>2. StaticInv /\ [Next]_vars => StaticInv'
  BY NextSplit
<1>3. StaticInv => StaticSplit
  BY SplitAtBarrier
<1>4. QED
  BY <1>1, <1>2, <1>3, PTL DEF Spec
==============================================================================
