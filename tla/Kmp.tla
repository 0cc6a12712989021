--------------------------------- MODULE Kmp ---------------------------------
(***************************************************************************)
(* The OpenMP runtime calls that compiled code makes                       *)
(* (software/snRuntime/src/omp/kmp.c): fork, loops with a static or a      *)
(* dynamic schedule and the barrier after them, run by the teams of the    *)
(* event unit.                                                             *)
(*                                                                         *)
(* A microtask is a sequence of loops, each followed by __kmpc_barrier, as *)
(* the compiler emits it for loops without nowait.  What a loop computes   *)
(* is left out; ran counts how often each of its iterations was executed.  *)
(***************************************************************************)
EXTENDS EventUnit, Sequences, FiniteSetsExt

CONSTANTS
  Microtasks,  \* the outlined regions: sequences of loops
  Argcs,       \* numbers of arguments they are called with
  MaxForks,    \* bound: regions in a session
  Wrap         \* 2^64 in the code: the modulus of kmp_uint64

Loops == [sched : {"static", "chunked", "dynamic"}, wide : BOOLEAN, lb : Int, ub : Int,
          incr : Nat \ {0}, chunk : Nat \ {0}]

ASSUME MicrotasksAssumption == \A task \in Microtasks : task \in Seq(Loops) /\ task # << >>
ASSUME WrapAssumption == Wrap \in Nat \ {0}

(* Loops as a compiler that normalises them passes them to the static      *)
(* schedules: an iteration counter from 0 upwards, called if not empty.    *)
Normal(l) == l.lb = 0 /\ l.incr = 1 /\ l.ub \in Nat
NormalLoops ==
  \A task \in Microtasks : \A k \in 1..Len(task) : task[k].sched # "dynamic" => Normal(task[k])

VARIABLES
  numThreads, nbThreads,  \* of omp_t and of its team
  loop_is_setup, loop_start, loop_end, loop_chunk,  \* of the team
  workers_mutex,          \* the core that holds it, or -1
  microtask, calls,       \* the region's task, and per core the calls of it still to make
  at, step, start,        \* per core: current loop, place in it, loop_start as read
  ran, last,              \* history: executions per iteration, cores told they ran the last
  forks                   \* history: regions so far

loopVars == <<loop_is_setup, loop_start, loop_end, loop_chunk>>
teamVars == <<numThreads, nbThreads, microtask, forks>>
bodyVars == <<calls, at, step, start, ran, last>>
kmpVars == <<teamVars, loopVars, workers_mutex, bodyVars>>
vars == <<euVars, kmpVars>>

Free == -1
NoRuns == [i \in {} |-> 0]

(* The iteration space of a loop. *)
Space(l) == {i \in l.lb..l.ub : (i - l.lb) % l.incr = 0}
Fresh(l) == [i \in Space(l) |-> 0]

(* omp_init.  The loop fields are only read once loop_is_setup is set. *)
Init ==
  /\ EuInit
  /\ numThreads = NumCores /\ nbThreads = NumCores
  /\ loop_is_setup = FALSE /\ loop_start = 0 /\ loop_end = 0 /\ loop_chunk = 1
  /\ workers_mutex = Free
  /\ microtask = << >> /\ forks = 0
  /\ calls = [c \in Cores |-> 0] /\ at = [c \in Cores |-> 1]
  /\ step = [c \in Cores |-> "loop"] /\ start = [c \in Cores |-> 0]
  /\ ran = NoRuns /\ last = {}
------------------------------------------------------------------------------
(* __kmpc_push_num_threads, for a num_threads clause. *)
PushNumThreads(n) ==
  /\ At(0, "serial") /\ forks < MaxForks /\ n # numThreads
  /\ numThreads' = Min({n, NumCores})
  /\ UNCHANGED <<euVars, nbThreads, microtask, forks, loopVars, workers_mutex, bodyVars>>

(* The switch of __microtask_wrapper: the cases 8 to 11 have no break, so  *)
(* the microtask is called again in each case up to 12.                    *)
Calls(argc) == IF argc \in 8..12 THEN 13 - argc ELSE 1

PartialParallelRegion(n) == nbThreads' = n /\ Push(n)

(* __kmpc_fork_call on core 0, for a microtask with at most 12 arguments.  *)
Fork(task, argc) ==
  /\ forks < MaxForks
  /\ PartialParallelRegion(numThreads)
  /\ microtask' = task
  /\ calls' = [c \in Cores |-> Calls(argc)]
  /\ at' = [c \in Cores |-> 1]
  /\ ran' = Fresh(task[1])
  /\ forks' = forks + 1
  /\ UNCHANGED <<numThreads, loopVars, workers_mutex, step, start, last>>

(* __snrt_omp_destroy *)
Destroy == SetExit /\ UNCHANGED kmpVars
------------------------------------------------------------------------------
InLoop(c, label) == At(c, "task") /\ at[c] <= Len(microtask) /\ step[c] = label
Loop(c) == microtask[at[c]]

(* What the static schedules hand thread t of n: its first chunk, the      *)
(* stride to its next one, and whether it runs the last iteration.         *)
(* Mutant of StaticBounds: the threads beyond the leftover start too early. *)
StaticNoLeftOver(l, t, n) ==
  LET loopSize == (l.ub - l.lb) \div l.incr + 1
      chunk == loopSize \div n
      mine == IF t < loopSize % n THEN chunk + 1 ELSE chunk
      lower == l.lb + t * mine * l.incr
      upper == lower + mine * l.incr - l.incr
  IN [lower |-> lower, upper |-> upper, stride |-> loopSize,
      last |-> upper = l.ub /\ lower <= l.ub]

StaticBounds(l, t, n) ==
  LET loopSize == (l.ub - l.lb) \div l.incr + 1
      chunk == loopSize \div n
      leftOver == loopSize - chunk * n
      mine == IF t < leftOver THEN chunk + 1 ELSE chunk
      lower == l.lb + t * mine * l.incr + (IF t < leftOver THEN 0 ELSE leftOver)
      upper == lower + mine * l.incr - l.incr
  IN [lower |-> lower, upper |-> upper, stride |-> loopSize,
      last |-> upper = l.ub /\ lower <= l.ub]

(* The distance from the thread's first chunk to the last chunk, ... *)
Ahead(l, t) ==
  LET span == l.incr * l.chunk IN l.ub - (l.ub % span) - (l.lb + span * t)

(* ... and what the code's arithmetic makes of it. *)
ChunkedBounds(l, t, n, ahead) ==
  LET span == l.incr * l.chunk
      lower == l.lb + span * t
  IN [lower |-> lower, upper |-> lower + span - l.incr, stride |-> span * n,
      last |-> ahead % (span * n) = 0]

Abs(x) == IF x < 0 THEN -x ELSE x  \* a C remainder is 0 whatever its sign
Unsigned(x) == x % Wrap            \* in 8u the distance is unsigned

StaticInit4(l, t, n) ==
  IF l.sched = "chunked" THEN ChunkedBounds(l, t, n, Abs(Ahead(l, t)))
  ELSE StaticBounds(l, t, n)

StaticInit8u(l, t, n) ==
  IF l.sched = "chunked" THEN ChunkedBounds(l, t, n, Unsigned(Ahead(l, t)))
  ELSE StaticBounds(l, t, n)

Bounds(l, t, n) == IF l.wide THEN StaticInit8u(l, t, n) ELSE StaticInit4(l, t, n)

(* The loop that the compiler puts around the bounds: it clips a chunk to  *)
(* the loop's end, and moves on by the stride if chunks were asked for.    *)
Assigned(l, b) ==
  {i \in b.lower..l.ub :
     LET k == i - b.lower
         off == IF l.sched = "chunked" THEN k % b.stride ELSE k
     IN off <= b.upper - b.lower /\ off % l.incr = 0}

Count(iterations) == [i \in DOMAIN ran |-> IF i \in iterations THEN ran[i] + 1 ELSE ran[i]]

StaticLoop(c) ==
  /\ InLoop(c, "loop") /\ Loop(c).sched # "dynamic"
  /\ LET b == Bounds(Loop(c), c, nbThreads) IN
        /\ ran' = Count(Assigned(Loop(c), b))
        /\ last' = IF b.last THEN last \cup {c} ELSE last
  /\ step' = [step EXCEPT ![c] = "barrier"]
  /\ UNCHANGED <<euVars, teamVars, loopVars, workers_mutex, calls, at, start>>

(* eu_mutex_lock *)
Lock(c, from, to) ==
  /\ InLoop(c, from) /\ Loop(c).sched = "dynamic"
  /\ workers_mutex = Free
  /\ workers_mutex' = c
  /\ step' = [step EXCEPT ![c] = to]
  /\ UNCHANGED <<euVars, teamVars, loopVars, calls, at, ran, last>>

Unlock(c, to) ==
  /\ workers_mutex' = Free
  /\ step' = [step EXCEPT ![c] = to]
  /\ UNCHANGED <<euVars, teamVars, calls, at, start, last>>

(* __kmpc_dispatch_init_4: the first core sets the loop up. *)
DispatchLock(c) == Lock(c, "loop", "init") /\ UNCHANGED start

DispatchInit(c) ==
  /\ InLoop(c, "init")
  /\ IF loop_is_setup
     THEN UNCHANGED loopVars
     ELSE /\ loop_is_setup' = TRUE
          /\ loop_start' = Loop(c).lb /\ loop_end' = Loop(c).ub
          /\ loop_chunk' = Loop(c).chunk
  /\ Unlock(c, "next")
  /\ UNCHANGED ran

(* Mutant of NextLock: loop_start is read without the mutex. *)
NextNoLock(c) ==
  /\ InLoop(c, "next")
  /\ start' = [start EXCEPT ![c] = loop_start]
  /\ step' = [step EXCEPT ![c] = "take"]
  /\ UNCHANGED <<euVars, teamVars, loopVars, workers_mutex, calls, at, ran, last>>

(* __kmpc_dispatch_next_4: read loop_start ... *)
NextLock(c) ==
  /\ Lock(c, "next", "take")
  /\ start' = [start EXCEPT ![c] = loop_start]

(* Mutant of NextTake: the loop stays set up. *)
NextStaysSetUp(c) ==
  /\ InLoop(c, "take")
  /\ IF start[c] > loop_end
     THEN UNCHANGED <<loopVars, ran>> /\ Unlock(c, "barrier")
     ELSE /\ loop_start' = start[c] + loop_chunk
          /\ ran' = Count(start[c]..Min({start[c] + loop_chunk - 1, loop_end}))
          /\ Unlock(c, "next")
          /\ UNCHANGED <<loop_is_setup, loop_end, loop_chunk>>

(* ... and take a chunk, which the thread then runs, or tear the loop down. *)
NextTake(c) ==
  /\ InLoop(c, "take")
  /\ IF start[c] > loop_end
     THEN /\ loop_is_setup' = FALSE
          /\ Unlock(c, "barrier")
          /\ UNCHANGED <<loop_start, loop_end, loop_chunk, ran>>
     ELSE /\ loop_start' = start[c] + loop_chunk
          /\ ran' = Count(start[c]..Min({start[c] + loop_chunk - 1, loop_end}))
          /\ Unlock(c, "next")
          /\ UNCHANGED <<loop_is_setup, loop_end, loop_chunk>>

(* __kmpc_barrier: snrt_barrier for numThreads harts (module SwBarrier,    *)
(* seen as the Barrier that it implements).                                *)
AtBarrier == {c \in Cores : InLoop(c, "barrier")}

Barrier ==
  /\ Cardinality(AtBarrier) = numThreads
  /\ at' = [c \in Cores |-> IF c \in AtBarrier THEN at[c] + 1 ELSE at[c]]
  /\ step' = [c \in Cores |-> IF c \in AtBarrier THEN "loop" ELSE step[c]]
  /\ ran' = IF at[0] < Len(microtask) THEN Fresh(microtask[at[0] + 1])
            ELSE IF calls[0] > 1 THEN Fresh(microtask[1]) ELSE NoRuns
  /\ last' = {}
  /\ UNCHANGED <<euVars, teamVars, loopVars, workers_mutex, calls, start>>

MicrotaskDone(c) == At(c, "task") /\ at[c] > Len(microtask)

(* __microtask_wrapper falls through to the next case ... *)
FallThrough(c) ==
  /\ MicrotaskDone(c) /\ calls[c] > 1
  /\ calls' = [calls EXCEPT ![c] = @ - 1]
  /\ at' = [at EXCEPT ![c] = 1]
  /\ UNCHANGED <<euVars, teamVars, loopVars, workers_mutex, step, start, ran, last>>

(* ... or returns. *)
WrapperReturns(c) ==
  /\ MicrotaskDone(c) /\ calls[c] = 1
  /\ Return(c)
  /\ UNCHANGED kmpVars

LoopStep(c) ==
  \/ StaticLoop(c) \/ DispatchLock(c) \/ DispatchInit(c) \/ NextLock(c) \/ NextTake(c)

BodyStep(c) == LoopStep(c) \/ FallThrough(c) \/ WrapperReturns(c)

SerialStep ==
  \/ \E n \in 1..(NumCores + 1) : PushNumThreads(n)
  \/ \E task \in Microtasks, argc \in Argcs : Fork(task, argc)
  \/ Destroy

Next ==
  \/ EuStep /\ UNCHANGED kmpVars
  \/ SerialStep
  \/ \E c \in Cores : BodyStep(c)
  \/ Barrier

Spec == Init /\ [][Next]_vars

(* The cores run; the test-and-set mutex is passed on in time; serial      *)
(* parts of the program end.                                               *)
Fairness ==
  /\ WF_vars((Setup \/ HwBarrier \/ Boot \/ MasterStep \/ Call(0) \/ Finish) /\ UNCHANGED kmpVars)
  /\ WF_vars(Destroy \/ \E task \in Microtasks, argc \in Argcs : Fork(task, argc))
  /\ \A c \in Workers : WF_vars((AwaitSetup(c) \/ WorkerStep(c) \/ Call(c)) /\ UNCHANGED kmpVars)
  /\ \A c \in Cores : WF_vars(StaticLoop(c) \/ DispatchInit(c) \/ NextTake(c)
                             \/ FallThrough(c) \/ WrapperReturns(c))
  /\ \A c \in Cores : SF_vars(DispatchLock(c)) /\ SF_vars(NextLock(c))
  /\ WF_vars(Barrier)

FairSpec == Spec /\ Fairness
------------------------------------------------------------------------------
(* Types, and the mutex is held by the core that is in a critical section. *)
TypeOK ==
  /\ EuTypeOK
  /\ numThreads \in 1..NumCores /\ nbThreads \in 1..NumCores
  /\ loop_is_setup \in BOOLEAN
  /\ workers_mutex \in Cores \cup {Free}
  /\ \A c \in Cores : InLoop(c, "init") \/ InLoop(c, "take") <=> workers_mutex = c

AllArrived == AtBarrier # {} /\ Cardinality(AtBarrier) = numThreads

(* A loop with a static schedule is split exactly: when the team meets at  *)
(* the barrier after it, each iteration was run once, and of the cores     *)
(* just the one that ran the last iteration was told so (plastiter).  In   *)
(* the 64-bit version the latter takes a stride that divides 2^64.         *)
StaticSplit ==
  AllArrived /\ Loop(0).sched # "dynamic" =>
    /\ \A i \in Space(Loop(0)) : ran[i] = 1
    /\ ~Loop(0).wide \/ Wrap % Bounds(Loop(0), 0, nbThreads).stride = 0 =>
       last = {c \in Cores : c < nbThreads
                 /\ Loop(0).ub \in Assigned(Loop(0), Bounds(Loop(0), c, nbThreads))}

(* No iteration of a loop with a dynamic schedule is skipped, however late *)
(* a core comes to it and however the loop before it ended; and the loop   *)
(* is torn down before the next one begins.                                *)
NoIterationSkipped ==
  AllArrived /\ Loop(0).sched = "dynamic" =>
    /\ ~loop_is_setup
    /\ \A i \in Space(Loop(0)) : ran[i] > 0

(* "one if there is work to be done, zero otherwise": no iteration is      *)
(* handed out again once it was handed out.                                *)
WorkHandedOutOnce == \A i \in DOMAIN ran : ran[i] <= 1

(* Every region is joined and the session ends: no core is left asleep,    *)
(* at a barrier or spinning for the others.                                *)
SessionEnds == <>(\A c \in Cores : At(c, "finished"))
==============================================================================
