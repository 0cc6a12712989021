------------------------------ MODULE DataMover ------------------------------
(***************************************************************************)
(* The data mover (software/snRuntime/src/dm.c): cores queue transfers,    *)
(* the DM core hands them to the DMA engine, and requests go to it through *)
(* stat_q and come back through stat_pvalid.  The DM core sleeps when      *)
(* there is nothing to do and is woken by the cluster-local interrupt      *)
(* (DM_USE_GLOBAL_CLINT not defined, global interrupts disabled, as the    *)
(* runtime leaves them).                                                   *)
(*                                                                         *)
(* Every access to a shared word is an action.  A transfer is a model of   *)
(* its identity and of its kind; addresses, sizes and strides are left     *)
(* out.  A client runs a program: a sequence of calls of dm.h and of the   *)
(* allocator's.  The DM core runs a program of its own, with the calls of  *)
(* dma.c, and then dm_init, which allocates while the other cores start,   *)
(* and dm_main.                                                            *)
(***************************************************************************)
EXTENDS Integers, FiniteSets, Allocator, Dma

CONSTANTS
  Clients,
  Programs,            \* functions from Clients to sequences of calls
  OwnPrograms,         \* sequences of the DM core's own calls
  DM_TASK_QUEUE_SIZE,
  MaxJobs,             \* bound: the transfers of a client
  DmSize, AllocSize    \* sizeof(dm_t); what a client allocates

Size == DM_TASK_QUEUE_SIZE
Copies == {"memcpy", "memcpy2d"}
Calls == Copies \cup {"start", "wait", "ready", "exit", "l1alloc", "l3alloc"}
OwnCalls == { <<"1d">>, <<"2d">>, <<"wait_all">> } \cup ({"wait"} \X (Nat \ {0}))
None == "none"

(* The transfers that an own program p starts before its i-th call. *)
StartsBefore(p, i) == Cardinality({m \in 1..(i - 1) : p[m][1] \in {"1d", "2d"}})

ASSUME SizeAssumption ==
  /\ DM_TASK_QUEUE_SIZE \in Nat \ {0}
  /\ DmSize \in Nat /\ AllocSize \in Nat /\ MaxJobs \in Nat

ASSUME ProgramsAssumption ==
  /\ IsFiniteSet(Clients) /\ None \notin Clients /\ "dm" \notin Clients
  /\ \A p \in Programs : p \in [Clients -> Seq(Calls)] /\ \A c \in Clients : Len(p[c]) <= MaxJobs

(* The DM core waits for a transfer that it has started, and less than     *)
(* half the identifiers ago, which is as far as a signed difference tells. *)
ASSUME OwnAssumption ==
  \A p \in OwnPrograms :
    /\ p \in Seq(OwnCalls)
    /\ \A i \in 1..Len(p) : p[i][1] = "wait" =>
         /\ p[i][2] <= StartsBefore(p, i)
         /\ StartsBefore(p, i) - p[i][2] + 1 < IdWrap \div 2

(* The allocator takes no lock: one core allocates in each memory once the *)
(* data mover is set up.                                                   *)
ASSUME AllocAssumption ==
  \A p \in Programs : \A call \in {"l1alloc", "l3alloc"} : \A c, d \in Clients :
    (\E i \in DOMAIN p[c] : p[c][i] = call) /\ (\E i \in DOMAIN p[d] : p[d][i] = call) => c = d

VARIABLES
  dm_p_global,                             \* published
  queue, queue_back, queue_front, queue_fill,
  mutex,                                   \* the client that holds it, or None
  stat_q, stat_pvalid,
  dm_wfi, cl_clint,                        \* asleep; the DM core's interrupt is pending
  do_exit, dmpc,                           \* of the DM core
  program, pc,                             \* per client: calls left, place in the first
  own, txids,                              \* of the DM core: own calls left, own transfers' ids
  loaded,                                  \* per core: the allocator's next as it was read
  queued, started                          \* history: jobs per client, jobs in start order

queueVars == <<queue, queue_back, queue_front, queue_fill>>
statVars == <<stat_q, stat_pvalid>>
sleepVars == <<dm_wfi, cl_clint>>
engineVars == <<dmaVars, started>>
ownVars == <<own, txids>>
dmVars == <<do_exit, dmpc>>
clientVars == <<program, pc>>
allocVars == <<l1Vars, l3Vars, loaded>>
vars == <<dm_p_global, queueVars, mutex, statVars, sleepVars, dmVars, clientVars, engineVars, ownVars, queued, allocVars>>

Call(c) == Head(program[c])
First(calls) ==
  IF calls = << >> THEN "done"
  ELSE CASE Head(calls) \in Copies -> "poll"
         [] Head(calls) \in {"start", "wait"} -> "wake"
         [] Head(calls) = "ready" -> "lock"
         [] Head(calls) = "exit" -> "ask"
         [] Head(calls) \in {"l1alloc", "l3alloc"} -> "load"

Init ==
  /\ dm_p_global = FALSE
  /\ queue = [i \in 0..(Size - 1) |-> << >>]
  /\ queue_back = 0 /\ queue_front = 0 /\ queue_fill = 0
  /\ mutex = None
  /\ stat_q = None /\ stat_pvalid = FALSE
  /\ dm_wfi = 0 /\ cl_clint = FALSE
  /\ do_exit = FALSE /\ dmpc = "own"
  /\ program \in Programs
  /\ pc = [c \in Clients |-> "init"]
  /\ DmaInit /\ started = << >>
  /\ own \in OwnPrograms /\ txids = << >>
  /\ queued = [c \in Clients |-> 0]
  /\ AllocInit /\ loaded = [c \in Clients \cup {"dm"} |-> 0]

Goto(c, label) == pc' = [pc EXCEPT ![c] = label] /\ UNCHANGED program

(* The current call returns. *)
Return(c) ==
  /\ program' = [program EXCEPT ![c] = Tail(@)]
  /\ pc' = [pc EXCEPT ![c] = First(Tail(program[c]))]

(* The DM core's own transfers. *)
OwnCall(name) == dmpc = "own" /\ own # << >> /\ Head(own)[1] = name /\ own' = Tail(own)
OwnRest == UNCHANGED <<dm_p_global, queueVars, mutex, statVars, sleepVars, dmVars, clientVars,
                       started, queued, allocVars>>

OwnStart(name) ==
  /\ OwnCall(name)
  /\ txids' = Append(txids, next_id)
  /\ OwnRest

OwnStart1d == OwnStart("1d") /\ snrt_dma_start_1d("dm", Len(txids) + 1)
OwnStart2d == OwnStart("2d") /\ snrt_dma_start_2d("dm", Len(txids) + 1)

OwnWait ==
  /\ OwnCall("wait") /\ snrt_dma_wait(txids[Head(own)[2]])
  /\ UNCHANGED <<txids, dmaVars>> /\ OwnRest

OwnWaitAll ==
  /\ OwnCall("wait_all") /\ snrt_dma_wait_all
  /\ UNCHANGED <<txids, dmaVars>> /\ OwnRest

OwnStep == OwnStart1d \/ OwnStart2d \/ OwnWait \/ OwnWaitAll

(* dm_init: the DM core allocates and publishes the structure, the others wait. *)
DmLoad ==
  /\ dmpc = "own" /\ own = << >> /\ dmpc' = "alloc"
  /\ loaded' = [loaded EXCEPT !["dm"] = next]
  /\ UNCHANGED <<dm_p_global, queueVars, mutex, statVars, sleepVars, do_exit, clientVars,
                 engineVars, queued, l1Vars, l3Vars>>

DmAlloc ==
  /\ dmpc = "alloc" /\ dmpc' = "publish"
  /\ L1Alloc(loaded["dm"], DmSize)
  /\ UNCHANGED <<dm_p_global, queueVars, mutex, statVars, sleepVars, do_exit, clientVars,
                 engineVars, queued, loaded>>

DmPublish ==
  /\ dmpc = "publish" /\ dmpc' = "loop"
  /\ dm_p_global' = TRUE
  /\ UNCHANGED <<queueVars, mutex, statVars, sleepVars, do_exit, clientVars, engineVars, queued, allocVars>>

(* Mutant of ClientInit: go on at once. *)
ClientNoWait(c) ==
  /\ pc[c] = "init"
  /\ Goto(c, First(program[c]))
  /\ UNCHANGED <<dm_p_global, queueVars, mutex, statVars, sleepVars, dmVars, engineVars, queued, allocVars>>

ClientInit(c) ==
  /\ pc[c] = "init" /\ dm_p_global
  /\ Goto(c, First(program[c]))
  /\ UNCHANGED <<dm_p_global, queueVars, mutex, statVars, sleepVars, dmVars, engineVars, queued, allocVars>>

(* snrt_l1alloc and snrt_l3alloc *)
AllocLoad(c) ==
  /\ pc[c] = "load"
  /\ loaded' = [loaded EXCEPT ![c] = IF Call(c) = "l1alloc" THEN next ELSE l3next]
  /\ Goto(c, "alloc")
  /\ UNCHANGED <<dm_p_global, queueVars, mutex, statVars, sleepVars, dmVars, engineVars, queued,
                 l1Vars, l3Vars>>

AllocStore(c) ==
  /\ pc[c] = "alloc"
  /\ IF Call(c) = "l1alloc" THEN L1Alloc(loaded[c], AllocSize) ELSE L3Alloc(loaded[c], AllocSize)
  /\ Return(c)
  /\ UNCHANGED <<dm_p_global, queueVars, mutex, statVars, sleepVars, dmVars, engineVars, queued, loaded>>
------------------------------------------------------------------------------
(* dm_memcpy_async and dm_memcpy2d_async: poll the fill level ... *)
(* Mutant of Poll: off by one. *)
PollOffByOne(c) ==
  /\ pc[c] = "poll" /\ queue_fill <= Size
  /\ Goto(c, "lock")
  /\ UNCHANGED <<dm_p_global, queueVars, mutex, statVars, sleepVars, dmVars, engineVars, queued, allocVars>>

Poll(c) ==
  /\ pc[c] = "poll" /\ queue_fill < Size
  /\ Goto(c, "lock")
  /\ UNCHANGED <<dm_p_global, queueVars, mutex, statVars, sleepVars, dmVars, engineVars, queued, allocVars>>

(* ... _dm_mtx_lock, also of dm_wait and dm_wait_ready ... *)
Lock(c) ==
  /\ pc[c] = "lock" /\ mutex = None
  /\ mutex' = c
  /\ Goto(c, IF Call(c) \in Copies THEN "insert" ELSE "clear")
  /\ UNCHANGED <<dm_p_global, queueVars, statVars, sleepVars, dmVars, engineVars, queued, allocVars>>

(* ... insert: the fields of the entry at the front ... *)
Insert(c, twod) ==
  /\ pc[c] = "insert"
  /\ queue' = [queue EXCEPT ![queue_front] = <<c, queued[c] + 1, twod>>]
  /\ Goto(c, "fill")
  /\ UNCHANGED <<dm_p_global, queue_back, queue_front, queue_fill, mutex, statVars, sleepVars,
                 dmVars, engineVars, queued, allocVars>>

InsertOned(c) == pc[c] = "insert" /\ Call(c) = "memcpy" /\ Insert(c, FALSE)
InsertTwod(c) == pc[c] = "insert" /\ Call(c) = "memcpy2d" /\ Insert(c, TRUE)

(* ... bump: first the fill level, which hands the entry to the DM core ... *)
BumpFill(c) ==
  /\ pc[c] = "fill"
  /\ queue_fill' = queue_fill + 1
  /\ queued' = [queued EXCEPT ![c] = @ + 1]
  /\ Goto(c, "front")
  /\ UNCHANGED <<dm_p_global, queue, queue_back, queue_front, mutex, statVars, sleepVars,
                 dmVars, engineVars, allocVars>>

BumpFront(c) ==
  /\ pc[c] = "front"
  /\ queue_front' = (queue_front + 1) % Size
  /\ Goto(c, "release")
  /\ UNCHANGED <<dm_p_global, queue, queue_back, queue_fill, mutex, statVars, sleepVars,
                 dmVars, engineVars, queued, allocVars>>

Release(c) ==
  /\ pc[c] = "release"
  /\ mutex' = None
  /\ Return(c)
  /\ UNCHANGED <<dm_p_global, queueVars, statVars, sleepVars, dmVars, engineVars, queued, allocVars>>
------------------------------------------------------------------------------
(* wake_dm: wait for the DM core to sleep, then send the interrupt.  The   *)
(* first wake-up of dm_start and dm_wait, the second one after a request.  *)
AwaitWfi(c) ==
  /\ pc[c] \in {"wake", "wake2"} /\ dm_wfi # 0
  /\ Goto(c, IF pc[c] = "wake" THEN "set" ELSE "set2")
  /\ UNCHANGED <<dm_p_global, queueVars, mutex, statVars, sleepVars, dmVars, engineVars, queued, allocVars>>

SetIrq(c) ==
  /\ pc[c] \in {"set", "set2"}
  /\ cl_clint' = TRUE
  /\ CASE Call(c) \in {"start", "exit"} -> Return(c)
       [] Call(c) \in {"wait", "ready"} -> Goto(c, IF pc[c] = "set" THEN "drain" ELSE "answer")
  /\ UNCHANGED <<dm_p_global, queueVars, mutex, statVars, dm_wfi, dmVars, engineVars, queued, allocVars>>

(* dm_wait: the queue is to be empty ... *)
(* Mutant of Drain: do not wait for the queue. *)
NoDrain(c) ==
  /\ pc[c] = "drain"
  /\ Goto(c, "quiet")
  /\ UNCHANGED <<dm_p_global, queueVars, mutex, statVars, sleepVars, dmVars, engineVars, queued, allocVars>>

Drain(c) ==
  /\ pc[c] = "drain" /\ queue_fill = 0
  /\ Goto(c, "quiet")
  /\ UNCHANGED <<dm_p_global, queueVars, mutex, statVars, sleepVars, dmVars, engineVars, queued, allocVars>>

(* ... and no request pending ... *)
Quiet(c) ==
  /\ pc[c] = "quiet" /\ stat_q = None
  /\ Goto(c, "lock")
  /\ UNCHANGED <<dm_p_global, queueVars, mutex, statVars, sleepVars, dmVars, engineVars, queued, allocVars>>

(* ... before the request, as in dm_wait_ready ... *)
ClearValid(c) ==
  /\ pc[c] = "clear"
  /\ stat_pvalid' = FALSE
  /\ Goto(c, "ask")
  /\ UNCHANGED <<dm_p_global, queueVars, mutex, stat_q, sleepVars, dmVars, engineVars, queued, allocVars>>

(* ... and, with no mutex, in dm_exit ... *)
Ask(c) ==
  /\ pc[c] = "ask"
  /\ stat_q' = Call(c)
  /\ Goto(c, "wake2")
  /\ UNCHANGED <<dm_p_global, queueVars, mutex, stat_pvalid, sleepVars, dmVars, engineVars, queued, allocVars>>

(* ... and wait for the answer. *)
Answer(c) ==
  /\ pc[c] = "answer" /\ stat_pvalid
  /\ Goto(c, "release")
  /\ UNCHANGED <<dm_p_global, queueVars, mutex, statVars, sleepVars, dmVars, engineVars, queued, allocVars>>

ClientStep(c) ==
  \/ ClientInit(c) \/ Poll(c) \/ InsertOned(c) \/ InsertTwod(c) \/ BumpFill(c) \/ BumpFront(c)
  \/ Release(c) \/ AwaitWfi(c) \/ SetIrq(c) \/ Drain(c) \/ Quiet(c) \/ ClearValid(c)
  \/ Ask(c) \/ Answer(c) \/ AllocLoad(c) \/ AllocStore(c)
------------------------------------------------------------------------------
(* dm_main. *)
DmGoto(from, to) == dmpc = from /\ dmpc' = to
EndOfLoop == IF do_exit THEN "ended" ELSE "loop"

CheckFill ==
  /\ DmGoto("loop", IF queue_fill # 0 THEN "issue" ELSE "stat")
  /\ UNCHANGED <<dm_p_global, queueVars, mutex, statVars, sleepVars, do_exit, clientVars, engineVars, queued, allocVars>>

(* Once the engine does not block it takes the entry at the back. *)
Issue ==
  /\ DmGoto("issue", "back")
  /\ Dmcpy(queue[queue_back])
  /\ started' = Append(started, queue[queue_back])
  /\ UNCHANGED <<dm_p_global, queueVars, mutex, statVars, sleepVars, do_exit, clientVars, queued, allocVars>>

BumpBack ==
  /\ DmGoto("back", "unfill")
  /\ queue_back' = (queue_back + 1) % Size
  /\ UNCHANGED <<dm_p_global, queue, queue_front, queue_fill, mutex, statVars, sleepVars,
                 do_exit, clientVars, engineVars, queued, allocVars>>

DropFill ==
  /\ DmGoto("unfill", "stat")
  /\ queue_fill' = queue_fill - 1
  /\ UNCHANGED <<dm_p_global, queue, queue_back, queue_front, mutex, statVars, sleepVars,
                 do_exit, clientVars, engineVars, queued, allocVars>>

CheckStat ==
  /\ DmGoto("stat", IF stat_q = None THEN "empty" ELSE "switch")
  /\ UNCHANGED <<dm_p_global, queueVars, mutex, statVars, sleepVars, do_exit, clientVars, engineVars, queued, allocVars>>

(* stat_q is volatile: the switch reads it again. *)
Switch ==
  /\ DmGoto("switch", IF stat_q = "ready" \/ (stat_q = "wait" /\ snrt_dma_wait_all)
                      THEN "valid" ELSE "empty")
  /\ do_exit' = (do_exit \/ stat_q = "exit")
  /\ UNCHANGED <<dm_p_global, queueVars, mutex, statVars, sleepVars, clientVars, engineVars, queued, allocVars>>

SetValid ==
  /\ DmGoto("valid", "clear")
  /\ stat_pvalid' = TRUE
  /\ UNCHANGED <<dm_p_global, queueVars, mutex, stat_q, sleepVars, do_exit, clientVars, engineVars, queued, allocVars>>

(* Mutant of ClearRequest: the request stays. *)
KeepRequest ==
  /\ DmGoto("clear", "empty")
  /\ UNCHANGED <<dm_p_global, queueVars, mutex, statVars, sleepVars, do_exit, clientVars, engineVars, queued, allocVars>>

ClearRequest ==
  /\ DmGoto("clear", "empty")
  /\ stat_q' = None
  /\ UNCHANGED <<dm_p_global, queueVars, mutex, stat_pvalid, sleepVars, do_exit, clientVars, engineVars, queued, allocVars>>

(* Sleep if the queue is empty and no request is pending. *)
CheckEmpty ==
  /\ DmGoto("empty", IF queue_fill = 0 THEN "quiet" ELSE EndOfLoop)
  /\ UNCHANGED <<dm_p_global, queueVars, mutex, statVars, sleepVars, do_exit, clientVars, engineVars, queued, allocVars>>

CheckQuiet ==
  /\ DmGoto("quiet", IF stat_q = None THEN "doze" ELSE EndOfLoop)
  /\ UNCHANGED <<dm_p_global, queueVars, mutex, statVars, sleepVars, do_exit, clientVars, engineVars, queued, allocVars>>

(* wfi_dm *)
Doze ==
  /\ DmGoto("doze", "wfi")
  /\ dm_wfi' = dm_wfi + 1
  /\ UNCHANGED <<dm_p_global, queueVars, mutex, statVars, cl_clint, do_exit, clientVars, engineVars, queued, allocVars>>

Wfi ==
  /\ cl_clint
  /\ DmGoto("wfi", "ack")
  /\ UNCHANGED <<dm_p_global, queueVars, mutex, statVars, sleepVars, do_exit, clientVars, engineVars, queued, allocVars>>

ClearIrq ==
  /\ DmGoto("ack", "awake")
  /\ cl_clint' = FALSE
  /\ UNCHANGED <<dm_p_global, queueVars, mutex, statVars, dm_wfi, do_exit, clientVars, engineVars, queued, allocVars>>

Awake ==
  /\ DmGoto("awake", EndOfLoop)
  /\ dm_wfi' = dm_wfi - 1
  /\ UNCHANGED <<dm_p_global, queueVars, mutex, statVars, cl_clint, do_exit, clientVars, engineVars, queued, allocVars>>

DmStep ==
  \/ DmLoad \/ DmAlloc \/ DmPublish \/ CheckFill \/ Issue \/ BumpBack \/ DropFill \/ CheckStat \/ Switch \/ SetValid
  \/ ClearRequest \/ CheckEmpty \/ CheckQuiet \/ Doze \/ Wfi \/ ClearIrq \/ Awake

Engine ==
  /\ Transferred
  /\ UNCHANGED <<dm_p_global, queueVars, mutex, statVars, sleepVars, dmVars, clientVars, started, queued, allocVars>>

DaemonStep == DmStep \/ Engine \/ \E c \in Clients : ClientStep(c) \/ Lock(c)

Next ==
  \/ DaemonStep /\ UNCHANGED ownVars
  \/ OwnStep

Spec == Init /\ [][Next]_vars

(* Every core runs, the engine ends its transfers, and the test-and-set    *)
(* mutex is passed on in time.                                             *)
Fairness ==
  /\ \A c \in Clients : WF_vars(ClientStep(c) /\ UNCHANGED ownVars)
                     /\ SF_vars(Lock(c) /\ UNCHANGED ownVars)
  /\ WF_vars((DmStep /\ UNCHANGED ownVars) \/ OwnStep)
  /\ WF_vars(Engine /\ UNCHANGED ownVars)

FairSpec == Spec /\ Fairness
------------------------------------------------------------------------------
(* A job is known by its client and number, and by its kind. *)
Jobs == Clients \X (1..MaxJobs) \X BOOLEAN

(* Types; the mutex is held from Lock to Release, and the DM core's count  *)
(* of sleepers is 1 while it sleeps.  The fill level is polled before the  *)
(* mutex is taken, so every other core can have found the last entry free  *)
(* too: it exceeds the size by their number, and by no more.               *)
TypeOK ==
  /\ queue_back \in 0..(Size - 1) /\ queue_front \in 0..(Size - 1)
  /\ queue_fill \in 0..(Size + Cardinality(Clients) - 1)
  /\ stat_q \in {None, "wait", "ready", "exit"} /\ stat_pvalid \in BOOLEAN
  /\ dm_wfi = IF dmpc \in {"wfi", "ack", "awake"} THEN 1 ELSE 0
  /\ \A c \in Clients :
       pc[c] \in {"insert", "fill", "front", "clear", "answer", "release"} => mutex = c

(* The jobs that wait: queue_fill entries from queue_back on, without the  *)
(* one that the DM core has handed on and not yet removed.                 *)
Waiting ==
  LET back == IF dmpc = "back" THEN queue_back + 1 ELSE queue_back
      fill == IF dmpc \in {"back", "unfill"} THEN queue_fill - 1 ELSE queue_fill
  IN [i \in 1..fill |-> queue[(back + i - 1) % Size]]

(* A client is about to queue: it has polled and has not raised the level. *)
AboutToQueue(c) == pc[c] \in {"insert", "fill"} \/ (pc[c] = "lock" /\ Call(c) \in Copies)

JQ == INSTANCE JobQueue WITH
        jobs <- Waiting, claims <- {c \in Clients : AboutToQueue(c)},
        writing <- IF \E c \in Clients : pc[c] = "fill" THEN queue[queue_front] ELSE << >>,
        started <- started, Cores <- Clients, Jobs <- Jobs, Size <- Size

(* However the clients' polls and bumps and the DM core's bumps fall       *)
(* together, every job that is queued is started once and in order, unless *)
(* more cores have polled at once than there were entries free: then, and  *)
(* only then, a job is overwritten, by the one Size places behind it.      *)
ImplementsJobQueue == JQ!Spec

Items(s) == {s[i] : i \in 1..Len(s)}

JobsOf(c) == {j \in complete : j[1] = c}

(* "Wait for all DMA transfers to complete": dm_wait returns only when no  *)
(* transfer of its caller is in the queue or under way, and all of them    *)
(* that were started are complete, although the queue is polled before,    *)
(* and without, the request to the DM core, and whatever requests of other *)
(* cores come in between.                                                  *)
WaitCompletes ==
  \A c \in Clients : pc[c] = "release" /\ Call(c) = "wait" =>
    /\ \A j \in Items(Waiting) \cup Items(inflight) : j[1] # c
    /\ \A j \in Items(started) : j[1] = c => j \in complete

(* "Block until a transfer finishes": snrt_dma_wait returns only when the  *)
(* transfer of that identifier is complete, although identifiers wrap; and *)
(* snrt_dma_wait_all only when all are.                                    *)
DmaWaitCovers ==
  [][/\ OwnWait => \E j \in complete : j[1] = "dm" /\ j[2] = Head(own)[2]
     /\ OwnWaitAll => Cardinality(JobsOf("dm")) = Len(txids)]_vars

(* A client has made a request that will not be answered: the DM core is   *)
(* about to clear stat_q for the request before, which it has answered, or *)
(* dm_exit has written over it.                                            *)
RequestLost ==
  \E c \in Clients : /\ pc[c] \in {"wake2", "set2", "answer"} /\ Call(c) \in {"wait", "ready"}
                     /\ ~stat_pvalid /\ (dmpc = "clear" \/ stat_q = "exit")

(* Whatever calls cores make at once, every call returns but for two that  *)
(* the code lets hang: one whose request comes between the answer to       *)
(* another core's and the clearing of that one, and a dm_exit that the DM  *)
(* core has obeyed without another sleep.  Else no wake-up is missed, an   *)
(* answer reaches the core that waits for it, and no wait for a transfer   *)
(* misses its end.                                                         *)
EveryCallReturns ==
  /\ \A c \in Clients :
       <>(program[c] = << >> \/ RequestLost \/ (Call(c) = "exit" /\ dmpc = "ended"))
  /\ <>(own = << >>)
==============================================================================
