--------------------------- MODULE DataMoverProofs ---------------------------
(***************************************************************************)
(* Proofs about the data mover, the DMA functions and the allocator, for   *)
(* any clients, programs, sizes of the queue and widths of identifiers.    *)
(***************************************************************************)
EXTENDS DataMover, SequenceTheorems, FunctionTheorems, FiniteSetTheorems, TLAPS

DmLabels == {"own", "alloc", "publish", "loop", "issue", "back", "unfill", "stat", "switch", "valid",
             "clear", "empty", "quiet", "doze", "wfi", "ack", "awake", "ended"}
Unpublished == {"own", "alloc", "publish"}
ClientLabels == {"init", "done", "poll", "lock", "insert", "fill", "front", "release", "wake", "set",
                 "drain", "quiet", "clear", "ask", "wake2", "set2", "answer", "load", "alloc"}

(* The calls in which a client comes to a place. *)
CallsAt(label) ==
  CASE label \in {"poll", "insert", "fill", "front"} -> Copies
    [] label \in {"lock", "release"} -> Copies \cup {"wait", "ready"}
    [] label \in {"wake", "set"} -> {"start", "wait"}
    [] label \in {"drain", "quiet"} -> {"wait"}
    [] label \in {"clear", "answer"} -> {"wait", "ready"}
    [] label \in {"ask", "wake2", "set2"} -> {"wait", "ready", "exit"}
    [] label \in {"load", "alloc"} -> {"l1alloc", "l3alloc"}
    [] OTHER -> {}

(* The places at which a call holds the mutex. *)
HoldsAt(label, call) ==
  \/ label \in {"insert", "fill", "front", "clear", "answer", "release"}
  \/ label \in {"ask", "wake2", "set2"} /\ call # "exit"

PcExact(c) ==
  \/ pc[c] = "init"
  \/ pc[c] = "done" /\ program[c] = << >>
  \/ program[c] # << >> /\ Call(c) \in CallsAt(pc[c])

ClientsExact ==
  /\ program \in [Clients -> Seq(Calls)] /\ pc \in [Clients -> ClientLabels]
  /\ \A c \in Clients : PcExact(c) /\ (pc[c] # "init" => dm_p_global)
  /\ mutex \in Clients \cup {None}
  /\ \A c \in Clients : mutex = c <=> pc[c] # "init" /\ HoldsAt(pc[c], Call(c))

DaemonExact ==
  /\ dmpc \in DmLabels /\ (dm_p_global <=> dmpc \notin Unpublished)
  /\ dm_p_global \in BOOLEAN /\ stat_pvalid \in BOOLEAN
  /\ dm_wfi = IF dmpc \in {"wfi", "ack", "awake"} THEN 1 ELSE 0
  /\ stat_q \in {None, "wait", "ready", "exit"}

Control == ClientsExact /\ DaemonExact
------------------------------------------------------------------------------
LEMMA CallFacts ==
  /\ Calls = {"memcpy", "memcpy2d", "start", "wait", "ready", "exit", "l1alloc", "l3alloc"}
  /\ Copies = {"memcpy", "memcpy2d"}
  /\ None \notin Clients /\ "dm" \notin Clients /\ None = "none"
BY ProgramsAssumption DEF Calls, Copies, None

(* A client begins the first of the calls that are left.                   *)
LEMMA FirstFacts ==
  ASSUME NEW calls \in Seq(Calls)
  PROVE  /\ First(calls) \in ClientLabels \ {"init"}
         /\ First(calls) \in {"done", "poll", "wake", "lock", "ask", "load"}
         /\ First(calls) = "done" => calls = << >>
         /\ First(calls) = "lock" => Head(calls) = "ready"
         /\ First(calls) = "ask" => Head(calls) = "exit"
         /\ First(calls) # "done" => /\ calls # << >> /\ Head(calls) \in CallsAt(First(calls))
                                     /\ ~HoldsAt(First(calls), Head(calls))
<1>1. CASE calls = << >>
  BY <1>1 DEF First, ClientLabels
<1>2. CASE calls # << >>
  <2>1. PICK call \in Calls : call = Head(calls)
    BY <1>2
  <2>2. First(calls) = CASE call \in Copies -> "poll"
                         [] call \in {"start", "wait"} -> "wake"
                         [] call = "ready" -> "lock"
                         [] call = "exit" -> "ask"
                         [] call \in {"l1alloc", "l3alloc"} -> "load"
    BY <1>2, <2>1 DEF First
  <2>3. \/ (call \in Copies /\ First(calls) = "poll")
        \/ (call \in {"start", "wait"} /\ First(calls) = "wake")
        \/ (call = "ready" /\ First(calls) = "lock")
        \/ (call = "exit" /\ First(calls) = "ask")
        \/ (call \in {"l1alloc", "l3alloc"} /\ First(calls) = "load")
    BY <2>2, CallFacts
  <2>4. QED
    BY <1>2, <2>1, <2>3, CallFacts DEF ClientLabels, CallsAt, HoldsAt
<1>3. QED
  BY <1>1, <1>2

LEMMA ControlInit == Init => Control
<1> SUFFICES ASSUME Init PROVE Control
  OBVIOUS
<1>1. ClientsExact
  BY ProgramsAssumption DEF Init, ClientsExact, PcExact, ClientLabels, None
<1>2. DaemonExact
  BY DEF Init, DaemonExact, DmLabels, Unpublished
<1>3. QED
  BY <1>1, <1>2 DEF Control

(* A client goes on within its call.                                       *)
LEMMA GotoExact ==
  ASSUME ClientsExact, NEW c \in Clients, pc[c] \notin {"init", "done"}, NEW to \in ClientLabels \ {"init"}, Goto(c, to),
         Call(c) \in CallsAt(to), mutex' \in Clients \cup {None}, mutex' = c <=> HoldsAt(to, Call(c)),
         \A d \in Clients \ {c} : mutex' = d <=> mutex = d, dm_p_global' = dm_p_global
  PROVE  ClientsExact'
<1>1. /\ program' = program /\ pc' \in [Clients -> ClientLabels] /\ pc'[c] = to
      /\ \A d \in Clients \ {c} : pc'[d] = pc[d]
  BY DEF Goto, ClientsExact
<1>2. program[c] # << >> /\ dm_p_global
  BY DEF ClientsExact, PcExact
<1>3. PcExact(c)' /\ (mutex' = c <=> pc'[c] # "init" /\ HoldsAt(pc'[c], Call(c)'))
  BY <1>1, <1>2 DEF PcExact, Call
<1>4. \A d \in Clients \ {c} : PcExact(d)' /\ (pc'[d] # "init" => dm_p_global')
                               /\ (mutex' = d <=> pc'[d] # "init" /\ HoldsAt(pc'[d], Call(d)'))
  BY <1>1 DEF ClientsExact, PcExact, Call
<1>5. QED
  BY <1>1, <1>2, <1>3, <1>4 DEF ClientsExact

(* A client comes to its first call, or returns from one.                  *)
LEMMA BeginExact ==
  ASSUME ClientsExact, NEW c \in Clients, NEW calls \in Seq(Calls),
         program' = [program EXCEPT ![c] = calls], pc' = [pc EXCEPT ![c] = First(calls)],
         dm_p_global, dm_p_global' = dm_p_global, mutex' \in Clients \cup {None}, mutex' # c,
         \A d \in Clients \ {c} : mutex' = d <=> mutex = d
  PROVE  ClientsExact'
<1>1. /\ program' \in [Clients -> Seq(Calls)] /\ pc' \in [Clients -> ClientLabels]
      /\ program'[c] = calls /\ pc'[c] = First(calls)
      /\ \A d \in Clients \ {c} : pc'[d] = pc[d] /\ program'[d] = program[d]
  BY FirstFacts DEF ClientsExact
<1>2. PcExact(c)' /\ ~HoldsAt(pc'[c], Call(c)')
  <2>1. CASE First(calls) = "done"
    BY <1>1, <2>1, FirstFacts DEF PcExact, HoldsAt
  <2>2. CASE First(calls) # "done"
    BY <1>1, <2>2, FirstFacts DEF PcExact, Call
  <2>3. QED
    BY <2>1, <2>2
<1>3. \A d \in Clients \ {c} : PcExact(d)' /\ (pc'[d] # "init" => dm_p_global')
                               /\ (mutex' = d <=> pc'[d] # "init" /\ HoldsAt(pc'[d], Call(d)'))
  BY <1>1 DEF ClientsExact, PcExact, Call
<1>4. QED
  BY <1>1, <1>2, <1>3 DEF ClientsExact

LEMMA ReturnExact ==
  ASSUME ClientsExact, NEW c \in Clients, pc[c] \notin {"init", "done"}, Return(c),
         dm_p_global' = dm_p_global, mutex' \in Clients \cup {None}, mutex' # c,
         \A d \in Clients \ {c} : mutex' = d <=> mutex = d
  PROVE  ClientsExact'
<1>1. program[c] # << >> /\ program[c] \in Seq(Calls) /\ dm_p_global
  BY DEF ClientsExact, PcExact
<1>2. Tail(program[c]) \in Seq(Calls)
  BY <1>1
<1>3. QED
  BY <1>1, <1>2, BeginExact DEF Return

LEMMA ClientControl ==
  ASSUME Control, NEW c \in Clients, ClientStep(c) \/ Lock(c) PROVE Control'
<1> USE DEF Control
<1>1. pc[c] # "init" => PcExact(c) /\ (mutex = c <=> HoldsAt(pc[c], Call(c))) /\ dm_p_global
  BY DEF ClientsExact
<1>2. /\ UNCHANGED <<dmpc, dm_p_global, dm_wfi>>
      /\ stat_q' \in {None, "wait", "ready", "exit"} /\ stat_pvalid' \in BOOLEAN
  <2>1. UNCHANGED <<dmpc, dm_p_global, dm_wfi>>
    BY DEF ClientStep, ClientInit, Poll, Lock, Insert, InsertOned, InsertTwod, BumpFill, BumpFront, Release,
           AwaitWfi, SetIrq, Drain, Quiet, ClearValid, Ask, Answer, AllocLoad, AllocStore, dmVars, sleepVars
  <2>2. stat_pvalid \in BOOLEAN /\ stat_q \in {None, "wait", "ready", "exit"}
    BY DEF DaemonExact
  <2>3. CASE Ask(c)
    <3>1. stat_q' = Call(c) /\ stat_pvalid' = stat_pvalid
      BY <2>3 DEF Ask
    <3>2. Call(c) \in {"wait", "ready", "exit"}
      BY <1>1, <2>3 DEF Ask, PcExact, CallsAt
    <3>3. stat_q' \in {None, "wait", "ready", "exit"}
      BY <3>1, <3>2
    <3>4. QED
      BY <2>1, <2>2, <3>1, <3>3
  <2>4. CASE ClearValid(c)
    <3>1. stat_q' = stat_q /\ stat_pvalid' = FALSE
      BY <2>4 DEF ClearValid
    <3>2. QED
      BY <2>1, <2>2, <3>1
  <2>5. CASE ~Ask(c) /\ ~ClearValid(c)
    <3>1. UNCHANGED <<stat_q, stat_pvalid>>
      BY <2>5 DEF ClientStep, ClientInit, Poll, Lock, Insert, InsertOned, InsertTwod, BumpFill, BumpFront, Release,
             AwaitWfi, SetIrq, Drain, Quiet, Answer, AllocLoad, AllocStore, statVars
    <3>2. QED
      BY <2>1, <2>2, <3>1
  <2>6. QED
    BY <2>3, <2>4, <2>5
<1>3. DaemonExact'
  BY <1>2 DEF DaemonExact
<1>4. mutex \in Clients \cup {None} /\ c # None
  BY CallFacts DEF ClientsExact
<1>5. CASE ClientInit(c)
  <2>1. mutex # c /\ mutex' = mutex /\ dm_p_global /\ pc' = [pc EXCEPT ![c] = First(program[c])]
        /\ program' = [program EXCEPT ![c] = program[c]] /\ program[c] \in Seq(Calls)
    BY <1>5 DEF ClientInit, Goto, ClientsExact
  <2>2. QED
    BY <1>2, <1>3, <1>4, <2>1, BeginExact
<1>6. ASSUME NEW from \in ClientLabels \ {"init", "done"}, NEW to \in ClientLabels \ {"init"}, pc[c] = from, Goto(c, to),
             Call(c) \in CallsAt(from) => Call(c) \in CallsAt(to) /\ (HoldsAt(to, Call(c)) <=> HoldsAt(from, Call(c))),
             mutex' = mutex
      PROVE  ClientsExact'
  <2>1. Call(c) \in CallsAt(from) /\ (mutex = c <=> HoldsAt(from, Call(c)))
    BY <1>1, <1>6 DEF PcExact
  <2>2. QED
    BY <1>2, <1>4, <1>6, <2>1, GotoExact
<1>7. CASE Poll(c)
  <2>1. pc[c] = "poll" /\ Goto(c, "lock") /\ mutex' = mutex
    BY <1>7 DEF Poll
  <2>2. QED
    BY <1>3, <1>6, <2>1 DEF ClientLabels, CallsAt, HoldsAt
<1>8. CASE Lock(c)
  <2>1. pc[c] = "lock" /\ mutex = None /\ mutex' = c /\ Goto(c, IF Call(c) \in Copies THEN "insert" ELSE "clear")
    BY <1>8 DEF Lock
  <2>2. Call(c) \in Copies \cup {"wait", "ready"}
    BY <1>1, <2>1 DEF PcExact, CallsAt
  <2>3. \A d \in Clients \ {c} : mutex' = d <=> mutex = d
    BY <2>1, CallFacts
  <2>4. CASE Call(c) \in Copies
    <3>1. Goto(c, "insert") /\ "insert" \in ClientLabels \ {"init"} /\ Call(c) \in CallsAt("insert") /\ HoldsAt("insert", Call(c))
      BY <2>1, <2>4 DEF ClientLabels, CallsAt, HoldsAt
    <3>2. QED
      BY <1>2, <1>3, <2>1, <2>3, <3>1, GotoExact
  <2>5. CASE Call(c) \notin Copies
    <3>1. Goto(c, "clear") /\ "clear" \in ClientLabels \ {"init"} /\ Call(c) \in CallsAt("clear") /\ HoldsAt("clear", Call(c))
      BY <2>1, <2>2, <2>5 DEF ClientLabels, CallsAt, HoldsAt
    <3>2. QED
      BY <1>2, <1>3, <2>1, <2>3, <3>1, GotoExact
  <2>6. QED
    BY <2>4, <2>5
<1>9. CASE InsertOned(c) \/ InsertTwod(c)
  <2>1. pc[c] = "insert" /\ Goto(c, "fill") /\ mutex' = mutex
    BY <1>9 DEF InsertOned, InsertTwod, Insert
  <2>2. QED
    BY <1>3, <1>6, <2>1 DEF ClientLabels, CallsAt, HoldsAt
<1>10. CASE BumpFill(c)
  <2>1. pc[c] = "fill" /\ Goto(c, "front") /\ mutex' = mutex
    BY <1>10 DEF BumpFill
  <2>2. QED
    BY <1>3, <1>6, <2>1 DEF ClientLabels, CallsAt, HoldsAt
<1>11. CASE BumpFront(c)
  <2>1. pc[c] = "front" /\ Goto(c, "release") /\ mutex' = mutex
    BY <1>11 DEF BumpFront
  <2>2. QED
    BY <1>3, <1>6, <2>1 DEF ClientLabels, CallsAt, HoldsAt
<1>12. CASE Release(c)
  <2>1. pc[c] = "release" /\ mutex' = None /\ Return(c)
    BY <1>12 DEF Release
  <2>2. mutex = c
    BY <1>1, <2>1 DEF HoldsAt
  <2>3. \A d \in Clients \ {c} : mutex' = d <=> mutex = d
    BY <2>1, <2>2, CallFacts
  <2>4. QED
    BY <1>2, <1>3, <1>4, <2>1, <2>3, ReturnExact
<1>13. CASE AwaitWfi(c)
  <2>1. (pc[c] = "wake" /\ Goto(c, "set")) \/ (pc[c] = "wake2" /\ Goto(c, "set2"))
    BY <1>13 DEF AwaitWfi
  <2>2. mutex' = mutex
    BY <1>13 DEF AwaitWfi
  <2>3. QED
    BY <1>3, <1>6, <2>1, <2>2 DEF ClientLabels, CallsAt, HoldsAt
<1>14. CASE SetIrq(c)
  <2>1. pc[c] \in {"set", "set2"} /\ mutex' = mutex
    BY <1>14 DEF SetIrq
  <2>2. Call(c) \in CallsAt(pc[c]) /\ (mutex = c <=> HoldsAt(pc[c], Call(c)))
    BY <1>1, <2>1 DEF PcExact
  <2>3. \/ (Call(c) \in {"start", "exit"} /\ Return(c))
        \/ (Call(c) \in {"wait", "ready"} /\ Goto(c, IF pc[c] = "set" THEN "drain" ELSE "answer"))
    BY <1>14, <2>1, <2>2 DEF SetIrq, CallsAt
  <2>4. CASE Call(c) \in {"start", "exit"} /\ Return(c)
    <3>1. mutex # c
      BY <2>1, <2>2, <2>4 DEF HoldsAt, CallsAt
    <3>2. QED
      BY <1>2, <1>3, <1>4, <2>1, <2>4, <3>1, ReturnExact
  <2>5. CASE pc[c] = "set" /\ Call(c) \in {"wait", "ready"} /\ Goto(c, "drain")
    BY <1>3, <1>6, <2>1, <2>5 DEF ClientLabels, CallsAt, HoldsAt
  <2>6. CASE pc[c] = "set2" /\ Call(c) \in {"wait", "ready"} /\ Goto(c, "answer")
    BY <1>3, <1>6, <2>1, <2>6 DEF ClientLabels, CallsAt, HoldsAt
  <2>7. QED
    BY <2>1, <2>3, <2>4, <2>5, <2>6
<1>15. CASE Drain(c) \/ Quiet(c)
  <2>1. (pc[c] = "drain" /\ Goto(c, "quiet")) \/ (pc[c] = "quiet" /\ Goto(c, "lock"))
    BY <1>15 DEF Drain, Quiet
  <2>2. mutex' = mutex
    BY <1>15 DEF Drain, Quiet
  <2>3. QED
    BY <1>3, <1>6, <2>1, <2>2 DEF ClientLabels, CallsAt, HoldsAt
<1>16. CASE ClearValid(c)
  <2>1. pc[c] = "clear" /\ Goto(c, "ask") /\ mutex' = mutex
    BY <1>16 DEF ClearValid
  <2>2. QED
    BY <1>3, <1>6, <2>1 DEF ClientLabels, CallsAt, HoldsAt
<1>17. CASE Ask(c)
  <2>1. pc[c] = "ask" /\ Goto(c, "wake2") /\ mutex' = mutex
    BY <1>17 DEF Ask
  <2>2. QED
    BY <1>3, <1>6, <2>1 DEF ClientLabels, CallsAt, HoldsAt
<1>18. CASE Answer(c)
  <2>1. pc[c] = "answer" /\ Goto(c, "release") /\ mutex' = mutex
    BY <1>18 DEF Answer
  <2>2. QED
    BY <1>3, <1>6, <2>1 DEF ClientLabels, CallsAt, HoldsAt
<1>19. CASE AllocLoad(c)
  <2>1. pc[c] = "load" /\ Goto(c, "alloc") /\ mutex' = mutex
    BY <1>19 DEF AllocLoad
  <2>2. QED
    BY <1>3, <1>6, <2>1 DEF ClientLabels, CallsAt, HoldsAt
<1>20. CASE AllocStore(c)
  <2>1. pc[c] = "alloc" /\ Return(c) /\ mutex' = mutex
    BY <1>20 DEF AllocStore
  <2>2. mutex # c
    BY <1>1, <2>1 DEF HoldsAt
  <2>3. QED
    BY <1>2, <1>3, <1>4, <2>1, <2>2, ReturnExact
<1>21. QED
  BY <1>5, <1>7, <1>8, <1>9, <1>10, <1>11, <1>12, <1>13, <1>14, <1>15, <1>16, <1>17, <1>18, <1>19, <1>20 DEF ClientStep

(* The DM core's steps leave the clients alone.                            *)
LEMMA ClientsKept ==
  ASSUME ClientsExact, UNCHANGED <<program, pc, mutex>>, dm_p_global => dm_p_global'
  PROVE  ClientsExact'
<1>1. \A c \in Clients : PcExact(c) <=> PcExact(c)'
  BY DEF PcExact, Call
<1>2. QED
  BY <1>1 DEF ClientsExact, Call

LEMMA DaemonControl ==
  ASSUME Control, DmStep \/ Engine \/ OwnStep PROVE Control'
<1> USE DEF Control
<1>0. UNCHANGED <<program, pc, mutex>>
  BY DEF DmStep, DmLoad, DmAlloc, DmPublish, CheckFill, Issue, BumpBack, DropFill, CheckStat, Switch, SetValid,
         ClearRequest, CheckEmpty, CheckQuiet, Doze, Wfi, ClearIrq, Awake, Engine, OwnStep, OwnStart1d, OwnStart2d,
         OwnStart, OwnWait, OwnWaitAll, OwnRest, clientVars
<1>1. /\ dmpc \in DmLabels /\ (dm_p_global <=> dmpc \notin Unpublished)
      /\ dm_wfi = (IF dmpc \in {"wfi", "ack", "awake"} THEN 1 ELSE 0) /\ stat_q \in {None, "wait", "ready", "exit"}
  BY DEF DaemonExact
<1>2. dm_p_global \in BOOLEAN /\ stat_pvalid \in BOOLEAN
  BY DEF DaemonExact
<1>3. ASSUME UNCHANGED <<dm_p_global, stat_q, stat_pvalid, dm_wfi>>, dmpc' \in DmLabels,
             dmpc' \in Unpublished <=> dmpc \in Unpublished,
             dmpc' \in {"wfi", "ack", "awake"} <=> dmpc \in {"wfi", "ack", "awake"}
      PROVE  Control'
  <2>1. DaemonExact'
    BY <1>1, <1>2, <1>3 DEF DaemonExact
  <2>2. QED
    BY <1>0, <1>3, <2>1, ClientsKept
<1>4. CASE DmLoad \/ DmAlloc
  <2>1. UNCHANGED <<dm_p_global, stat_q, stat_pvalid, dm_wfi>>
    BY <1>4 DEF DmLoad, DmAlloc, statVars, sleepVars
  <2>2. (dmpc = "own" /\ dmpc' = "alloc") \/ (dmpc = "alloc" /\ dmpc' = "publish")
    BY <1>4 DEF DmLoad, DmAlloc
  <2>3. QED
    BY <1>3, <2>1, <2>2 DEF DmLabels, Unpublished
<1>5. CASE DmPublish
  <2>1. UNCHANGED <<stat_q, stat_pvalid, dm_wfi>> /\ dm_p_global' = TRUE /\ dmpc = "publish" /\ dmpc' = "loop"
    BY <1>5 DEF DmPublish, statVars, sleepVars
  <2>2. dmpc' \in DmLabels /\ dmpc' \notin Unpublished /\ dmpc' \notin {"wfi", "ack", "awake"} /\ dm_wfi = 0
    BY <1>1, <2>1 DEF DmLabels, Unpublished
  <2>3. stat_pvalid' \in BOOLEAN /\ dm_p_global' \in BOOLEAN
    BY <1>2, <2>1
  <2>4. DaemonExact'
    BY <1>1, <2>1, <2>2, <2>3 DEF DaemonExact
  <2>5. QED
    BY <1>0, <2>1, <2>4, ClientsKept
<1>6. CASE CheckFill \/ Issue \/ BumpBack \/ DropFill \/ CheckStat
  <2>1. UNCHANGED <<dm_p_global, stat_q, stat_pvalid, dm_wfi>>
    BY <1>6 DEF CheckFill, Issue, BumpBack, DropFill, CheckStat, statVars, sleepVars
  <2>2. dmpc \in {"loop", "issue", "back", "unfill", "stat"} /\ dmpc' \in {"issue", "stat", "back", "unfill", "empty", "switch"}
    BY <1>6 DEF CheckFill, Issue, BumpBack, DropFill, CheckStat, DmGoto
  <2>3. QED
    BY <1>3, <2>1, <2>2 DEF DmLabels, Unpublished
<1>7. CASE Switch \/ CheckEmpty \/ CheckQuiet
  <2>1. UNCHANGED <<dm_p_global, stat_q, stat_pvalid, dm_wfi>>
    BY <1>7 DEF Switch, CheckEmpty, CheckQuiet, statVars, sleepVars
  <2>2. dmpc \in {"switch", "empty", "quiet"} /\ dmpc' \in {"valid", "empty", "quiet", "ended", "loop", "doze"}
    BY <1>7 DEF Switch, CheckEmpty, CheckQuiet, DmGoto, EndOfLoop
  <2>3. QED
    BY <1>3, <2>1, <2>2 DEF DmLabels, Unpublished
<1>8. CASE SetValid
  <2>1. UNCHANGED <<stat_q, dm_p_global, dm_wfi>> /\ stat_pvalid' = TRUE /\ dmpc = "valid" /\ dmpc' = "clear"
    BY <1>8 DEF SetValid, DmGoto, sleepVars
  <2>2. dmpc' \in DmLabels /\ dmpc' \notin Unpublished /\ dmpc \notin Unpublished /\ dmpc' \notin {"wfi", "ack", "awake"} /\ dm_wfi = 0
    BY <1>1, <2>1 DEF DmLabels, Unpublished
  <2>3. stat_pvalid' \in BOOLEAN /\ dm_p_global' \in BOOLEAN
    BY <1>2, <2>1
  <2>4. DaemonExact'
    BY <1>1, <2>1, <2>2, <2>3 DEF DaemonExact
  <2>5. QED
    BY <1>0, <2>1, <2>4, ClientsKept
<1>9. CASE ClearRequest
  <2>1. UNCHANGED <<stat_pvalid, dm_p_global, dm_wfi>> /\ stat_q' = None /\ dmpc = "clear" /\ dmpc' = "empty"
    BY <1>9 DEF ClearRequest, DmGoto, sleepVars
  <2>2. dmpc' \in DmLabels /\ dmpc' \notin Unpublished /\ dmpc \notin Unpublished /\ dmpc' \notin {"wfi", "ack", "awake"} /\ dm_wfi = 0
    BY <1>1, <2>1 DEF DmLabels, Unpublished
  <2>3. stat_pvalid' \in BOOLEAN /\ dm_p_global' \in BOOLEAN
    BY <1>2, <2>1
  <2>4. DaemonExact'
    BY <1>1, <2>1, <2>2, <2>3 DEF DaemonExact
  <2>5. QED
    BY <1>0, <2>1, <2>4, ClientsKept
<1>10. CASE Doze \/ Awake
  <2>1. UNCHANGED <<stat_q, stat_pvalid, dm_p_global>>
    BY <1>10 DEF Doze, Awake, statVars
  <2>2. \/ (dmpc = "doze" /\ dmpc' = "wfi" /\ dm_wfi' = dm_wfi + 1)
        \/ (dmpc = "awake" /\ dmpc' \in {"loop", "ended"} /\ dm_wfi' = dm_wfi - 1)
    BY <1>10 DEF Doze, Awake, DmGoto, EndOfLoop
  <2>3. /\ dmpc' \in DmLabels /\ dmpc' \notin Unpublished /\ dmpc \notin Unpublished
        /\ dm_wfi' = (IF dmpc' \in {"wfi", "ack", "awake"} THEN 1 ELSE 0)
    BY <1>1, <2>2 DEF DmLabels, Unpublished
  <2>4. stat_pvalid' \in BOOLEAN /\ dm_p_global' \in BOOLEAN
    BY <1>2, <2>1
  <2>5. DaemonExact'
    BY <1>1, <2>1, <2>3, <2>4 DEF DaemonExact
  <2>6. QED
    BY <1>0, <2>1, <2>5, ClientsKept
<1>11. CASE Wfi \/ ClearIrq
  <2>1. UNCHANGED <<dm_p_global, stat_q, stat_pvalid, dm_wfi>>
    BY <1>11 DEF Wfi, ClearIrq, statVars, sleepVars
  <2>2. dmpc \in {"wfi", "ack"} /\ dmpc' \in {"ack", "awake"}
    BY <1>11 DEF Wfi, ClearIrq, DmGoto
  <2>3. QED
    BY <1>3, <2>1, <2>2 DEF DmLabels, Unpublished
<1>12. CASE Engine \/ OwnStep
  <2>1. UNCHANGED <<dm_p_global, stat_q, stat_pvalid, dm_wfi, dmpc>>
    BY <1>12 DEF Engine, OwnStep, OwnStart1d, OwnStart2d, OwnStart, OwnWait, OwnWaitAll, OwnRest, statVars, sleepVars, dmVars
  <2>2. QED
    BY <1>1, <1>3, <2>1
<1>13. QED
  BY <1>4, <1>5, <1>6, <1>7, <1>8, <1>9, <1>10, <1>11, <1>12 DEF DmStep

LEMMA ControlNext == Control /\ [Next]_vars => Control'
<1> SUFFICES ASSUME Control, [Next]_vars PROVE Control'
  OBVIOUS
<1>1. CASE UNCHANGED vars
  <2>1. \A c \in Clients : PcExact(c) <=> PcExact(c)'
    BY <1>1 DEF vars, clientVars, PcExact, Call
  <2>2. ClientsExact'
    BY <1>1, <2>1 DEF vars, clientVars, ClientsExact, Control, Call
  <2>3. DaemonExact'
    BY <1>1 DEF vars, statVars, sleepVars, dmVars, DaemonExact, Control
  <2>4. QED
    BY <2>2, <2>3 DEF Control
<1>2. CASE Next
  BY <1>2, ClientControl, DaemonControl DEF Next, DaemonStep
<1>3. QED
  BY <1>1, <1>2

(* A client is where its call allows, and holds the mutex exactly at the   *)
(* places between _dm_mtx_lock and _dm_mtx_release; the DM core counts     *)
(* itself among the sleepers exactly while it sleeps, and no client calls  *)
(* before dm_init has published the data mover's structure.                *)
THEOREM ControlCorrect == Spec => []Control
<1>1. QED
  BY ControlInit, ControlNext, PTL DEF Spec
------------------------------------------------------------------------------
(* The allocator: regions lie below next, and what a core has loaded of    *)
(* next is still next when it stores, as no other core allocates there.    *)
Uses(c, call) == \E i \in DOMAIN program[c] : program[c][i] = call

Below(rs, top) ==
  /\ rs \in Seq(Nat \X Nat) /\ Disjoint(rs)
  /\ \A i \in DOMAIN rs : rs[i][1] + rs[i][2] <= top

AllocInv ==
  /\ \A call \in {"l1alloc", "l3alloc"} : \A c, d \in Clients : Uses(c, call) /\ Uses(d, call) => c = d
  /\ next \in Nat /\ MemStart <= next /\ next % MIN_CHUNK_SIZE = 0 /\ l3next \in Nat
  /\ Below(regions, next) /\ Below(l3regions, l3next)
  /\ \A i \in DOMAIN regions : /\ regions[i][1] % MIN_CHUNK_SIZE = 0 /\ MemStart <= regions[i][1]
                               /\ regions[i][1] + regions[i][2] <= MemEnd
  /\ loaded \in [Clients \cup {"dm"} -> Nat]
  /\ dmpc = "alloc" => loaded["dm"] = next
  /\ \A c \in Clients : pc[c] = "alloc" =>
       loaded[c] = IF Call(c) = "l1alloc" THEN next ELSE l3next

LEMMA AlignUpFacts ==
  ASSUME NEW n \in Nat
  PROVE  /\ AlignUp(n) \in Nat /\ AlignUp(n) >= n /\ AlignUp(n) % MIN_CHUNK_SIZE = 0
         /\ n % MIN_CHUNK_SIZE = 0 => AlignUp(n) = n
BY DEF AlignUp, MIN_CHUNK_SIZE

LEMMA BaseFacts == base = MemStart /\ base + size = MemEnd
BY MemAssumption, AlignUpFacts DEF base, size

(* A region that starts where the others end is disjoint from them.        *)
LEMMA BelowAppend ==
  ASSUME NEW rs, NEW top \in Nat, Below(rs, top), NEW n \in Nat, NEW m \in Nat, n <= m
  PROVE  Below(Append(rs, <<top, n>>), top + m)
<1> DEFINE new == Append(rs, <<top, n>>)
<1>1. rs \in Seq(Nat \X Nat) /\ <<top, n>> \in Nat \X Nat
  BY DEF Below
<1>2. new \in Seq(Nat \X Nat) /\ Len(new) = Len(rs) + 1 /\ new[Len(rs) + 1] = <<top, n>>
      /\ \A i \in 1..Len(rs) : new[i] = rs[i]
  BY <1>1
<1>3. DOMAIN rs = 1..Len(rs) /\ DOMAIN new = 1..(Len(rs) + 1) /\ Len(rs) \in Nat
  BY <1>1, <1>2
<1>4. \A i \in 1..Len(rs) : rs[i] \in Nat \X Nat /\ rs[i][1] + rs[i][2] <= top
  <2>1. \A i \in 1..Len(rs) : rs[i] \in Nat \X Nat
    BY <1>1
  <2>2. \A i \in 1..Len(rs) : rs[i][1] + rs[i][2] <= top
    BY <1>3 DEF Below
  <2>3. QED
    BY <2>1, <2>2
<1>5. \A i \in DOMAIN new : \/ i \in 1..Len(rs) /\ new[i] = rs[i]
                            \/ i = Len(rs) + 1 /\ new[i][1] = top /\ new[i][2] = n
  BY <1>2, <1>3
<1>6. \A i \in DOMAIN new : new[i][1] + new[i][2] <= top + m
  BY <1>4, <1>5
<1> HIDE DEF new
<1>7. Disjoint(new)
  <2>1. \A i, j \in 1..Len(rs) : i # j => rs[i][1] + rs[i][2] <= rs[j][1] \/ rs[j][1] + rs[j][2] <= rs[i][1]
    BY <1>3 DEF Below, Disjoint
  <2>2. SUFFICES ASSUME NEW i \in DOMAIN new, NEW j \in DOMAIN new, i # j
                 PROVE  new[i][1] + new[i][2] <= new[j][1] \/ new[j][1] + new[j][2] <= new[i][1]
    BY DEF Disjoint
  <2>3. QED
    BY <1>4, <1>5, <2>1, <2>2
<1>8. QED
  BY <1>2, <1>6, <1>7 DEF Below, new

LEMMA AllocInit2 == Init => AllocInv
<1> SUFFICES ASSUME Init PROVE AllocInv
  OBVIOUS
<1>1. \A call \in {"l1alloc", "l3alloc"} : \A c, d \in Clients : Uses(c, call) /\ Uses(d, call) => c = d
  BY AllocAssumption DEF Init, Uses
<1>2. next \in Nat /\ MemStart <= next /\ next % MIN_CHUNK_SIZE = 0 /\ l3next \in Nat
  BY BaseFacts, MemAssumption, AlignUpFacts DEF Init, AllocInit
<1>3. regions = << >> /\ l3regions = << >> /\ loaded = [c \in Clients \cup {"dm"} |-> 0]
  BY DEF Init, AllocInit
<1>4. QED
  BY <1>1, <1>2, <1>3 DEF AllocInv, Below, Disjoint, Init

(* A step that allocates nothing.                                          *)
LEMMA AllocKept ==
  ASSUME AllocInv, UNCHANGED allocVars, UNCHANGED program,
         dmpc' = "alloc" => dmpc = "alloc", \A c \in Clients : pc'[c] = "alloc" => pc[c] = "alloc"
  PROVE  AllocInv'
BY DEF AllocInv, allocVars, l1Vars, l3Vars, Below, Disjoint, Uses, Call

LEMMA ReturnUses ==
  ASSUME ClientsExact, NEW c \in Clients, Return(c), program[c] # << >>, NEW d \in Clients, NEW call, Uses(d, call)'
  PROVE  Uses(d, call)
<1>1. program[c] \in Seq(Calls) /\ program' = [program EXCEPT ![c] = Tail(@)] /\ program \in [Clients -> Seq(Calls)]
  BY DEF Return, ClientsExact
<1>2. CASE d # c
  BY <1>1, <1>2 DEF Uses
<1>3. CASE d = c
  <2>1. program'[c] = Tail(program[c])
    BY <1>1
  <2>2. PICK i \in DOMAIN Tail(program[c]) : Tail(program[c])[i] = call
    BY <1>3, <2>1 DEF Uses
  <2>3. i + 1 \in DOMAIN program[c] /\ program[c][i + 1] = call
    BY <1>1, <2>2
  <2>4. QED
    BY <1>3, <2>3 DEF Uses
<1>4. QED
  BY <1>2, <1>3

(* A store that allocates n bytes, of what was loaded while it is next.    *)
LEMMA L1AllocKeeps ==
  ASSUME AllocInv, NEW n \in Nat, L1Alloc(next, n)
  PROVE  /\ next' \in Nat /\ MemStart <= next' /\ next' % MIN_CHUNK_SIZE = 0 /\ l3next' \in Nat
         /\ Below(regions, next)' /\ Below(l3regions, l3next)'
         /\ \A i \in DOMAIN regions' : /\ regions'[i][1] % MIN_CHUNK_SIZE = 0 /\ MemStart <= regions'[i][1]
                                       /\ regions'[i][1] + regions'[i][2] <= MemEnd
         /\ l3next' = l3next
<1>1. /\ next \in Nat /\ MemStart <= next /\ next % MIN_CHUNK_SIZE = 0 /\ l3next \in Nat
      /\ Below(regions, next) /\ Below(l3regions, l3next) /\ regions \in Seq(Nat \X Nat)
      /\ \A i \in DOMAIN regions : /\ regions[i][1] % MIN_CHUNK_SIZE = 0 /\ MemStart <= regions[i][1]
                                   /\ regions[i][1] + regions[i][2] <= MemEnd
  BY DEF AllocInv, Below
<1>2. UNCHANGED <<l3next, l3regions>>
  BY DEF L1Alloc, l3Vars
<1>3. Below(l3regions, l3next)'
  BY <1>1, <1>2 DEF Below, Disjoint
<1>4. CASE ~Fits(next, n)
  <2>1. UNCHANGED <<next, regions>>
    BY <1>4 DEF L1Alloc, l1Vars
  <2>2. Below(regions, next)'
    BY <1>1, <2>1 DEF Below, Disjoint
  <2>3. QED
    BY <1>1, <1>2, <1>3, <2>1, <2>2
<1>5. CASE Fits(next, n)
  <2>1. next' = next + AlignUp(n) /\ regions' = Append(regions, <<next, n>>)
    BY <1>5 DEF L1Alloc
  <2>2. AlignUp(n) \in Nat /\ n <= AlignUp(n) /\ AlignUp(n) % MIN_CHUNK_SIZE = 0 /\ next + AlignUp(n) <= MemEnd
    BY <1>5, AlignUpFacts, BaseFacts DEF Fits
  <2>3. next' \in Nat /\ MemStart <= next' /\ next' % MIN_CHUNK_SIZE = 0
    <3>1. \A x, y \in Nat : x % 8 = 0 /\ y % 8 = 0 => x + y \in Nat /\ (x + y) % 8 = 0
      OBVIOUS
    <3>2. PICK x \in Nat : x = next
      BY <1>1
    <3>3. PICK y \in Nat : y = AlignUp(n)
      BY <2>2
    <3>4. MemStart <= x /\ x % 8 = 0 /\ y % 8 = 0 /\ next' = x + y
      BY <1>1, <2>1, <2>2, <3>2, <3>3 DEF MIN_CHUNK_SIZE
    <3>5. QED
      BY <3>1, <3>4, MemAssumption DEF MIN_CHUNK_SIZE
  <2>4. Below(Append(regions, <<next, n>>), next + AlignUp(n))
    BY <1>1, <2>2, BelowAppend
  <2>5. Below(regions, next)'
    BY <2>1, <2>4 DEF Below, Disjoint
  <2>6. \A i \in DOMAIN regions' : \/ i \in DOMAIN regions /\ regions'[i] = regions[i]
                                   \/ regions'[i][1] = next /\ regions'[i][2] = n
    BY <1>1, <2>1
  <2>7. next + n <= MemEnd
    BY <1>1, <2>2, MemAssumption
  <2>8. \A i \in DOMAIN regions' : /\ regions'[i][1] % MIN_CHUNK_SIZE = 0 /\ MemStart <= regions'[i][1]
                                   /\ regions'[i][1] + regions'[i][2] <= MemEnd
    BY <1>1, <2>6, <2>7
  <2>9. QED
    BY <1>1, <1>2, <1>3, <2>3, <2>5, <2>8
<1>6. QED
  BY <1>4, <1>5

LEMMA OthersKept ==
  ASSUME Control, NEW c \in Clients, ClientStep(c) \/ Lock(c)
  PROVE  \A d \in Clients \ {c} : pc'[d] = pc[d] /\ program'[d] = program[d]
<1>1. /\ program \in [Clients -> Seq(Calls)] /\ pc \in [Clients -> ClientLabels]
      /\ \A d \in Clients : PcExact(d)
  BY DEF Control, ClientsExact
<1>2. ASSUME NEW to, Goto(c, to) PROVE \A d \in Clients \ {c} : pc'[d] = pc[d] /\ program'[d] = program[d]
  BY <1>1, <1>2 DEF Goto
<1>3. ASSUME Return(c) PROVE \A d \in Clients \ {c} : pc'[d] = pc[d] /\ program'[d] = program[d]
  BY <1>1, <1>3 DEF Return
<1>4. CASE ClientInit(c) \/ Poll(c) \/ Lock(c) \/ AwaitWfi(c) \/ Drain(c) \/ Quiet(c) \/ ClearValid(c)
  BY <1>2, <1>4 DEF ClientInit, Poll, Lock, AwaitWfi, Drain, Quiet, ClearValid
<1>5. CASE InsertOned(c) \/ InsertTwod(c) \/ BumpFill(c) \/ BumpFront(c) \/ Ask(c) \/ Answer(c) \/ AllocLoad(c)
  BY <1>2, <1>5 DEF InsertOned, InsertTwod, Insert, BumpFill, BumpFront, Ask, Answer, AllocLoad
<1>6. CASE Release(c) \/ AllocStore(c)
  BY <1>3, <1>6 DEF Release, AllocStore
<1>7. CASE SetIrq(c)
  <2>1. Call(c) \in {"start", "exit", "wait", "ready"}
    BY <1>1, <1>7 DEF SetIrq, PcExact, CallsAt
  <2>2. Return(c) \/ Goto(c, IF pc[c] = "set" THEN "drain" ELSE "answer")
    BY <1>7, <2>1 DEF SetIrq
  <2>3. QED
    BY <1>2, <1>3, <2>2
<1>8. QED
  BY <1>4, <1>5, <1>6, <1>7 DEF ClientStep

LEMMA ClientAlloc ==
  ASSUME Control, AllocInv, NEW c \in Clients, ClientStep(c) \/ Lock(c) PROVE AllocInv'
<1>1. /\ program \in [Clients -> Seq(Calls)] /\ pc \in [Clients -> ClientLabels] /\ c # "dm" /\ "dm" \notin Clients
      /\ \A d \in Clients : PcExact(d) /\ (pc[d] # "init" => dm_p_global)
      /\ dm_p_global => dmpc # "alloc"
  BY CallFacts DEF Control, ClientsExact, DaemonExact, Unpublished
<1>2. dmpc' = dmpc
  BY DEF ClientStep, ClientInit, Poll, Lock, Insert, InsertOned, InsertTwod, BumpFill, BumpFront, Release,
         AwaitWfi, SetIrq, Drain, Quiet, ClearValid, Ask, Answer, AllocLoad, AllocStore, dmVars
<1>3. \A d \in Clients \ {c} : pc'[d] = pc[d] /\ program'[d] = program[d]
  BY OthersKept
<1>4. program[c] \in Seq(Calls) /\ (program[c] # << >> => Tail(program[c]) \in Seq(Calls))
  BY <1>1
<1>5. \A calls \in Seq(Calls) : First(calls) # "alloc"
  BY FirstFacts
<1>6. CASE ClientInit(c)
  <2>1. UNCHANGED allocVars /\ UNCHANGED program /\ pc'[c] = First(program[c])
    BY <1>1, <1>6 DEF ClientInit, Goto
  <2>2. QED
    BY <1>2, <1>3, <1>4, <1>5, <2>1, AllocKept
<1>7. CASE Release(c) \/ (SetIrq(c) /\ Return(c))
  <2>1. UNCHANGED allocVars /\ Return(c) /\ pc[c] \in {"release", "set", "set2"}
    BY <1>7 DEF Release, SetIrq
  <2>2. program[c] # << >>
    BY <1>1, <2>1 DEF PcExact
  <2>3. pc'[c] # "alloc"
    BY <1>1, <1>4, <1>5, <2>1, <2>2 DEF Return
  <2>4. \A d \in Clients, call \in {"l1alloc", "l3alloc"} : Uses(d, call)' => Uses(d, call)
    BY <2>1, <2>2, ReturnUses DEF Control
  <2>5. \A d \in Clients : pc'[d] = "alloc" => pc[d] = "alloc" /\ Call(d)' = Call(d)
    BY <1>3, <2>3 DEF Call
  <2>6. UNCHANGED <<next, l3next, regions, l3regions, loaded>>
    BY <2>1 DEF allocVars, l1Vars, l3Vars
  <2>7. \A call \in {"l1alloc", "l3alloc"} : \A d, e \in Clients : Uses(d, call)' /\ Uses(e, call)' => d = e
    BY <2>4 DEF AllocInv
  <2>8. QED
    BY <1>2, <2>5, <2>6, <2>7 DEF AllocInv, Below, Disjoint
<1>8. CASE \/ Poll(c) \/ Lock(c) \/ InsertOned(c) \/ InsertTwod(c) \/ BumpFill(c) \/ BumpFront(c) \/ AwaitWfi(c)
           \/ (SetIrq(c) /\ ~Return(c)) \/ Drain(c) \/ Quiet(c) \/ ClearValid(c) \/ Ask(c) \/ Answer(c)
  <2>1. UNCHANGED allocVars
    BY <1>8 DEF Poll, Lock, Insert, InsertOned, InsertTwod, BumpFill, BumpFront,
         AwaitWfi, SetIrq, Drain, Quiet, ClearValid, Ask, Answer
  <2>2. CASE ~SetIrq(c)
    <3>1. UNCHANGED program /\ pc'[c] # "alloc"
      BY <1>1, <1>8, <2>2 DEF Poll, Lock, Insert, InsertOned, InsertTwod, BumpFill, BumpFront,
         AwaitWfi, Drain, Quiet, ClearValid, Ask, Answer, Goto
    <3>2. QED
      BY <1>2, <1>3, <2>1, <3>1, AllocKept
  <2>3. CASE SetIrq(c) /\ ~Return(c)
    <3>1. pc[c] \in {"set", "set2"} /\ Call(c) \in CallsAt(pc[c])
      BY <1>1, <2>3 DEF SetIrq, PcExact
    <3>2. Goto(c, IF pc[c] = "set" THEN "drain" ELSE "answer")
      BY <2>3, <3>1 DEF SetIrq, CallsAt
    <3>3. UNCHANGED program /\ pc'[c] # "alloc"
      BY <1>1, <3>2 DEF Goto
    <3>4. QED
      BY <1>2, <1>3, <2>1, <3>3, AllocKept
  <2>4. CASE SetIrq(c) /\ Return(c)
    BY <1>7, <2>4
  <2>5. QED
    BY <2>2, <2>3, <2>4
<1>9. CASE AllocLoad(c)
  <2>1. /\ UNCHANGED <<next, l3next, regions, l3regions, program>> /\ pc'[c] = "alloc" /\ pc[c] = "load"
        /\ loaded' = [loaded EXCEPT ![c] = IF Call(c) = "l1alloc" THEN next ELSE l3next]
    BY <1>1, <1>9 DEF AllocLoad, Goto, l1Vars, l3Vars
  <2>2. loaded \in [Clients \cup {"dm"} -> Nat] /\ next \in Nat /\ l3next \in Nat
    BY DEF AllocInv
  <2>3. /\ loaded' \in [Clients \cup {"dm"} -> Nat] /\ loaded'["dm"] = loaded["dm"]
        /\ loaded'[c] = (IF Call(c) = "l1alloc" THEN next ELSE l3next)
        /\ \A d \in Clients \ {c} : loaded'[d] = loaded[d]
    BY <1>1, <2>1, <2>2
  <2>4. \A d \in Clients : pc'[d] = "alloc" => loaded'[d] = IF Call(d)' = "l1alloc" THEN next' ELSE l3next'
    BY <1>3, <2>1, <2>3 DEF AllocInv, Call
  <2>5. Below(regions, next)' /\ Below(l3regions, l3next)'
    BY <2>1 DEF AllocInv, Below, Disjoint
  <2>6. \A call \in {"l1alloc", "l3alloc"} : \A d, e \in Clients : Uses(d, call)' /\ Uses(e, call)' => d = e
    BY <2>1 DEF AllocInv, Uses
  <2>7. dmpc' = "alloc" => loaded'["dm"] = next'
    BY <1>2, <2>1, <2>3 DEF AllocInv
  <2>8. QED
    BY <2>1, <2>3, <2>4, <2>5, <2>6, <2>7 DEF AllocInv
<1>10. CASE AllocStore(c)
  <2>1. pc[c] = "alloc" /\ Return(c) /\ loaded' = loaded /\ dmpc # "alloc"
    BY <1>1, <1>10 DEF AllocStore
  <2>2. program[c] # << >> /\ Call(c) \in {"l1alloc", "l3alloc"}
    BY <1>1, <2>1 DEF PcExact, CallsAt
  <2>3. Uses(c, Call(c))
    <3>1. 1 \in DOMAIN program[c] /\ program[c][1] = Call(c)
      BY <1>4, <2>2 DEF Call
    <3>2. QED
      BY <3>1 DEF Uses
  <2>4. \A d \in Clients, call \in {"l1alloc", "l3alloc"} : Uses(d, call)' => Uses(d, call)
    BY <2>1, <2>2, ReturnUses DEF Control
  <2>5. \A call \in {"l1alloc", "l3alloc"} : \A d, e \in Clients : Uses(d, call)' /\ Uses(e, call)' => d = e
    BY <2>4 DEF AllocInv
  <2>6. pc'[c] # "alloc"
    BY <1>1, <1>4, <1>5, <2>1, <2>2 DEF Return
  <2>7. \A d \in Clients : pc'[d] = "alloc" => d # c /\ pc[d] = "alloc" /\ Call(d)' = Call(d)
    BY <1>3, <2>6 DEF Call
  <2>8. \A d \in Clients : pc[d] = "alloc" => Call(d) \in {"l1alloc", "l3alloc"} /\ Uses(d, Call(d))
    <3>1. SUFFICES ASSUME NEW d \in Clients, pc[d] = "alloc" PROVE Call(d) \in {"l1alloc", "l3alloc"} /\ Uses(d, Call(d))
      OBVIOUS
    <3>2. program[d] # << >> /\ program[d] \in Seq(Calls) /\ Call(d) \in {"l1alloc", "l3alloc"}
      BY <1>1, <3>1 DEF PcExact, CallsAt
    <3>3. 1 \in DOMAIN program[d] /\ program[d][1] = Call(d)
      BY <3>2 DEF Call
    <3>4. QED
      BY <3>2, <3>3 DEF Uses
  <2>9. \A d \in Clients : pc'[d] = "alloc" => /\ Call(d)' \in {"l1alloc", "l3alloc"} \ {Call(c)}
                                               /\ loaded'[d] = IF Call(d)' = "l1alloc" THEN next ELSE l3next
    BY <2>1, <2>2, <2>3, <2>7, <2>8 DEF AllocInv
  <2>10. CASE Call(c) = "l1alloc"
    <3>1. L1Alloc(next, AllocSize)
      BY <1>10, <2>1, <2>10 DEF AllocStore, AllocInv
    <3>2. /\ next' \in Nat /\ MemStart <= next' /\ next' % MIN_CHUNK_SIZE = 0 /\ l3next' \in Nat
          /\ Below(regions, next)' /\ Below(l3regions, l3next)'
          /\ \A i \in DOMAIN regions' : /\ regions'[i][1] % MIN_CHUNK_SIZE = 0 /\ MemStart <= regions'[i][1]
                                        /\ regions'[i][1] + regions'[i][2] <= MemEnd
          /\ l3next' = l3next
      BY <3>1, L1AllocKeeps, SizeAssumption
    <3>3. \A d \in Clients : pc'[d] = "alloc" => loaded'[d] = IF Call(d)' = "l1alloc" THEN next' ELSE l3next'
      BY <2>9, <2>10, <3>2
    <3>4. loaded' \in [Clients \cup {"dm"} -> Nat]
      BY <2>1 DEF AllocInv
    <3>5. QED
      BY <1>2, <2>1, <2>5, <3>2, <3>3, <3>4 DEF AllocInv
  <2>11. CASE Call(c) = "l3alloc"
    <3>1. L3Alloc(l3next, AllocSize)
      BY <1>10, <2>1, <2>11 DEF AllocStore, AllocInv
    <3>2. UNCHANGED <<next, regions>> /\ l3next' = l3next + AllocSize /\ l3regions' = Append(l3regions, <<l3next, AllocSize>>)
      BY <3>1 DEF L3Alloc, l1Vars
    <3>3. l3next \in Nat /\ AllocSize \in Nat /\ Below(l3regions, l3next)
      BY SizeAssumption DEF AllocInv
    <3>4. Below(Append(l3regions, <<l3next, AllocSize>>), l3next + AllocSize)
      BY <3>3, BelowAppend
    <3>5. /\ Below(l3regions, l3next)' /\ Below(regions, next)'
          /\ l3next' \in Nat /\ next' \in Nat /\ MemStart <= next' /\ next' % MIN_CHUNK_SIZE = 0
          /\ \A i \in DOMAIN regions' : /\ regions'[i][1] % MIN_CHUNK_SIZE = 0 /\ MemStart <= regions'[i][1]
                                        /\ regions'[i][1] + regions'[i][2] <= MemEnd
      <4>1. Below(l3regions, l3next)'
        BY <3>2, <3>4 DEF Below, Disjoint
      <4>2. Below(regions, next)'
        BY <3>2 DEF Below, Disjoint, AllocInv
      <4>3. QED
        BY <3>2, <3>3, <4>1, <4>2 DEF AllocInv
    <3>6. \A d \in Clients : pc'[d] = "alloc" => loaded'[d] = IF Call(d)' = "l1alloc" THEN next' ELSE l3next'
      BY <2>9, <2>11, <3>2
    <3>7. loaded' \in [Clients \cup {"dm"} -> Nat]
      BY <2>1 DEF AllocInv
    <3>8. QED
      BY <1>2, <2>1, <2>5, <3>2, <3>5, <3>6, <3>7 DEF AllocInv
  <2>12. QED
    BY <2>2, <2>10, <2>11
<1>11. QED
  BY <1>6, <1>7, <1>8, <1>9, <1>10 DEF ClientStep

LEMMA DaemonAlloc ==
  ASSUME Control, AllocInv, DmStep \/ Engine \/ OwnStep PROVE AllocInv'
<1>0. UNCHANGED <<program, pc>>
  BY DEF DmStep, DmLoad, DmAlloc, DmPublish, CheckFill, Issue, BumpBack, DropFill, CheckStat, Switch, SetValid,
         ClearRequest, CheckEmpty, CheckQuiet, Doze, Wfi, ClearIrq, Awake, Engine, OwnStep, OwnStart1d, OwnStart2d,
         OwnStart, OwnWait, OwnWaitAll, OwnRest, clientVars
<1>1. /\ \A c \in Clients : pc[c] # "init" => dm_p_global
      /\ dmpc \in Unpublished => ~dm_p_global
      /\ "dm" \notin Clients
  BY CallFacts DEF Control, ClientsExact, DaemonExact, Unpublished
<1>2. CASE DmLoad
  <2>1. UNCHANGED <<next, l3next, regions, l3regions>> /\ loaded' = [loaded EXCEPT !["dm"] = next] /\ dmpc = "own"
    BY <1>2 DEF DmLoad, l1Vars, l3Vars
  <2>2. \A c \in Clients : pc'[c] # "alloc"
    BY <1>0, <1>1, <2>1 DEF Unpublished
  <2>3. loaded \in [Clients \cup {"dm"} -> Nat] /\ next \in Nat
    BY DEF AllocInv
  <2>4. loaded' \in [Clients \cup {"dm"} -> Nat] /\ loaded'["dm"] = next
    BY <2>1, <2>3
  <2>5. QED
    BY <1>0, <2>1, <2>2, <2>4 DEF AllocInv, Below, Disjoint, Uses
<1>3. CASE DmAlloc
  <2>1. loaded' = loaded /\ dmpc = "alloc" /\ dmpc' = "publish" /\ L1Alloc(next, DmSize)
    BY <1>3 DEF DmAlloc, AllocInv
  <2>2. \A c \in Clients : pc'[c] # "alloc"
    BY <1>0, <1>1, <2>1 DEF Unpublished
  <2>3. /\ next' \in Nat /\ MemStart <= next' /\ next' % MIN_CHUNK_SIZE = 0 /\ l3next' \in Nat
        /\ Below(regions, next)' /\ Below(l3regions, l3next)'
        /\ \A i \in DOMAIN regions' : /\ regions'[i][1] % MIN_CHUNK_SIZE = 0 /\ MemStart <= regions'[i][1]
                                      /\ regions'[i][1] + regions'[i][2] <= MemEnd
    BY <2>1, L1AllocKeeps, SizeAssumption
  <2>4. loaded' \in [Clients \cup {"dm"} -> Nat]
    BY <2>1 DEF AllocInv
  <2>5. \A call \in {"l1alloc", "l3alloc"} : \A c, d \in Clients : Uses(c, call)' /\ Uses(d, call)' => c = d
    BY <1>0 DEF AllocInv, Uses
  <2>6. QED
    BY <2>1, <2>2, <2>3, <2>4, <2>5 DEF AllocInv
<1>4. CASE (DmStep \/ Engine \/ OwnStep) /\ ~DmLoad /\ ~DmAlloc
  <2>1. UNCHANGED allocVars /\ (dmpc' = "alloc" => dmpc = "alloc")
    BY <1>4 DEF DmStep, DmPublish, CheckFill, Issue, BumpBack, DropFill, CheckStat, Switch, SetValid,
         ClearRequest, CheckEmpty, CheckQuiet, Doze, Wfi, ClearIrq, Awake, Engine, OwnStep, OwnStart1d, OwnStart2d,
         OwnStart, OwnWait, OwnWaitAll, OwnRest, DmGoto, EndOfLoop, dmVars
  <2>2. QED
    BY <1>0, <2>1, AllocKept
<1>5. QED
  BY <1>2, <1>3, <1>4

(* No region of the allocator overlaps another although it takes no lock,  *)
(* and those in L1 lie, aligned, in the cluster's memory: alloc.c, for one *)
(* core that allocates in each memory after dm_init.                       *)
THEOREM AllocatorCorrect == Spec => []RegionsDisjoint
<1>1. Control /\ AllocInv /\ [Next]_vars => AllocInv'
  <2> SUFFICES ASSUME Control, AllocInv, [Next]_vars PROVE AllocInv'
    OBVIOUS
  <2>1. CASE UNCHANGED vars
    BY <2>1, AllocKept DEF vars, clientVars, dmVars
  <2>2. CASE Next
    BY <2>2, ClientAlloc, DaemonAlloc DEF Next, DaemonStep
  <2>3. QED
    BY <2>1, <2>2
<1>2. AllocInv => RegionsDisjoint
  BY DEF AllocInv, RegionsDisjoint, Below
<1>3. QED
  BY <1>1, <1>2, AllocInit2, ControlCorrect, PTL DEF Spec
------------------------------------------------------------------------------
(* Remainders, for any size of the queue and any width of the identifiers. *)
LEMMA DivMod ==
  ASSUME NEW n \in Nat \ {0}, NEW a \in Int
  PROVE  \E q \in Int, r \in 0..(n-1) : a = n * q + r /\ a % n = r
<1>1. a % n \in 0..(n-1)
  OBVIOUS
<1>2. a \div n \in Int
  OBVIOUS
<1>3. a = n * (a \div n) + (a % n)
  OBVIOUS
<1>4. QED
  BY <1>1, <1>2, <1>3

LEMMA ModOf ==
  ASSUME NEW n \in Nat \ {0}, NEW q \in Int, NEW r \in 0..(n-1)
  PROVE  (n * q + r) % n = r
OBVIOUS

LEMMA ModIs ==
  ASSUME NEW n \in Nat \ {0}, NEW q \in Int, NEW r \in 0..(n-1), NEW a, a = n * q + r
  PROVE  a % n = r
BY ModOf

(* An offset may be added before or after the remainder is taken.          *)
LEMMA ModAdd ==
  ASSUME NEW n \in Nat \ {0}, NEW a \in Int, NEW b \in Int
  PROVE  ((a % n) + b) % n = (a + b) % n
<1>1. PICK q \in Int, r \in 0..(n-1) : a = n * q + r /\ a % n = r
  BY DivMod
<1>2. PICK c \in Int : c = r + b
  OBVIOUS
<1>3. PICK p \in Int, s \in 0..(n-1) : c = n * p + s /\ c % n = s
  BY DivMod
<1>4. PICK t \in Int : t = q + p
  OBVIOUS
<1>5. a + b = n * t + s
  <2>1. n * t = n * q + n * p
    BY <1>4
  <2>2. a + b = n * q + c
    BY <1>1, <1>2
  <2>3. QED
    BY <1>3, <2>1, <2>2
<1>6. (a + b) % n = s
  <2>1. PICK d \in Int : d = a + b
    OBVIOUS
  <2>2. d = n * t + s /\ t \in Int /\ s \in 0..(n-1)
    BY <1>3, <1>5, <2>1
  <2>3. d % n = s
    BY <2>2, ModIs
  <2>4. QED
    BY <2>1, <2>3
<1>7. QED
  BY <1>1, <1>2, <1>3, <1>6

LEMMA ModNext ==
  ASSUME NEW n \in Nat \ {0}, NEW a \in Int
  PROVE  ((a % n) + 1) % n = (a + 1) % n
<1>1. \A b \in Int : ((a % n) + b) % n = (a + b) % n
  BY ModAdd
<1>2. QED
  BY <1>1

(* Places are the same if their distance is a multiple of the size.        *)
LEMMA ModSame ==
  ASSUME NEW n \in Nat \ {0}, NEW a \in Int, NEW b \in Int
  PROVE  a % n = b % n <=> (b - a) % n = 0
<1>1. PICK q \in Int, r \in 0..(n-1) : a = n * q + r /\ a % n = r
  BY DivMod
<1>2. PICK d \in Int : d = b - a
  OBVIOUS
<1>3. PICK t \in Int, s \in 0..(n-1) : d = n * t + s /\ d % n = s
  BY DivMod
<1>4. ASSUME s = 0 PROVE b % n = r
  <2>1. PICK u \in Int : u = q + t
    OBVIOUS
  <2>2. n * u = n * q + n * t
    BY <2>1
  <2>3. b = n * u + r
    BY <1>1, <1>2, <1>3, <1>4, <2>2
  <2>4. QED
    BY <2>3, ModIs
<1>5. ASSUME b % n = r PROVE s = 0
  <2>1. PICK p \in Int, v \in 0..(n-1) : b = n * p + v /\ b % n = v
    BY DivMod
  <2>2. PICK u \in Int : u = p - q
    OBVIOUS
  <2>3. n * u = n * p - n * q
    BY <2>2
  <2>4. d = n * u + 0 /\ 0 \in 0..(n-1)
    BY <1>1, <1>2, <1>5, <2>1, <2>3
  <2>5. d % n = 0
    BY <2>4, ModIs
  <2>6. QED
    BY <1>3, <2>5
<1>6. QED
  BY <1>1, <1>2, <1>3, <1>4, <1>5
------------------------------------------------------------------------------
LEMMA HeadTail ==
  ASSUME NEW T, NEW s \in Seq(T), s # << >>
  PROVE  /\ Head(s) \in T /\ Head(s) = s[1] /\ Tail(s) \in Seq(T)
         /\ Len(s) \in Nat \ {0} /\ Len(Tail(s)) = Len(s) - 1
         /\ \A i \in 1..(Len(s) - 1) : Tail(s)[i] = s[i + 1]
OBVIOUS

(* The queue, also where its fill level exceeds its size and two places in *)
(* it are one entry.  Without the entry that the DM core has handed on,    *)
(* and with the one of a client that has raised the fill level and not yet *)
(* moved the front, it holds Filled jobs from BackPlace on, and the front  *)
(* is Filled places further.                                               *)
Filled == IF dmpc \in {"back", "unfill"} THEN queue_fill - 1 ELSE queue_fill
BackPlace == IF dmpc = "back" THEN queue_back + 1 ELSE queue_back
Ahead == IF \E c \in Clients : pc[c] = "front" THEN 1 ELSE 0

QueueInv ==
  /\ queue_back \in 0..(Size - 1) /\ queue_front \in 0..(Size - 1) /\ queue_fill \in Nat
  /\ queue = [i \in 0..(Size - 1) |-> queue[i]]
  /\ dmpc \in {"issue", "back", "unfill"} => queue_fill >= 1
  /\ (BackPlace + Filled) % Size = (queue_front + Ahead) % Size
  /\ \A i \in 1..Filled : queue[(BackPlace + i - 1) % Size] \in Jobs
  /\ \A c \in Clients : pc[c] = "fill" =>
       queue[queue_front] \in Jobs /\ \E b \in BOOLEAN : queue[queue_front] = <<c, queued[c] + 1, b>>
  /\ started \in Seq(Jobs)

(* A client's jobs are numbered within the bound.                          *)
CountInv ==
  /\ queued \in [Clients -> Nat]
  /\ \A c \in Clients : queued[c] + Len(program[c]) <=
       MaxJobs + (IF pc[c] \in {"front", "release"} /\ Call(c) \in Copies THEN 1 ELSE 0)

LEMMA SizeFacts == Size \in Nat \ {0} /\ Size >= 1
BY SizeAssumption DEF Size

LEMMA WaitingIs ==
  /\ Waiting = [i \in 1..Filled |-> queue[(BackPlace + i - 1) % Size]]
  /\ QueueInv => Filled \in 0..queue_fill /\ BackPlace \in Nat /\ Waiting \in Seq(Jobs) /\ Len(Waiting) = Filled
<1>1. Waiting = [i \in 1..Filled |-> queue[(BackPlace + i - 1) % Size]]
  BY DEF Waiting, Filled, BackPlace
<1>2. ASSUME QueueInv PROVE Filled \in 0..queue_fill /\ BackPlace \in Nat /\ Waiting \in Seq(Jobs) /\ Len(Waiting) = Filled
  <2>1. Filled \in 0..queue_fill /\ BackPlace \in Nat
    BY <1>2, SizeFacts DEF QueueInv, Filled, BackPlace
  <2>2. \A i \in 1..Filled : queue[(BackPlace + i - 1) % Size] \in Jobs
    BY <1>2 DEF QueueInv
  <2>3. Filled \in Nat
    BY <1>2, <2>1 DEF QueueInv
  <2>4. Waiting \in Seq(Jobs) /\ Len(Waiting) = Filled
    BY <1>1, <2>2, <2>3
  <2>5. QED
    BY <2>1, <2>4
<1>3. QED
  BY <1>1, <1>2

(* The same of the state after a step.                                     *)
LEMMA WaitingNext ==
  /\ Waiting' = [i \in 1..Filled' |-> queue'[(BackPlace' + i - 1) % Size]]
  /\ QueueInv' => Filled' \in 0..queue_fill' /\ BackPlace' \in Nat /\ Waiting' \in Seq(Jobs) /\ Len(Waiting') = Filled'
<1>1. Waiting' = [i \in 1..Filled' |-> queue'[(BackPlace' + i - 1) % Size]]
  BY DEF Waiting, Filled, BackPlace
<1>2. ASSUME QueueInv' PROVE Filled' \in 0..queue_fill' /\ BackPlace' \in Nat /\ Waiting' \in Seq(Jobs) /\ Len(Waiting') = Filled'
  <2>1. Filled' \in 0..queue_fill' /\ BackPlace' \in Nat
    BY <1>2, SizeFacts DEF QueueInv, Filled, BackPlace
  <2>2. \A i \in 1..Filled' : queue'[(BackPlace' + i - 1) % Size] \in Jobs
    BY <1>2 DEF QueueInv
  <2>3. Filled' \in Nat
    BY <1>2, <2>1 DEF QueueInv
  <2>4. Waiting' \in Seq(Jobs) /\ Len(Waiting') = Filled'
    BY <1>1, <2>2, <2>3
  <2>5. QED
    BY <2>1, <2>4
<1>3. QED
  BY <1>1, <1>2

LEMMA QueueInit == Init => QueueInv /\ CountInv /\ Waiting = << >> /\ started = << >>
<1> SUFFICES ASSUME Init PROVE QueueInv /\ CountInv /\ Waiting = << >> /\ started = << >>
  OBVIOUS
<1>1. Filled = 0 /\ BackPlace = 0 /\ Ahead = 0
  BY DEF Init, Filled, BackPlace, Ahead
<1>2. QueueInv
  BY <1>1, SizeFacts DEF Init, QueueInv
<1>3. CountInv
  <2>1. \A c \in Clients : program[c] \in Seq(Calls) /\ Len(program[c]) <= MaxJobs
    BY ProgramsAssumption DEF Init
  <2>2. QED
    BY <2>1, SizeAssumption DEF Init, CountInv
<1>4. Waiting = << >>
  BY <1>1, <1>2, WaitingIs
<1>5. QED
  BY <1>2, <1>3, <1>4 DEF Init

(* The steps of a client: it inserts, bumps, releases, or leaves the queue *)
(* alone.                                                                  *)
OffQueue(c) ==
  /\ UNCHANGED <<queue, queue_front, queue_back, queue_fill, queued>>
  /\ pc[c] \notin {"fill", "front", "insert"} /\ pc'[c] \notin {"fill", "front"}
  /\ \/ program'[c] = program[c] /\ (pc'[c] = "release" => Call(c) \notin Copies) /\ pc[c] # "release"
     \/ program[c] # << >> /\ program'[c] = Tail(program[c]) /\ pc'[c] # "release"

LEMMA ClientOnQueue ==
  ASSUME Control, NEW c \in Clients, ClientStep(c) \/ Lock(c)
  PROVE  InsertOned(c) \/ InsertTwod(c) \/ BumpFill(c) \/ BumpFront(c) \/ OffQueue(c)
<1>1. /\ program \in [Clients -> Seq(Calls)] /\ pc \in [Clients -> ClientLabels] /\ PcExact(c)
  BY DEF Control, ClientsExact
<1>2. program[c] \in Seq(Calls) /\ (program[c] # << >> => Tail(program[c]) \in Seq(Calls))
  BY <1>1
<1>3. \A calls \in Seq(Calls) : First(calls) \notin {"fill", "front", "release"}
  BY FirstFacts
<1>4. ASSUME NEW to, Goto(c, to) PROVE pc'[c] = to /\ program'[c] = program[c]
  BY <1>1, <1>4 DEF Goto
<1>5. ASSUME Return(c), program[c] # << >>
      PROVE  program'[c] = Tail(program[c]) /\ pc'[c] \notin {"fill", "front", "release"}
  <2>1. program'[c] = Tail(program[c]) /\ pc'[c] = First(Tail(program[c]))
    BY <1>1, <1>5 DEF Return
  <2>2. QED
    BY <1>2, <1>3, <1>5, <2>1
<1>6. CASE ClientInit(c) \/ Poll(c) \/ AwaitWfi(c) \/ Drain(c) \/ Quiet(c) \/ ClearValid(c) \/ Ask(c) \/ AllocLoad(c)
  <2>1. UNCHANGED <<queue, queue_front, queue_back, queue_fill, queued>>
    BY <1>6 DEF ClientInit, Poll, AwaitWfi, Drain, Quiet, ClearValid, Ask, AllocLoad, queueVars
  <2>2. pc[c] \in {"init", "poll", "wake", "wake2", "drain", "quiet", "clear", "ask", "load"}
    BY <1>6 DEF ClientInit, Poll, AwaitWfi, Drain, Quiet, ClearValid, Ask, AllocLoad
  <2>3. Goto(c, First(program[c])) \/ \E to \in {"lock", "set", "set2", "quiet", "ask", "wake2", "alloc"} : Goto(c, to)
    BY <1>6 DEF ClientInit, Poll, AwaitWfi, Drain, Quiet, ClearValid, Ask, AllocLoad
  <2>4. program'[c] = program[c] /\ pc'[c] \notin {"fill", "front", "release"}
    BY <1>2, <1>3, <1>4, <2>3
  <2>5. QED
    BY <2>1, <2>2, <2>4 DEF OffQueue
<1>7. CASE Lock(c)
  <2>1. UNCHANGED <<queue, queue_front, queue_back, queue_fill, queued>> /\ pc[c] = "lock"
    BY <1>7 DEF Lock, queueVars
  <2>2. Goto(c, "insert") \/ Goto(c, "clear")
    BY <1>7 DEF Lock
  <2>3. program'[c] = program[c] /\ pc'[c] \notin {"fill", "front", "release"}
    BY <1>4, <2>2
  <2>4. QED
    BY <2>1, <2>3 DEF OffQueue
<1>8. CASE Answer(c)
  <2>1. UNCHANGED <<queue, queue_front, queue_back, queue_fill, queued>> /\ pc[c] = "answer" /\ Goto(c, "release")
    BY <1>8 DEF Answer, queueVars
  <2>2. Call(c) \notin Copies
    BY <1>1, <2>1 DEF PcExact, CallsAt, Copies
  <2>3. program'[c] = program[c] /\ pc'[c] = "release"
    BY <1>4, <2>1
  <2>4. QED
    BY <2>1, <2>2, <2>3 DEF OffQueue
<1>9. CASE Release(c) \/ AllocStore(c)
  <2>1. UNCHANGED <<queue, queue_front, queue_back, queue_fill, queued>> /\ pc[c] \in {"release", "alloc"} /\ Return(c)
    BY <1>9 DEF Release, AllocStore, queueVars
  <2>2. program[c] # << >>
    BY <1>1, <2>1 DEF PcExact
  <2>3. program'[c] = Tail(program[c]) /\ pc'[c] \notin {"fill", "front", "release"}
    BY <1>5, <2>1, <2>2
  <2>4. QED
    BY <2>1, <2>2, <2>3 DEF OffQueue
<1>10. CASE SetIrq(c)
  <2>1. UNCHANGED <<queue, queue_front, queue_back, queue_fill, queued>> /\ pc[c] \in {"set", "set2"}
    BY <1>10 DEF SetIrq, queueVars
  <2>2. program[c] # << >> /\ Call(c) \in {"start", "exit", "wait", "ready"}
    BY <1>1, <2>1 DEF PcExact, CallsAt
  <2>3. CASE Return(c)
    <3>1. program'[c] = Tail(program[c]) /\ pc'[c] \notin {"fill", "front", "release"}
      BY <1>5, <2>2, <2>3
    <3>2. QED
      BY <2>1, <2>2, <3>1 DEF OffQueue
  <2>4. CASE ~Return(c)
    <3>1. Goto(c, IF pc[c] = "set" THEN "drain" ELSE "answer")
      BY <1>10, <2>2, <2>4 DEF SetIrq
    <3>2. program'[c] = program[c] /\ pc'[c] \notin {"fill", "front", "release"}
      BY <1>4, <3>1
    <3>3. QED
      BY <2>1, <3>2 DEF OffQueue
  <2>5. QED
    BY <2>3, <2>4
<1>11. QED
  BY <1>6, <1>7, <1>8, <1>9, <1>10 DEF ClientStep

(* A step that neither queues nor starts a job.                            *)
LEMMA QueueKept ==
  ASSUME QueueInv, UNCHANGED <<queue, queue_back, queue_front, queue_fill, started>>,
         Filled' = Filled, BackPlace' = BackPlace, Ahead' = Ahead,
         \A c \in Clients : pc'[c] = "fill" => pc[c] = "fill" /\ queued'[c] = queued[c],
         dmpc' \in {"issue", "back", "unfill"} => queue_fill >= 1
  PROVE  QueueInv' /\ Waiting' = Waiting
<1>1. Waiting' = Waiting
  BY WaitingIs DEF Waiting, Filled, BackPlace
<1>2. \A i \in 1..Filled' : queue'[(BackPlace' + i - 1) % Size] \in Jobs
  BY DEF QueueInv
<1>3. queue' = [i \in 0..(Size - 1) |-> queue'[i]]
  BY DEF QueueInv
<1>4. QED
  BY <1>1, <1>2, <1>3 DEF QueueInv

LEMMA CountKept ==
  ASSUME Control, CountInv, NEW c \in Clients, OffQueue(c), \A d \in Clients \ {c} : pc'[d] = pc[d] /\ program'[d] = program[d]
  PROVE  CountInv'
<1>1. program[c] \in Seq(Calls) /\ queued \in [Clients -> Nat] /\ queued' = queued
  BY DEF Control, ClientsExact, CountInv, OffQueue
<1>2. queued[c] + Len(program[c]) <= MaxJobs + (IF pc[c] = "release" /\ Call(c) \in Copies THEN 1 ELSE 0)
  BY DEF CountInv, OffQueue
<1>3. queued'[c] + Len(program'[c]) <= MaxJobs + (IF pc'[c] \in {"front", "release"} /\ Call(c)' \in Copies THEN 1 ELSE 0)
  <2>1. CASE program'[c] = program[c] /\ (pc'[c] = "release" => Call(c) \notin Copies) /\ pc[c] # "release"
    <3>1. queued'[c] + Len(program'[c]) <= MaxJobs
      BY <1>1, <1>2, <2>1, SizeAssumption
    <3>2. pc'[c] \in {"front", "release"} => Call(c)' \notin Copies
      BY <2>1 DEF OffQueue, Call
    <3>3. QED
      BY <3>1, <3>2, SizeAssumption
  <2>2. CASE program[c] # << >> /\ program'[c] = Tail(program[c]) /\ pc'[c] # "release"
    <3>1. Len(program'[c]) = Len(program[c]) - 1 /\ Len(program[c]) \in Nat
      BY <1>1, <2>2
    <3>2. queued'[c] + Len(program'[c]) <= MaxJobs
      BY <1>1, <1>2, <3>1, SizeAssumption
    <3>3. pc'[c] \notin {"front", "release"}
      BY <2>2 DEF OffQueue
    <3>4. QED
      BY <3>2, <3>3, SizeAssumption
  <2>3. QED
    BY <2>1, <2>2 DEF OffQueue
<1>4. \A d \in Clients \ {c} : queued'[d] + Len(program'[d]) <=
         MaxJobs + (IF pc'[d] \in {"front", "release"} /\ Call(d)' \in Copies THEN 1 ELSE 0)
  BY <1>1 DEF CountInv, Call
<1>5. QED
  BY <1>1, <1>3, <1>4 DEF CountInv

LEMMA OffQueueKeeps ==
  ASSUME Control, QueueInv, CountInv, NEW c \in Clients, ClientStep(c) \/ Lock(c), OffQueue(c)
  PROVE  QueueInv' /\ CountInv' /\ UNCHANGED <<Waiting, started, queued>>
<1>1. \A d \in Clients \ {c} : pc'[d] = pc[d] /\ program'[d] = program[d]
  BY OthersKept
<1>2. UNCHANGED <<dmpc, started>>
  BY DEF ClientStep, ClientInit, Poll, Lock, Insert, InsertOned, InsertTwod, BumpFill, BumpFront, Release,
         AwaitWfi, SetIrq, Drain, Quiet, ClearValid, Ask, Answer, AllocLoad, AllocStore, dmVars, engineVars
<1>3. Filled' = Filled /\ BackPlace' = BackPlace
  BY <1>2 DEF Filled, BackPlace, OffQueue
<1>4. Ahead' = Ahead
  BY <1>1 DEF Ahead, OffQueue
<1>5. dmpc' \in {"issue", "back", "unfill"} => queue_fill >= 1
  BY <1>2 DEF QueueInv
<1>6. QueueInv' /\ Waiting' = Waiting
  BY <1>1, <1>2, <1>3, <1>4, <1>5, QueueKept DEF OffQueue
<1>7. QED
  BY <1>1, <1>2, <1>6, CountKept DEF OffQueue

(* The places of the entry at the front.                                   *)
LEMMA FrontPlaces ==
  ASSUME QueueInv, Ahead = 0
  PROVE  /\ queue_front = (BackPlace + Filled) % Size /\ queue_front \in 0..(Size - 1)
         /\ \A i \in 1..Filled : /\ (BackPlace + i - 1) % Size \in 0..(Size - 1)
                                 /\ (BackPlace + i - 1) % Size = queue_front <=> (Filled + 1 - i) % Size = 0
<1>1. Filled \in 0..queue_fill /\ queue_fill \in Nat /\ BackPlace \in Nat /\ Size \in Nat \ {0}
  BY WaitingIs, SizeFacts DEF QueueInv
<1>2. queue_front = (BackPlace + Filled) % Size /\ queue_front \in 0..(Size - 1)
  <2>1. (BackPlace + Filled) % Size = (queue_front + 0) % Size /\ queue_front \in 0..(Size - 1)
    BY DEF QueueInv
  <2>2. queue_front + 0 = Size * 0 + queue_front
    BY <1>1, <2>1
  <2>3. (queue_front + 0) % Size = queue_front
    BY <1>1, <2>1, <2>2, ModIs
  <2>4. QED
    BY <2>1, <2>3
<1>3. ASSUME NEW i \in 1..Filled
      PROVE  /\ (BackPlace + i - 1) % Size \in 0..(Size - 1)
             /\ (BackPlace + i - 1) % Size = queue_front <=> (Filled + 1 - i) % Size = 0
  <2>1. PICK a \in Int : a = BackPlace + i - 1
    BY <1>1
  <2>2. PICK b \in Int : b = BackPlace + Filled
    BY <1>1
  <2>3. a % Size = b % Size <=> (b - a) % Size = 0
    BY <1>1, ModSame
  <2>4. b - a = Filled + 1 - i
    BY <1>1, <2>1, <2>2
  <2>5. a % Size \in 0..(Size - 1)
    BY <1>1, DivMod
  <2>6. QED
    BY <1>2, <2>1, <2>2, <2>3, <2>4, <2>5
<1>4. QED
  BY <1>2, <1>3

(* Where a client is inserting, it alone is, and no other is at front.     *)
LEMMA InsertAlone ==
  ASSUME Control, NEW c \in Clients, pc[c] \in {"insert", "fill", "front"}
  PROVE  /\ \A d \in Clients \ {c} : pc[d] \notin {"insert", "fill", "front"}
         /\ program[c] \in Seq(Calls) /\ program[c] # << >> /\ Call(c) \in Copies
<1>1. \A d \in Clients : pc[d] \in {"insert", "fill", "front"} => mutex = d
  BY DEF Control, ClientsExact, HoldsAt
<1>2. PcExact(c) /\ program[c] \in Seq(Calls)
  BY DEF Control, ClientsExact
<1>3. QED
  BY <1>1, <1>2 DEF PcExact, CallsAt

(* The job written at the front is then also that of the places before it  *)
(* that are the same entry.                                                *)
Overwritten(s, j) == [i \in 1..Len(s) |-> IF (Len(s) + 1 - i) % Size = 0 THEN j ELSE s[i]]

LEMMA InsertWrites ==
  ASSUME Control, QueueInv, CountInv, NEW c \in Clients, InsertOned(c) \/ InsertTwod(c)
  PROVE  /\ QueueInv' /\ CountInv' /\ UNCHANGED <<started, queued>>
         /\ \E b \in BOOLEAN : /\ <<c, queued[c] + 1, b>> \in Jobs
                               /\ queue'[queue_front'] = <<c, queued[c] + 1, b>>
                               /\ Waiting' = Overwritten(Waiting, <<c, queued[c] + 1, b>>)
<1>1. PICK b \in BOOLEAN : Insert(c, b) /\ pc[c] = "insert"
  BY DEF InsertOned, InsertTwod
<1>2. /\ UNCHANGED <<queue_back, queue_front, queue_fill, dmpc, started, queued, program>>
      /\ queue' = [queue EXCEPT ![queue_front] = <<c, queued[c] + 1, b>>]
      /\ pc' = [pc EXCEPT ![c] = "fill"]
  BY <1>1 DEF Insert, Goto, dmVars, engineVars
<1>3. /\ \A d \in Clients \ {c} : pc[d] \notin {"insert", "fill", "front"}
      /\ program[c] \in Seq(Calls) /\ program[c] # << >> /\ Call(c) \in Copies
  BY <1>1, InsertAlone
<1>4. pc'[c] = "fill" /\ \A d \in Clients \ {c} : pc'[d] = pc[d]
  BY <1>2 DEF Control, ClientsExact
<1>5. Ahead = 0 /\ Ahead' = 0
  BY <1>1, <1>3, <1>4 DEF Ahead
<1>6. Filled' = Filled /\ BackPlace' = BackPlace
  BY <1>2 DEF Filled, BackPlace
<1>7. /\ queue_front \in 0..(Size - 1)
      /\ \A i \in 1..Filled : /\ (BackPlace + i - 1) % Size \in 0..(Size - 1)
                              /\ (BackPlace + i - 1) % Size = queue_front <=> (Filled + 1 - i) % Size = 0
  BY <1>5, FrontPlaces
<1>8. queue = [i \in 0..(Size - 1) |-> queue[i]]
  BY DEF QueueInv
<1>9. PICK j : j = <<c, queued[c] + 1, b>>
  OBVIOUS
<1>10. j \in Jobs
  <2>1. Len(program[c]) >= 1 /\ Len(program[c]) \in Nat
    BY <1>3
  <2>2. queued[c] \in Nat /\ queued[c] + Len(program[c]) <= MaxJobs
    BY <1>1, SizeAssumption DEF CountInv
  <2>3. queued[c] + 1 \in 1..MaxJobs
    BY <2>1, <2>2, SizeAssumption
  <2>4. QED
    BY <1>9, <2>3 DEF Jobs
<1>11. /\ queue'[queue_front] = j
       /\ \A i \in 1..Filled : queue'[(BackPlace + i - 1) % Size] =
              IF (Filled + 1 - i) % Size = 0 THEN j ELSE queue[(BackPlace + i - 1) % Size]
       /\ queue' = [i \in 0..(Size - 1) |-> queue'[i]]
  BY <1>2, <1>7, <1>8, <1>9
<1>12. \A i \in 1..Filled' : queue'[(BackPlace' + i - 1) % Size] \in Jobs
  BY <1>6, <1>10, <1>11 DEF QueueInv
<1>13. \A d \in Clients : pc'[d] = "fill" =>
          queue'[queue_front'] \in Jobs /\ \E e \in BOOLEAN : queue'[queue_front'] = <<d, queued'[d] + 1, e>>
  BY <1>2, <1>3, <1>4, <1>9, <1>10, <1>11
<1>14. QueueInv'
  BY <1>2, <1>5, <1>6, <1>11, <1>12, <1>13 DEF QueueInv
<1>15. Waiting' = Overwritten(Waiting, j)
  <2>1. Waiting' = [i \in 1..Filled |-> queue'[(BackPlace + i - 1) % Size]]
    BY <1>6, WaitingNext
  <2>2. Waiting = [i \in 1..Filled |-> queue[(BackPlace + i - 1) % Size]] /\ Len(Waiting) = Filled
    BY WaitingIs
  <2>3. Overwritten(Waiting, j) = [i \in 1..Filled |-> IF (Filled + 1 - i) % Size = 0 THEN j ELSE Waiting[i]]
    BY <2>2 DEF Overwritten
  <2>4. QED
    BY <1>11, <2>1, <2>2, <2>3
<1>16. CountInv'
  <2>1. queued[c] + Len(program[c]) <= MaxJobs
    BY <1>1, SizeAssumption DEF CountInv
  <2>2. QED
    BY <1>2, <1>4, <2>1, SizeAssumption DEF CountInv, Call
<1>17. queue'[queue_front'] = j
  BY <1>2, <1>11
<1>18. QED
  BY <1>2, <1>9, <1>10, <1>14, <1>15, <1>16, <1>17

LEMMA BumpFillQueues ==
  ASSUME Control, QueueInv, CountInv, NEW c \in Clients, BumpFill(c)
  PROVE  /\ QueueInv' /\ CountInv' /\ UNCHANGED started /\ queued' = [queued EXCEPT ![c] = @ + 1]
         /\ \E b \in BOOLEAN : /\ <<c, queued[c] + 1, b>> \in Jobs /\ queue[queue_front] = <<c, queued[c] + 1, b>>
                               /\ Waiting' = Append(Waiting, <<c, queued[c] + 1, b>>)
<1>1. /\ UNCHANGED <<queue, queue_back, queue_front, dmpc, started, program>> /\ queue_fill' = queue_fill + 1
      /\ queued' = [queued EXCEPT ![c] = @ + 1] /\ pc' = [pc EXCEPT ![c] = "front"] /\ pc[c] = "fill"
  BY DEF BumpFill, Goto, dmVars, engineVars
<1>2. /\ \A d \in Clients \ {c} : pc[d] \notin {"insert", "fill", "front"}
      /\ program[c] \in Seq(Calls) /\ program[c] # << >> /\ Call(c) \in Copies
  BY <1>1, InsertAlone
<1>3. pc'[c] = "front" /\ \A d \in Clients \ {c} : pc'[d] = pc[d]
  BY <1>1 DEF Control, ClientsExact
<1>4. Ahead = 0 /\ Ahead' = 1
  BY <1>1, <1>2, <1>3 DEF Ahead
<1>5. Filled' = Filled + 1 /\ BackPlace' = BackPlace /\ Filled \in 0..queue_fill /\ BackPlace \in Nat
      /\ queue_fill \in Nat /\ Size \in Nat \ {0}
  <2>1. Filled \in 0..queue_fill /\ BackPlace \in Nat /\ queue_fill \in Nat /\ Size \in Nat \ {0}
    BY WaitingIs, SizeFacts DEF QueueInv
  <2>2. BackPlace' = BackPlace
    BY <1>1 DEF BackPlace
  <2>3. Filled' = Filled + 1
    BY <1>1, <2>1 DEF Filled
  <2>4. QED
    BY <2>1, <2>2, <2>3
<1>6. queue_front = (BackPlace + Filled) % Size /\ queue_front \in 0..(Size - 1)
  BY <1>4, FrontPlaces
<1>7. PICK b \in BOOLEAN : queue[queue_front] = <<c, queued[c] + 1, b>> /\ <<c, queued[c] + 1, b>> \in Jobs
  BY <1>1 DEF QueueInv
<1>8. \A i \in 1..Filled' : queue[(BackPlace + i - 1) % Size] \in Jobs
  <2>1. SUFFICES ASSUME NEW i \in 1..Filled' PROVE queue[(BackPlace + i - 1) % Size] \in Jobs
    OBVIOUS
  <2>2. CASE i \in 1..Filled
    BY <2>2 DEF QueueInv
  <2>3. CASE i = Filled + 1
    <3>1. BackPlace + i - 1 = BackPlace + Filled
      BY <1>5, <2>3
    <3>2. QED
      BY <1>6, <1>7, <3>1
  <2>4. QED
    BY <1>5, <2>2, <2>3
<1>9. (BackPlace' + Filled') % Size = (queue_front' + Ahead') % Size
  <2>1. PICK a \in Int : a = BackPlace + Filled
    BY <1>5
  <2>2. ((a % Size) + 1) % Size = (a + 1) % Size
    BY <1>5, ModNext
  <2>3. a % Size = queue_front
    BY <1>6, <2>1
  <2>4. BackPlace' + Filled' = a + 1
    BY <1>5, <2>1
  <2>5. queue_front' + Ahead' = queue_front + 1
    BY <1>1, <1>4
  <2>6. QED
    BY <2>2, <2>3, <2>4, <2>5
<1>10. queue_fill' \in Nat
  BY <1>1, <1>5
<1>11. \A d \in Clients : pc'[d] # "fill"
  BY <1>2, <1>3
<1>12. dmpc' \in {"issue", "back", "unfill"} => queue_fill' >= 1
  BY <1>1, <1>5
<1>13. QueueInv'
  BY <1>1, <1>5, <1>8, <1>9, <1>10, <1>11, <1>12 DEF QueueInv
<1>14. Waiting' = Append(Waiting, <<c, queued[c] + 1, b>>)
  <2>1. Waiting' = [i \in 1..(Filled + 1) |-> queue[(BackPlace + i - 1) % Size]]
    BY <1>1, <1>5, WaitingNext
  <2>2. Waiting = [i \in 1..Filled |-> queue[(BackPlace + i - 1) % Size]] /\ Waiting \in Seq(Jobs) /\ Len(Waiting) = Filled
    BY WaitingIs
  <2>3. BackPlace + (Filled + 1) - 1 = BackPlace + Filled
    BY <1>5
  <2>4. Waiting'[Filled + 1] = <<c, queued[c] + 1, b>>
    BY <1>5, <1>6, <1>7, <2>1, <2>3
  <2>5. \A i \in 1..Filled : Waiting'[i] = Waiting[i]
    BY <1>5, <2>1, <2>2
  <2>6. Waiting' \in Seq(Jobs) /\ Len(Waiting') = Filled + 1
    BY <1>5, <1>13, WaitingNext
  <2>7. QED
    BY <1>5, <1>7, <2>2, <2>4, <2>5, <2>6
<1>15. CountInv'
  <2>1. queued[c] \in Nat /\ queued[c] + Len(program[c]) <= MaxJobs /\ Len(program[c]) \in Nat
    BY <1>1, <1>2, SizeAssumption DEF CountInv
  <2>2. queued'[c] = queued[c] + 1 /\ queued' \in [Clients -> Nat] /\ \A d \in Clients \ {c} : queued'[d] = queued[d]
    BY <1>1 DEF CountInv
  <2>3. pc'[c] \in {"front", "release"} /\ Call(c)' \in Copies
    BY <1>1, <1>2, <1>3 DEF Call
  <2>4. queued'[c] + Len(program'[c]) <= MaxJobs + 1
    BY <1>1, <2>1, <2>2, SizeAssumption
  <2>5. \A d \in Clients \ {c} : queued'[d] + Len(program'[d]) <=
          MaxJobs + (IF pc'[d] \in {"front", "release"} /\ Call(d)' \in Copies THEN 1 ELSE 0)
    BY <1>1, <1>3, <2>2 DEF CountInv, Call
  <2>6. QED
    BY <2>2, <2>3, <2>4, <2>5 DEF CountInv
<1>16. QED
  BY <1>1, <1>7, <1>13, <1>14, <1>15

LEMMA BumpFrontKeeps ==
  ASSUME Control, QueueInv, CountInv, NEW c \in Clients, BumpFront(c)
  PROVE  QueueInv' /\ CountInv' /\ UNCHANGED <<Waiting, started, queued>>
<1>1. /\ UNCHANGED <<queue, queue_back, queue_fill, dmpc, started, queued, program>> /\ queue_front' = (queue_front + 1) % Size
      /\ pc' = [pc EXCEPT ![c] = "release"] /\ pc[c] = "front"
  BY DEF BumpFront, Goto, dmVars, engineVars
<1>2. /\ \A d \in Clients \ {c} : pc[d] \notin {"insert", "fill", "front"}
      /\ program[c] \in Seq(Calls) /\ program[c] # << >> /\ Call(c) \in Copies
  BY <1>1, InsertAlone
<1>3. pc'[c] = "release" /\ \A d \in Clients \ {c} : pc'[d] = pc[d]
  BY <1>1 DEF Control, ClientsExact
<1>4. Ahead = 1 /\ Ahead' = 0
  BY <1>1, <1>2, <1>3 DEF Ahead
<1>5. Filled' = Filled /\ BackPlace' = BackPlace
  BY <1>1 DEF Filled, BackPlace
<1>6. queue_front' \in 0..(Size - 1) /\ (queue_front' + Ahead') % Size = (queue_front + Ahead) % Size
  <2>1. queue_front \in 0..(Size - 1) /\ Size \in Nat \ {0}
    BY SizeFacts DEF QueueInv
  <2>2. PICK a \in Int : a = queue_front + 1
    BY <2>1
  <2>3. PICK r \in 0..(Size - 1) : r = a % Size
    BY <2>1, DivMod
  <2>4. r = Size * 0 + r
    BY <2>1
  <2>5. r % Size = r
    BY <2>1, <2>4, ModIs
  <2>6. queue_front' = r /\ queue_front' + Ahead' = r /\ queue_front + Ahead = a
    BY <1>1, <1>4, <2>1, <2>2, <2>3
  <2>7. QED
    BY <2>3, <2>5, <2>6
<1>7. \A d \in Clients : pc'[d] # "fill"
  BY <1>2, <1>3
<1>8. QueueInv'
  BY <1>1, <1>5, <1>6, <1>7 DEF QueueInv
<1>9. Waiting' = Waiting
  BY <1>1, <1>5, WaitingIs DEF Waiting, Filled, BackPlace
<1>10. CountInv'
  BY <1>1, <1>3 DEF CountInv, Call
<1>11. QED
  BY <1>1, <1>8, <1>9, <1>10

(* The DM core hands on the job at the back, moves the back and lowers the *)
(* fill level.                                                             *)
LEMMA IssueStarts ==
  ASSUME Control, QueueInv, CountInv, Issue
  PROVE  /\ QueueInv' /\ CountInv' /\ UNCHANGED queued
         /\ Waiting # << >> /\ Head(Waiting) = queue[queue_back]
         /\ Waiting' = Tail(Waiting) /\ started' = Append(started, Head(Waiting))
<1>1. /\ UNCHANGED <<queue, queue_back, queue_front, queue_fill, pc, program, queued>>
      /\ started' = Append(started, queue[queue_back]) /\ dmpc = "issue" /\ dmpc' = "back"
  BY DEF Issue, DmGoto, queueVars, clientVars
<1>2. /\ queue_fill \in Nat \ {0} /\ queue_back \in 0..(Size - 1) /\ Size \in Nat \ {0}
      /\ \A i \in 1..Filled : queue[(BackPlace + i - 1) % Size] \in Jobs
      /\ (BackPlace + Filled) % Size = (queue_front + Ahead) % Size
  <2>1. queue_fill \in Nat \ {0} /\ queue_back \in 0..(Size - 1) /\ Size \in Nat \ {0}
    BY <1>1, SizeFacts DEF QueueInv
  <2>2. /\ \A i \in 1..Filled : queue[(BackPlace + i - 1) % Size] \in Jobs
        /\ (BackPlace + Filled) % Size = (queue_front + Ahead) % Size
    BY DEF QueueInv
  <2>3. QED
    BY <2>1, <2>2
<1>3. Filled = queue_fill /\ Filled' = queue_fill - 1 /\ BackPlace = queue_back /\ BackPlace' = queue_back + 1
  BY <1>1, <1>2 DEF Filled, BackPlace
<1>4. Ahead' = Ahead
  BY <1>1 DEF Ahead
<1>5. BackPlace' + Filled' = BackPlace + Filled
  BY <1>2, <1>3
<1>6. \A i \in 1..Filled' : i + 1 \in 1..Filled /\ BackPlace' + i - 1 = BackPlace + (i + 1) - 1
  BY <1>2, <1>3
<1>7. \A i \in 1..Filled' : queue'[(BackPlace' + i - 1) % Size] = queue[(BackPlace + (i + 1) - 1) % Size]
  BY <1>1, <1>6
<1>8. Waiting = [i \in 1..Filled |-> queue[(BackPlace + i - 1) % Size]] /\ Waiting \in Seq(Jobs) /\ Len(Waiting) = Filled
  BY WaitingIs
<1>9. Head(Waiting) = queue[queue_back] /\ Waiting # << >>
  <2>1. 1 \in 1..Filled /\ BackPlace + 1 - 1 = queue_back
    BY <1>2, <1>3
  <2>2. queue_back = Size * 0 + queue_back
    BY <1>2
  <2>3. queue_back % Size = queue_back
    BY <1>2, <2>2, ModIs
  <2>4. Waiting[1] = queue[queue_back]
    BY <1>8, <2>1, <2>3
  <2>5. QED
    BY <1>8, <2>1, <2>4
<1>10. QueueInv'
  <2>1. \A i \in 1..Filled' : queue'[(BackPlace' + i - 1) % Size] \in Jobs
    BY <1>2, <1>6, <1>7
  <2>2. started' \in Seq(Jobs)
    <3>0. started \in Seq(Jobs)
      BY DEF QueueInv
    <3>1. Head(Waiting) \in Jobs
      BY <1>8, <1>9, HeadTail
    <3>2. QED
      BY <1>1, <1>9, <3>0, <3>1
  <2>3. \A c \in Clients : pc'[c] = "fill" =>
          queue'[queue_front'] \in Jobs /\ \E b \in BOOLEAN : queue'[queue_front'] = <<c, queued'[c] + 1, b>>
    BY <1>1 DEF QueueInv
  <2>4. (BackPlace' + Filled') % Size = (queue_front' + Ahead') % Size
    BY <1>1, <1>2, <1>4, <1>5
  <2>5. queue_back' \in 0..(Size - 1) /\ queue_front' \in 0..(Size - 1) /\ queue_fill' \in Nat /\ queue_fill' >= 1
        /\ queue' = [i \in 0..(Size - 1) |-> queue'[i]]
    BY <1>1, <1>2 DEF QueueInv
  <2>6. QED
    BY <2>1, <2>2, <2>3, <2>4, <2>5 DEF QueueInv
<1>11. Waiting' = Tail(Waiting)
  <2>1. Waiting' = [i \in 1..Filled' |-> queue'[(BackPlace' + i - 1) % Size]] /\ Waiting' \in Seq(Jobs) /\ Len(Waiting') = Filled'
    BY <1>10, WaitingNext
  <2>2. \A i \in 1..Filled' : Waiting'[i] = Waiting[i + 1]
    BY <1>6, <1>7, <1>8, <2>1
  <2>3. Len(Waiting') = Len(Waiting) - 1 /\ Len(Waiting) \in Nat
    BY <1>2, <1>3, <1>8, <2>1
  <2>4. Tail(Waiting) \in Seq(Jobs) /\ Len(Tail(Waiting)) = Len(Waiting) - 1
        /\ \A i \in 1..(Len(Waiting) - 1) : Tail(Waiting)[i] = Waiting[i + 1]
    BY <1>8, <1>9, HeadTail
  <2>5. \A i \in 1..Len(Waiting') : Waiting'[i] = Tail(Waiting)[i]
    BY <2>1, <2>2, <2>3, <2>4
  <2>6. QED
    BY <2>1, <2>3, <2>4, <2>5, SeqEqual
<1>12. CountInv'
  BY <1>1 DEF CountInv, Call
<1>13. QED
  BY <1>1, <1>9, <1>10, <1>11, <1>12

LEMMA BumpBackKeeps ==
  ASSUME Control, QueueInv, CountInv, BumpBack
  PROVE  QueueInv' /\ CountInv' /\ UNCHANGED <<Waiting, started, queued>>
<1>1. /\ UNCHANGED <<queue, queue_front, queue_fill, pc, program, queued, started>>
      /\ queue_back' = (queue_back + 1) % Size /\ dmpc = "back" /\ dmpc' = "unfill"
  BY DEF BumpBack, DmGoto, clientVars, engineVars
<1>2. /\ queue_fill \in Nat \ {0} /\ queue_back \in 0..(Size - 1) /\ Size \in Nat \ {0}
      /\ \A i \in 1..Filled : queue[(BackPlace + i - 1) % Size] \in Jobs
      /\ (BackPlace + Filled) % Size = (queue_front + Ahead) % Size
  <2>1. queue_fill \in Nat \ {0} /\ queue_back \in 0..(Size - 1) /\ Size \in Nat \ {0}
    BY <1>1, SizeFacts DEF QueueInv
  <2>2. /\ \A i \in 1..Filled : queue[(BackPlace + i - 1) % Size] \in Jobs
        /\ (BackPlace + Filled) % Size = (queue_front + Ahead) % Size
    BY DEF QueueInv
  <2>3. QED
    BY <2>1, <2>2
<1>3. PICK a \in Int : a = queue_back + 1 /\ a >= 0
  BY <1>2
<1>4. Filled = queue_fill - 1 /\ Filled' = Filled /\ BackPlace = a /\ BackPlace' = a % Size /\ Filled \in Nat
  BY <1>1, <1>2, <1>3 DEF Filled, BackPlace
<1>5. Ahead' = Ahead
  BY <1>1 DEF Ahead
<1>6. a % Size \in 0..(Size - 1)
  BY <1>2, DivMod
<1>7. \A i \in Int : ((a % Size) + i) % Size = (a + i) % Size
  BY <1>2, ModAdd
<1>8. \A i \in 1..Filled : (BackPlace' + i - 1) % Size = (BackPlace + i - 1) % Size
  <2>1. SUFFICES ASSUME NEW i \in 1..Filled PROVE (BackPlace' + i - 1) % Size = (BackPlace + i - 1) % Size
    OBVIOUS
  <2>2. PICK k \in Int : k = i - 1
    BY <1>4
  <2>3. BackPlace' + i - 1 = (a % Size) + k /\ BackPlace + i - 1 = a + k
    BY <1>4, <1>6, <2>2
  <2>4. QED
    BY <1>7, <2>3
<1>9. (BackPlace' + Filled') % Size = (queue_front' + Ahead') % Size
  <2>1. Filled \in Int /\ ((a % Size) + Filled) % Size = (a + Filled) % Size
    BY <1>4, <1>7
  <2>2. BackPlace' + Filled' = (a % Size) + Filled /\ BackPlace + Filled = a + Filled
    BY <1>4
  <2>3. QED
    BY <1>1, <1>2, <1>5, <2>1, <2>2
<1>10. Waiting' = Waiting
  BY <1>1, <1>4, <1>8, WaitingIs, WaitingNext
<1>11. QueueInv'
  <2>1. \A i \in 1..Filled' : queue'[(BackPlace' + i - 1) % Size] \in Jobs
    BY <1>1, <1>2, <1>4, <1>8
  <2>2. \A c \in Clients : pc'[c] = "fill" =>
          queue'[queue_front'] \in Jobs /\ \E b \in BOOLEAN : queue'[queue_front'] = <<c, queued'[c] + 1, b>>
    BY <1>1 DEF QueueInv
  <2>3. queue_back' \in 0..(Size - 1) /\ queue_front' \in 0..(Size - 1) /\ queue_fill' \in Nat /\ queue_fill' >= 1
        /\ queue' = [i \in 0..(Size - 1) |-> queue'[i]] /\ started' \in Seq(Jobs)
    BY <1>1, <1>2, <1>3, <1>6 DEF QueueInv
  <2>4. QED
    BY <1>9, <2>1, <2>2, <2>3 DEF QueueInv
<1>12. CountInv'
  BY <1>1 DEF CountInv, Call
<1>13. QED
  BY <1>1, <1>10, <1>11, <1>12

LEMMA DropFillKeeps ==
  ASSUME Control, QueueInv, CountInv, DropFill
  PROVE  QueueInv' /\ CountInv' /\ UNCHANGED <<Waiting, started, queued>>
<1>1. /\ UNCHANGED <<queue, queue_front, queue_back, pc, program, queued, started>>
      /\ queue_fill' = queue_fill - 1 /\ dmpc = "unfill" /\ dmpc' = "stat"
  BY DEF DropFill, DmGoto, clientVars, engineVars
<1>2. /\ queue_fill \in Nat \ {0} /\ queue_back \in 0..(Size - 1) /\ Size \in Nat \ {0}
  BY <1>1, SizeFacts DEF QueueInv
<1>3. Filled' = Filled /\ BackPlace' = BackPlace /\ Ahead' = Ahead
  BY <1>1, <1>2 DEF Filled, BackPlace, Ahead
<1>4. Waiting' = Waiting
  BY <1>1, <1>3, WaitingIs, WaitingNext
<1>5. QueueInv'
  <2>1. \A c \in Clients : pc'[c] = "fill" =>
          queue'[queue_front'] \in Jobs /\ \E b \in BOOLEAN : queue'[queue_front'] = <<c, queued'[c] + 1, b>>
    BY <1>1 DEF QueueInv
  <2>2. /\ (BackPlace' + Filled') % Size = (queue_front' + Ahead') % Size
        /\ \A i \in 1..Filled' : queue'[(BackPlace' + i - 1) % Size] \in Jobs
    BY <1>1, <1>3 DEF QueueInv
  <2>3. queue_back' \in 0..(Size - 1) /\ queue_front' \in 0..(Size - 1) /\ queue_fill' \in Nat
        /\ queue' = [i \in 0..(Size - 1) |-> queue'[i]] /\ started' \in Seq(Jobs) /\ dmpc' \notin {"issue", "back", "unfill"}
    BY <1>1, <1>2 DEF QueueInv
  <2>4. QED
    BY <2>1, <2>2, <2>3 DEF QueueInv
<1>6. CountInv'
  BY <1>1 DEF CountInv, Call
<1>7. QED
  BY <1>1, <1>4, <1>5, <1>6

LEMMA DaemonQueue ==
  ASSUME Control, QueueInv, CountInv, DmStep \/ Engine \/ OwnStep, ~Issue
  PROVE  QueueInv' /\ CountInv' /\ UNCHANGED <<Waiting, started, queued>>
<1>1. CASE BumpBack \/ DropFill
  BY <1>1, BumpBackKeeps, DropFillKeeps
<1>2. CASE ~BumpBack /\ ~DropFill
  <2>1. UNCHANGED <<queue, queue_front, queue_back, queue_fill, pc, program, queued, started>>
    BY <1>2 DEF DmStep, DmLoad, DmAlloc, DmPublish, CheckFill, CheckStat, Switch, SetValid,
         ClearRequest, CheckEmpty, CheckQuiet, Doze, Wfi, ClearIrq, Awake, Engine, OwnStep, OwnStart1d, OwnStart2d,
         OwnStart, OwnWait, OwnWaitAll, OwnRest, clientVars, queueVars, engineVars
  <2>2. \/ dmpc' = dmpc
        \/ dmpc \notin {"back", "unfill"} /\ dmpc' \notin {"back", "unfill"} /\ (dmpc' = "issue" => queue_fill # 0)
    BY <1>2 DEF DmStep, DmLoad, DmAlloc, DmPublish, CheckFill, CheckStat, Switch, SetValid,
         ClearRequest, CheckEmpty, CheckQuiet, Doze, Wfi, ClearIrq, Awake, Engine, OwnStep, OwnStart1d, OwnStart2d,
         OwnStart, OwnWait, OwnWaitAll, OwnRest, DmGoto, EndOfLoop, dmVars
  <2>3. Filled' = Filled /\ BackPlace' = BackPlace /\ Ahead' = Ahead
    BY <2>1, <2>2 DEF Filled, BackPlace, Ahead
  <2>4. dmpc' \in {"issue", "back", "unfill"} => queue_fill >= 1
    BY <2>2 DEF QueueInv
  <2>5. QueueInv' /\ Waiting' = Waiting
    BY <2>1, <2>3, <2>4, QueueKept
  <2>6. CountInv'
    BY <2>1 DEF CountInv, Call
  <2>7. QED
    BY <2>1, <2>5, <2>6
<1>3. QED
  BY <1>1, <1>2

(* What a step does to the jobs that wait and to those started.            *)
Writes(c, b) ==
  /\ InsertOned(c) \/ InsertTwod(c)
  /\ <<c, queued[c] + 1, b>> \in Jobs /\ queue'[queue_front'] = <<c, queued[c] + 1, b>>
  /\ Waiting' = Overwritten(Waiting, <<c, queued[c] + 1, b>>)
  /\ UNCHANGED <<started, queued>>

Queues(c, b) ==
  /\ BumpFill(c)
  /\ <<c, queued[c] + 1, b>> \in Jobs /\ queue[queue_front] = <<c, queued[c] + 1, b>>
  /\ Waiting' = Append(Waiting, <<c, queued[c] + 1, b>>)
  /\ queued' = [queued EXCEPT ![c] = @ + 1] /\ UNCHANGED started

Starts ==
  /\ Issue /\ Waiting # << >> /\ Head(Waiting) = queue[queue_back]
  /\ Waiting' = Tail(Waiting) /\ started' = Append(started, Head(Waiting)) /\ UNCHANGED queued

(* A step of a client that leaves the jobs alone, and one of another actor. *)
Aside(c) == (BumpFront(c) \/ OffQueue(c)) /\ UNCHANGED <<Waiting, started, queued>>
Elsewhere == ((DmStep /\ ~Issue) \/ Engine \/ OwnStep \/ UNCHANGED vars) /\ UNCHANGED <<Waiting, started, queued>>

LEMMA QueueNext ==
  ASSUME Control, QueueInv, CountInv, [Next]_vars
  PROVE  /\ QueueInv' /\ CountInv'
         /\ \/ Elsewhere \/ Starts
            \/ \E c \in Clients : /\ ClientStep(c) \/ Lock(c)
                                  /\ Aside(c) \/ \E b \in BOOLEAN : Queues(c, b) \/ Writes(c, b)
<1>1. CASE UNCHANGED vars
  <2>1. UNCHANGED <<queue, queue_front, queue_back, queue_fill, pc, program, queued, started, dmpc>>
    BY <1>1 DEF vars, queueVars, clientVars, engineVars, dmVars
  <2>2. Filled' = Filled /\ BackPlace' = BackPlace /\ Ahead' = Ahead
    BY <2>1 DEF Filled, BackPlace, Ahead
  <2>3. dmpc' \in {"issue", "back", "unfill"} => queue_fill >= 1
    BY <2>1 DEF QueueInv
  <2>4. QueueInv' /\ Waiting' = Waiting
    BY <2>1, <2>2, <2>3, QueueKept
  <2>5. CountInv'
    BY <2>1 DEF CountInv, Call
  <2>6. QED
    BY <1>1, <2>1, <2>4, <2>5 DEF Elsewhere
<1>2. CASE Issue
  BY <1>2, IssueStarts DEF Starts
<1>3. CASE (DmStep \/ Engine \/ OwnStep) /\ ~Issue
  BY <1>3, DaemonQueue DEF Elsewhere
<1>4. ASSUME NEW c \in Clients, ClientStep(c) \/ Lock(c)
      PROVE  QueueInv' /\ CountInv' /\ (Aside(c) \/ \E b \in BOOLEAN : Queues(c, b) \/ Writes(c, b))
  <2>1. CASE InsertOned(c) \/ InsertTwod(c)
    BY <2>1, InsertWrites DEF Writes
  <2>2. CASE BumpFill(c)
    BY <2>2, BumpFillQueues DEF Queues
  <2>3. CASE BumpFront(c)
    BY <2>3, BumpFrontKeeps DEF Aside
  <2>4. CASE OffQueue(c)
    BY <1>4, <2>4, OffQueueKeeps DEF Aside
  <2>5. QED
    BY <1>4, <2>1, <2>2, <2>3, <2>4, ClientOnQueue
<1>5. QED
  BY <1>1, <1>2, <1>3, <1>4 DEF Next, DaemonStep
------------------------------------------------------------------------------
(* The clients that have polled and not yet queued, and what they write.   *)
Claims == {c \in Clients : AboutToQueue(c)}
Writing == IF \E c \in Clients : pc[c] = "fill" THEN queue[queue_front] ELSE << >>

(* Each core that is about to queue has found an entry free, and at most   *)
(* the others have queued since.                                           *)
FillInv == queue_fill + Cardinality(Claims) <= Size + Cardinality(Clients) - 1

(* A client that leaves the queue alone is about to queue if it was, or    *)
(* has just polled.                                                        *)
LEMMA AboutFrom ==
  ASSUME Control, NEW c \in Clients, OffQueue(c), ClientStep(c) \/ Lock(c), AboutToQueue(c)'
  PROVE  AboutToQueue(c) \/ Poll(c)
<1>1. /\ program \in [Clients -> Seq(Calls)] /\ pc \in [Clients -> ClientLabels] /\ PcExact(c)
  BY DEF Control, ClientsExact
<1>2. program[c] \in Seq(Calls) /\ (program[c] # << >> => Tail(program[c]) \in Seq(Calls))
  BY <1>1
<1>3. pc'[c] \in {"insert", "lock"} /\ (pc'[c] = "lock" => Call(c)' \in Copies)
  BY DEF AboutToQueue, OffQueue
<1>4. ASSUME NEW to, Goto(c, to) PROVE pc'[c] = to /\ Call(c)' = Call(c)
  BY <1>1, <1>4 DEF Goto, Call
<1>5. ASSUME NEW calls \in Seq(Calls), program'[c] = calls, pc'[c] = First(calls) PROVE FALSE
  <2>1. pc'[c] = "lock" /\ Head(calls) \in CallsAt("lock") /\ calls # << >>
    BY <1>3, <1>5, FirstFacts
  <2>2. Head(calls) \in Copies
    BY <1>3, <1>5, <2>1 DEF Call
  <2>3. Head(calls) = "ready"
    BY <1>5, <2>1, FirstFacts
  <2>4. QED
    BY <2>2, <2>3 DEF Copies
<1>6. CASE ClientInit(c)
  <2>1. program'[c] = program[c] /\ pc'[c] = First(program[c])
    BY <1>1, <1>6 DEF ClientInit, Goto
  <2>2. QED
    BY <1>2, <1>5, <2>1
<1>7. CASE Release(c) \/ AllocStore(c) \/ (SetIrq(c) /\ Return(c))
  <2>1. Return(c) /\ pc[c] \in {"release", "alloc", "set", "set2"}
    BY <1>7 DEF Release, AllocStore, SetIrq
  <2>2. program[c] # << >>
    BY <1>1, <2>1 DEF PcExact
  <2>3. program'[c] = Tail(program[c]) /\ pc'[c] = First(Tail(program[c]))
    BY <1>1, <2>1 DEF Return
  <2>4. QED
    BY <1>2, <1>5, <2>2, <2>3
<1>8. CASE SetIrq(c) /\ ~Return(c)
  <2>1. pc[c] \in {"set", "set2"} /\ Call(c) \in {"start", "exit", "wait", "ready"}
    BY <1>1, <1>8 DEF SetIrq, PcExact, CallsAt
  <2>2. Goto(c, IF pc[c] = "set" THEN "drain" ELSE "answer")
    BY <1>8, <2>1 DEF SetIrq
  <2>3. QED
    BY <1>3, <1>4, <2>2
<1>9. CASE Poll(c)
  BY <1>9 DEF Poll
<1>10. CASE Quiet(c)
  <2>1. Call(c) = "wait" /\ Goto(c, "lock")
    BY <1>1, <1>10 DEF Quiet, PcExact, CallsAt
  <2>2. QED
    BY <1>3, <1>4, <2>1 DEF Copies
<1>11. CASE Lock(c)
  <2>1. pc[c] = "lock" /\ Goto(c, IF Call(c) \in Copies THEN "insert" ELSE "clear")
    BY <1>11 DEF Lock
  <2>2. Call(c) \in Copies
    BY <1>3, <1>4, <2>1
  <2>3. QED
    BY <2>1, <2>2 DEF AboutToQueue
<1>12. CASE AwaitWfi(c) \/ Drain(c) \/ ClearValid(c) \/ Ask(c) \/ Answer(c) \/ AllocLoad(c)
  <2>1. \E to \in {"set", "set2", "quiet", "ask", "wake2", "release", "alloc"} : Goto(c, to)
    BY <1>12 DEF AwaitWfi, Drain, ClearValid, Ask, Answer, AllocLoad
  <2>2. QED
    BY <1>3, <1>4, <2>1
<1>13. CASE InsertOned(c) \/ InsertTwod(c) \/ BumpFill(c) \/ BumpFront(c)
  BY <1>13 DEF InsertOned, InsertTwod, BumpFill, BumpFront, OffQueue
<1>14. QED
  BY <1>6, <1>7, <1>8, <1>9, <1>10, <1>11, <1>12, <1>13 DEF ClientStep

LEMMA AboutTo ==
  ASSUME Control, NEW c \in Clients, OffQueue(c), ClientStep(c) \/ Lock(c), AboutToQueue(c)
  PROVE  AboutToQueue(c)'
<1>1. pc[c] = "lock" /\ Call(c) \in Copies
  BY DEF AboutToQueue, OffQueue
<1>2. Lock(c)
  BY <1>1 DEF ClientStep, ClientInit, Poll, InsertOned, InsertTwod, BumpFill, BumpFront, Release,
         AwaitWfi, SetIrq, Drain, Quiet, ClearValid, Ask, Answer, AllocLoad, AllocStore
<1>3. Goto(c, "insert")
  BY <1>1, <1>2 DEF Lock
<1>4. pc'[c] = "insert"
  BY <1>3 DEF Goto, Control, ClientsExact
<1>5. QED
  BY <1>4 DEF AboutToQueue

LEMMA PollClaims ==
  ASSUME Control, QueueInv, NEW c \in Clients, Poll(c)
  PROVE  c \notin Claims /\ AboutToQueue(c)' /\ queue_fill < Size /\ Len(Waiting) < Size
<1>1. pc[c] = "poll" /\ queue_fill < Size /\ Goto(c, "lock")
  BY DEF Poll
<1>2. Call(c) \in Copies
  BY <1>1 DEF Control, ClientsExact, PcExact, CallsAt
<1>3. pc'[c] = "lock" /\ Call(c)' = Call(c)
  BY <1>1 DEF Goto, Call, Control, ClientsExact
<1>4. Len(Waiting) \in 0..queue_fill /\ queue_fill \in Nat /\ Size \in Nat
  BY WaitingIs, SizeFacts DEF QueueInv
<1>5. QED
  BY <1>1, <1>2, <1>3, <1>4 DEF Claims, AboutToQueue

(* What the steps do to the claims and to the job being written.           *)
LEMMA ElsewhereClaims == Elsewhere \/ Starts => UNCHANGED <<Claims, Writing>> /\ (queue_fill' = queue_fill \/ DropFill)
<1> SUFFICES ASSUME Elsewhere \/ Starts PROVE UNCHANGED <<Claims, Writing>> /\ (queue_fill' = queue_fill \/ DropFill)
  OBVIOUS
<1>1. DmStep \/ Engine \/ OwnStep \/ UNCHANGED vars
  BY DEF Elsewhere, Starts, DmStep
<1>2. UNCHANGED <<queue, queue_front, program, pc>> /\ (queue_fill' = queue_fill \/ DropFill)
  BY <1>1 DEF vars, DmStep, DmLoad, DmAlloc, DmPublish, CheckFill, Issue, BumpBack, DropFill, CheckStat, Switch, SetValid,
         ClearRequest, CheckEmpty, CheckQuiet, Doze, Wfi, ClearIrq, Awake, Engine, OwnStep, OwnStart1d, OwnStart2d,
         OwnStart, OwnWait, OwnWaitAll, OwnRest, clientVars, queueVars
<1>3. QED
  BY <1>2 DEF Claims, AboutToQueue, Call, Writing

LEMMA ClientClaims ==
  ASSUME Control, QueueInv, CountInv, NEW c \in Clients, ClientStep(c) \/ Lock(c)
  PROVE  /\ BumpFront(c) => UNCHANGED <<Claims, Writing, queue_fill>>
         /\ OffQueue(c) => /\ UNCHANGED <<Writing, queue_fill>>
                           /\ \/ Claims' = Claims
                              \/ Poll(c) /\ Claims' = Claims \cup {c}
         /\ \A b \in BOOLEAN : Writes(c, b) =>
              UNCHANGED <<Claims, queue_fill>> /\ c \in Claims /\ Writing = << >> /\ Writing' = <<c, queued[c] + 1, b>>
         /\ \A b \in BOOLEAN : Queues(c, b) =>
              /\ queue_fill' = queue_fill + 1
              /\ c \in Claims /\ Claims' = Claims \ {c} /\ Writing = <<c, queued[c] + 1, b>> /\ Writing' = << >>
<1>1. \A d \in Clients \ {c} : pc'[d] = pc[d] /\ (AboutToQueue(d)' <=> AboutToQueue(d))
  BY OthersKept DEF AboutToQueue, Call
<1>2. pc \in [Clients -> ClientLabels]
  BY DEF Control, ClientsExact
<1>3. ASSUME BumpFront(c) PROVE UNCHANGED <<Claims, Writing, queue_fill>>
  <2>1. pc[c] = "front" /\ pc'[c] = "release" /\ UNCHANGED queue_fill
    BY <1>2, <1>3 DEF BumpFront, Goto
  <2>2. \A d \in Clients : pc[d] # "fill" /\ pc'[d] # "fill"
    BY <1>1, <2>1, InsertAlone
  <2>3. ~AboutToQueue(c) /\ ~AboutToQueue(c)'
    BY <2>1 DEF AboutToQueue
  <2>4. QED
    BY <1>1, <2>1, <2>2, <2>3 DEF Claims, Writing
<1>4. ASSUME OffQueue(c)
      PROVE  UNCHANGED <<Writing, queue_fill>> /\ (Claims' = Claims \/ (Poll(c) /\ Claims' = Claims \cup {c}))
  <2>1. UNCHANGED <<queue, queue_front, queue_fill>> /\ pc[c] # "fill" /\ pc'[c] # "fill"
    BY <1>4 DEF OffQueue
  <2>2. Writing' = Writing
    BY <1>1, <2>1 DEF Writing
  <2>3. CASE AboutToQueue(c)' <=> AboutToQueue(c)
    BY <1>1, <2>1, <2>2, <2>3 DEF Claims
  <2>4. CASE ~(AboutToQueue(c)' <=> AboutToQueue(c))
    <3>1. Poll(c) /\ AboutToQueue(c)'
      BY <1>4, <2>4, AboutFrom, AboutTo
    <3>2. Claims' = Claims \cup {c}
      BY <1>1, <3>1 DEF Claims
    <3>3. QED
      BY <2>1, <2>2, <3>1, <3>2
  <2>5. QED
    BY <2>3, <2>4
<1>5. ASSUME NEW b \in BOOLEAN, Writes(c, b)
      PROVE  UNCHANGED <<Claims, queue_fill>> /\ c \in Claims /\ Writing = << >> /\ Writing' = <<c, queued[c] + 1, b>>
  <2>1. pc[c] = "insert" /\ pc'[c] = "fill" /\ UNCHANGED queue_fill
    BY <1>2, <1>5 DEF Writes, InsertOned, InsertTwod, Insert, Goto
  <2>2. \A d \in Clients : pc[d] # "fill"
    BY <2>1, InsertAlone
  <2>3. AboutToQueue(c) /\ AboutToQueue(c)'
    BY <2>1 DEF AboutToQueue
  <2>4. Claims' = Claims /\ c \in Claims
    BY <1>1, <2>3 DEF Claims
  <2>5. Writing = << >> /\ Writing' = queue'[queue_front']
    BY <2>1, <2>2 DEF Writing
  <2>6. QED
    BY <1>5, <2>1, <2>4, <2>5 DEF Writes
<1>6. ASSUME NEW b \in BOOLEAN, Queues(c, b)
      PROVE  /\ queue_fill' = queue_fill + 1
             /\ c \in Claims /\ Claims' = Claims \ {c} /\ Writing = <<c, queued[c] + 1, b>> /\ Writing' = << >>
  <2>1. pc[c] = "fill" /\ pc'[c] = "front" /\ queue_fill' = queue_fill + 1
    BY <1>2, <1>6 DEF Queues, BumpFill, Goto
  <2>2. \A d \in Clients : pc'[d] # "fill"
    BY <1>1, <2>1, InsertAlone
  <2>3. AboutToQueue(c) /\ ~AboutToQueue(c)'
    BY <2>1 DEF AboutToQueue
  <2>4. Claims' = Claims \ {c} /\ c \in Claims
    BY <1>1, <2>3 DEF Claims
  <2>5. Writing = queue[queue_front] /\ Writing' = << >>
    BY <2>1, <2>2 DEF Writing
  <2>6. QED
    BY <1>6, <2>1, <2>4, <2>5 DEF Queues
<1>7. QED
  BY <1>3, <1>4, <1>5, <1>6

LEMMA FillInit == Init => FillInv
<1> SUFFICES ASSUME Init PROVE FillInv
  OBVIOUS
<1>1. Claims = {} /\ queue_fill = 0
  BY DEF Init, Claims, AboutToQueue
<1>2. Cardinality(Claims) = 0 /\ Cardinality(Clients) \in Nat
  BY <1>1, FS_EmptySet, FS_CardinalityType, ProgramsAssumption
<1>3. QED
  BY <1>1, <1>2, SizeFacts DEF FillInv

LEMMA FillNext == Control /\ QueueInv /\ CountInv /\ FillInv /\ [Next]_vars => FillInv'
<1> SUFFICES ASSUME Control, QueueInv, CountInv, FillInv, [Next]_vars PROVE FillInv'
  OBVIOUS
<1>1. /\ IsFiniteSet(Claims) /\ Cardinality(Claims) \in Nat /\ Cardinality(Claims) <= Cardinality(Clients)
      /\ Cardinality(Clients) \in Nat /\ queue_fill \in Nat /\ Size \in Nat \ {0}
  <2>1. Claims \subseteq Clients /\ IsFiniteSet(Clients)
    BY ProgramsAssumption DEF Claims
  <2>2. QED
    BY <2>1, FS_Subset, FS_CardinalityType, SizeFacts DEF QueueInv
<1>2. CASE Elsewhere \/ Starts
  <2>1. Claims' = Claims /\ (queue_fill' = queue_fill \/ queue_fill' = queue_fill - 1)
    BY <1>2, ElsewhereClaims DEF DropFill
  <2>2. QED
    BY <1>1, <2>1 DEF FillInv
<1>3. ASSUME NEW c \in Clients, ClientStep(c) \/ Lock(c),
             Aside(c) \/ \E b \in BOOLEAN : Queues(c, b) \/ Writes(c, b)
      PROVE  FillInv'
  <2>1. CASE Claims' = Claims /\ queue_fill' = queue_fill
    BY <2>1 DEF FillInv
  <2>2. CASE Poll(c) /\ Claims' = Claims \cup {c} /\ queue_fill' = queue_fill
    <3>1. Claims' \subseteq Clients /\ IsFiniteSet(Clients)
      BY ProgramsAssumption DEF Claims
    <3>2. Cardinality(Claims') \in Nat /\ Cardinality(Claims') <= Cardinality(Clients)
      BY <3>1, FS_Subset, FS_CardinalityType
    <3>3. queue_fill' < Size
      BY <2>2, PollClaims
    <3>4. QED
      BY <1>1, <2>2, <3>2, <3>3 DEF FillInv
  <2>3. CASE c \in Claims /\ Claims' = Claims \ {c} /\ queue_fill' = queue_fill + 1
    <3>1. Cardinality(Claims') = Cardinality(Claims) - 1
      BY <1>1, <2>3, FS_RemoveElement
    <3>2. QED
      BY <1>1, <2>3, <3>1 DEF FillInv
  <2>4. QED
    BY <1>3, <2>1, <2>2, <2>3, ClientClaims DEF Aside
<1>4. QED
  BY <1>2, <1>3, QueueNext

(* What holds of the data mover's queue in every state.                    *)
DmInv == Control /\ QueueInv /\ CountInv /\ FillInv

(* The inductive invariant of the queue: places and mutex, the entries     *)
(* between the two ends of the ring, the jobs in them, and how far the     *)
(* fill level can rise above the size.                                     *)
THEOREM DmInvariant == Spec => []DmInv
<1>1. Init => DmInv
  BY ControlInit, QueueInit, FillInit DEF DmInv
<1>2. DmInv /\ [Next]_vars => DmInv'
  BY ControlNext, QueueNext, FillNext DEF DmInv
<1>3. QED
  BY <1>1, <1>2, PTL DEF Spec

(* The state's types, with the highest fill level that polling outside the *)
(* mutex can lead to; the mutex's holder and the count of sleepers.        *)
THEOREM DataMoverTypeCorrect == Spec => []TypeOK
<1>1. DmInv => TypeOK
  <2> SUFFICES ASSUME DmInv PROVE TypeOK
    OBVIOUS
  <2>1. queue_fill \in 0..(Size + Cardinality(Clients) - 1)
    <3>1. Claims \subseteq Clients /\ IsFiniteSet(Clients)
      BY ProgramsAssumption DEF Claims
    <3>2. Cardinality(Claims) \in Nat /\ Cardinality(Clients) \in Nat /\ Size \in Nat /\ queue_fill \in Nat
      BY <3>1, FS_Subset, FS_CardinalityType, SizeFacts DEF DmInv, QueueInv
    <3>3. QED
      BY <3>2 DEF DmInv, FillInv
  <2>2. queue_back \in 0..(Size - 1) /\ queue_front \in 0..(Size - 1)
    BY DEF DmInv, QueueInv
  <2>3. QED
    BY <2>1, <2>2 DEF DmInv, TypeOK, Control, ClientsExact, DaemonExact, HoldsAt
<1>2. QED
  BY <1>1, DmInvariant, PTL

(* The queue is a first-in, first-out queue that starts every transfer     *)
(* once and in order, wherever the clients' and the DM core's accesses     *)
(* fall together; a transfer is overwritten exactly where more cores than  *)
(* entries free have polled the fill level before they queue.              *)
THEOREM JobQueueCorrect == Spec => ImplementsJobQueue
<1>1. Init => JQ!Init
  BY QueueInit DEF Init, JQ!Init, AboutToQueue
<1>2. DmInv /\ [Next]_vars => [JQ!Next]_(JQ!vars)
  <2> SUFFICES ASSUME DmInv, [Next]_vars PROVE [JQ!Next]_(JQ!vars)
    OBVIOUS
  <2> USE DEF DmInv
  <2>1. Claims = {c \in Clients : AboutToQueue(c)} /\ Claims' = {c \in Clients : AboutToQueue(c)'}
    BY DEF Claims
  <2>2. CASE Elsewhere
    BY <2>2, ElsewhereClaims DEF JQ!vars, Claims, Writing, Elsewhere
  <2>3. CASE Starts
    <3>1. UNCHANGED <<Claims, Writing>>
      BY <2>3, ElsewhereClaims
    <3>2. JQ!Start
      BY <2>3, <3>1 DEF Starts, JQ!Start, Claims, Writing
    <3>3. QED
      BY <3>2 DEF JQ!Next
  <2>4. ASSUME NEW c \in Clients, ClientStep(c) \/ Lock(c), Aside(c) PROVE JQ!Next \/ UNCHANGED JQ!vars
    <3>1. UNCHANGED <<Waiting, started, Writing>> /\ (Claims' = Claims \/ (Poll(c) /\ Claims' = Claims \cup {c}))
      BY <2>4, ClientClaims DEF Aside
    <3>2. CASE Claims' = Claims
      BY <3>1, <3>2 DEF JQ!vars, Claims, Writing
    <3>3. CASE Poll(c) /\ Claims' = Claims \cup {c}
      <4>1. c \notin Claims /\ Len(Waiting) < Size
        BY <3>3, PollClaims
      <4>2. JQ!Claim(c)
        BY <3>1, <3>3, <4>1 DEF JQ!Claim, Claims, Writing
      <4>3. QED
        BY <4>2 DEF JQ!Next
    <3>4. QED
      BY <3>1, <3>2, <3>3
  <2>5. ASSUME NEW c \in Clients, NEW b \in BOOLEAN, ClientStep(c) \/ Lock(c), Writes(c, b) PROVE JQ!Next
    <3>1. PICK j \in Jobs : j = <<c, queued[c] + 1, b>>
      BY <2>5 DEF Writes
    <3>2. /\ Claims' = Claims /\ c \in Claims /\ Writing = << >> /\ Writing' = j
          /\ Waiting' = Overwritten(Waiting, j) /\ started' = started /\ j[1] = c
      BY <2>5, <3>1, ClientClaims DEF Writes
    <3>3. JQ!Write(j)
      BY <3>2 DEF JQ!Write, Claims, Writing, Overwritten
    <3>4. QED
      BY <3>3 DEF JQ!Next
  <2>6. ASSUME NEW c \in Clients, NEW b \in BOOLEAN, ClientStep(c) \/ Lock(c), Queues(c, b) PROVE JQ!Next
    <3>1. PICK j \in Jobs : j = <<c, queued[c] + 1, b>>
      BY <2>6 DEF Queues
    <3>2. /\ Claims' = Claims \ {c} /\ Writing = j /\ Writing' = << >>
          /\ Waiting' = Append(Waiting, j) /\ started' = started /\ j[1] = c /\ j # << >>
      BY <2>6, <3>1, ClientClaims DEF Queues
    <3>3. JQ!Enqueue
      BY <3>2 DEF JQ!Enqueue, Claims, Writing
    <3>4. QED
      BY <3>3 DEF JQ!Next
  <2>7. QED
    BY <2>2, <2>3, <2>4, <2>5, <2>6, QueueNext
<1>3. QED
  BY <1>1, <1>2, DmInvariant, PTL DEF Spec, ImplementsJobQueue, JQ!Spec
------------------------------------------------------------------------------
(* The DM core's own transfers.  Until it sets up the data mover, the      *)
(* transfers are its own: Ended of them are complete, in order, and the    *)
(* counters of the engine are that many behind and ahead of FirstId.       *)
Ended == Len(txids) - Len(inflight)

OwnLeft ==
  \E p \in OwnPrograms, i \in Nat \ {0} :
    /\ own \in Seq(OwnCalls) /\ i + Len(own) = Len(p) + 1
    /\ \A m \in 1..Len(own) : own[m] = p[i + m - 1]
    /\ Len(txids) = StartsBefore(p, i)

OwnTransfers ==
  /\ txids \in Seq(Nat) /\ inflight \in Seq({"dm"} \X Nat \X BOOLEAN)
  /\ Len(inflight) <= Depth /\ Len(inflight) <= Len(txids)
  /\ next_id = (FirstId + Len(txids)) % IdWrap
  /\ completed_id = (FirstId + Ended) % IdWrap
  /\ \A k \in 1..Len(txids) : txids[k] = (FirstId + k - 1) % IdWrap
  /\ \A i \in 1..Len(inflight) : inflight[i][2] = Ended + i
  /\ \A j \in complete : j[1] = "dm" /\ j[2] \in 1..Ended
  /\ \A n \in 1..Ended : \E j \in complete : j[1] = "dm" /\ j[2] = n
  /\ \A j, k \in complete : j[2] = k[2] => j = k

OwnInv == dmpc = "own" => OwnLeft /\ OwnTransfers

(* Jobs that are known by their numbers, and have all numbers up to one.   *)
LEMMA CountJobs ==
  ASSUME NEW S, NEW n \in Nat, \A j \in S : j[2] \in 1..n, \A m \in 1..n : \E j \in S : j[2] = m,
         \A j, k \in S : j[2] = k[2] => j = k
  PROVE  Cardinality(S) = n
<1> DEFINE f == [m \in 1..n |-> CHOOSE j \in S : j[2] = m]
<1>1. \A m \in 1..n : f[m] \in S /\ f[m][2] = m
  OBVIOUS
<1>2. f \in [1..n -> S]
  BY <1>1
<1>3. \A l, m \in 1..n : l # m => f[l] # f[m]
  BY <1>1
<1>4. \A j \in S : \E m \in 1..n : f[m] = j
  BY <1>1
<1>5. f \in Bijection(1..n, S)
  BY <1>2, <1>3, <1>4 DEF Bijection, Injection, Surjection, IsInjective
<1>6. ExistsBijection(1..n, S)
  BY <1>5 DEF ExistsBijection
<1>7. QED
  BY <1>6, FS_CountingElements

(* A signed difference of identifiers is that of the transfers' numbers,   *)
(* as long as these are less than half the identifiers apart.              *)
LEMMA SignedIs ==
  ASSUME NEW a \in Int, NEW b \in Int, b - a < IdWrap \div 2, a - b <= IdWrap \div 2
  PROVE  Signed((b % IdWrap) - (a % IdWrap)) = b - a
<1>1. PICK H \in Nat \ {0} : IdWrap = 2 * H /\ IdWrap \div 2 = H
  BY DmaAssumption
<1>2. IdWrap \in Nat \ {0}
  BY DmaAssumption
<1>3. PICK q \in Int, r \in 0..(IdWrap - 1) : a = IdWrap * q + r /\ a % IdWrap = r
  BY <1>2, DivMod
<1>4. PICK t \in Int, s \in 0..(IdWrap - 1) : b = IdWrap * t + s /\ b % IdWrap = s
  BY <1>2, DivMod
<1>5. PICK e \in Int : e = b - a
  OBVIOUS
<1>6. PICK x \in Int : x = (b % IdWrap) - (a % IdWrap)
  BY <1>3, <1>4
<1>7. PICK u \in Int : u = q - t
  OBVIOUS
<1>8. x = IdWrap * u + e
  BY <1>2, <1>3, <1>4, <1>5, <1>6, <1>7
<1>9. CASE e >= 0
  <2>1. e \in 0..(IdWrap - 1)
    BY <1>1, <1>5, <1>9
  <2>2. x % IdWrap = e
    BY <1>2, <1>8, <2>1, ModIs
  <2>3. QED
    BY <1>1, <1>5, <1>6, <2>2 DEF Signed
<1>10. CASE e < 0
  <2>1. PICK y \in 0..(IdWrap - 1) : y = e + IdWrap
    BY <1>1, <1>5, <1>10
  <2>2. PICK v \in Int : v = u - 1
    OBVIOUS
  <2>3. x = IdWrap * v + y
    BY <1>2, <1>8, <2>1, <2>2
  <2>4. x % IdWrap = y
    BY <1>2, <2>3, ModIs
  <2>5. y >= H
    BY <1>1, <1>5, <2>1
  <2>6. QED
    BY <1>1, <1>5, <1>6, <2>1, <2>4, <2>5 DEF Signed
<1>11. QED
  BY <1>9, <1>10

LEMMA StartsBeforeNext ==
  ASSUME NEW p, NEW i \in Nat \ {0}
  PROVE  /\ StartsBefore(p, 1) = 0 /\ StartsBefore(p, i) \in Nat
         /\ StartsBefore(p, i + 1) = StartsBefore(p, i) + (IF p[i][1] \in {"1d", "2d"} THEN 1 ELSE 0)
<1> DEFINE S(n) == {m \in 1..n : p[m][1] \in {"1d", "2d"}}
<1>1. S(0) = {}
  OBVIOUS
<1>2. IsFiniteSet(1..(i - 1)) /\ S(i - 1) \in SUBSET (1..(i - 1))
  BY FS_Interval
<1>3. IsFiniteSet(S(i - 1)) /\ Cardinality(S(i - 1)) \in Nat
  <2>1. IsFiniteSet(S(i - 1))
    BY <1>2, FS_Subset
  <2>2. QED
    BY <2>1, FS_CardinalityType
<1>4. S(i) = IF p[i][1] \in {"1d", "2d"} THEN S(i - 1) \cup {i} ELSE S(i - 1)
  OBVIOUS
<1>5. i \notin S(i - 1)
  OBVIOUS
<1> HIDE DEF S
<1>6. Cardinality(S(i)) = Cardinality(S(i - 1)) + (IF p[i][1] \in {"1d", "2d"} THEN 1 ELSE 0)
  <2>1. CASE p[i][1] \in {"1d", "2d"}
    <3>1. S(i) = S(i - 1) \cup {i}
      BY <1>4, <2>1
    <3>2. Cardinality(S(i - 1) \cup {i}) = Cardinality(S(i - 1)) + 1
      BY <1>3, <1>5, FS_AddElement
    <3>3. QED
      BY <2>1, <3>1, <3>2
  <2>2. CASE p[i][1] \notin {"1d", "2d"}
    BY <1>3, <1>4, <2>2
  <2>3. QED
    BY <2>1, <2>2
<1>7. Cardinality(S(0)) = 0
  BY <1>1, FS_EmptySet
<1>8. i + 1 - 1 = i /\ 1 - 1 = 0
  OBVIOUS
<1>9. StartsBefore(p, 1) = Cardinality(S(0)) /\ StartsBefore(p, i) = Cardinality(S(i - 1)) /\ StartsBefore(p, i + 1) = Cardinality(S(i))
  BY <1>8 DEF StartsBefore, S
<1>10. QED
  BY <1>3, <1>6, <1>7, <1>9

LEMMA OwnInit == Init => OwnInv
<1> SUFFICES ASSUME Init PROVE OwnInv
  OBVIOUS
<1>1. /\ own \in OwnPrograms /\ txids = << >> /\ inflight = << >> /\ complete = {}
      /\ next_id = FirstId /\ completed_id = FirstId
  BY DEF Init, DmaInit
<1>2. OwnLeft
  <2>1. own \in Seq(OwnCalls) /\ Len(own) \in Nat
    BY <1>1, OwnAssumption
  <2>2. Len(txids) = StartsBefore(own, 1)
    BY <1>1, StartsBeforeNext
  <2>3. 1 + Len(own) = Len(own) + 1 /\ \A m \in 1..Len(own) : own[m] = own[1 + m - 1]
    BY <2>1
  <2>4. QED
    BY <1>1, <2>1, <2>2, <2>3 DEF OwnLeft
<1>3. OwnTransfers
  <2>1. IdWrap \in Nat \ {0} /\ FirstId \in 0..(IdWrap - 1) /\ Depth \in Nat
    BY DmaAssumption
  <2>2. FirstId + 0 = IdWrap * 0 + FirstId
    BY <2>1
  <2>3. (FirstId + 0) % IdWrap = FirstId
    BY <2>1, <2>2, ModIs
  <2>4. Ended = 0 /\ Len(txids) = 0 /\ Len(inflight) = 0
    BY <1>1 DEF Ended
  <2>5. QED
    BY <1>1, <2>1, <2>3, <2>4 DEF OwnTransfers
<1>4. QED
  BY <1>2, <1>3 DEF OwnInv

(* A call of the DM core's own takes it to the next one.                   *)
LEMMA OwnLeftNext ==
  ASSUME OwnLeft, own # << >>, own' = Tail(own), txids \in Seq(Nat), txids' \in Seq(Nat),
         Len(txids') = Len(txids) + (IF Head(own)[1] \in {"1d", "2d"} THEN 1 ELSE 0)
  PROVE  OwnLeft'
<1>1. PICK p \in OwnPrograms, i \in Nat \ {0} :
        /\ own \in Seq(OwnCalls) /\ i + Len(own) = Len(p) + 1
        /\ \A m \in 1..Len(own) : own[m] = p[i + m - 1]
        /\ Len(txids) = StartsBefore(p, i)
  BY DEF OwnLeft
<1>2. /\ Head(own) = own[1] /\ Tail(own) \in Seq(OwnCalls) /\ Len(own) \in Nat \ {0} /\ Len(Tail(own)) = Len(own) - 1
      /\ \A m \in 1..(Len(own) - 1) : Tail(own)[m] = own[m + 1]
  BY <1>1, HeadTail
<1>3. Head(own) = p[i]
  <2>1. i + 1 - 1 = i /\ 1 \in 1..Len(own)
    BY <1>2
  <2>2. QED
    BY <1>1, <1>2, <2>1
<1>4. Len(txids') = StartsBefore(p, i + 1)
  <2>1. StartsBefore(p, i + 1) = StartsBefore(p, i) + (IF p[i][1] \in {"1d", "2d"} THEN 1 ELSE 0)
    BY StartsBeforeNext
  <2>2. Head(own)[1] = p[i][1]
    BY <1>3
  <2>3. QED
    BY <1>1, <2>1, <2>2
<1>5. \A m \in 1..Len(own') : own'[m] = p[(i + 1) + m - 1]
  <2>1. SUFFICES ASSUME NEW m \in 1..Len(own') PROVE own'[m] = p[(i + 1) + m - 1]
    OBVIOUS
  <2>2. m \in 1..(Len(own) - 1) /\ m + 1 \in 1..Len(own) /\ i + (m + 1) - 1 = (i + 1) + m - 1
    BY <1>2
  <2>3. QED
    BY <1>1, <1>2, <2>2
<1>6. p \in Seq(OwnCalls) /\ Len(p) \in Nat
  BY OwnAssumption
<1>7. (i + 1) + Len(own') = Len(p) + 1 /\ i + 1 \in Nat \ {0}
  <2>1. PICK l \in Nat \ {0} : l = Len(own)
    BY <1>2
  <2>2. Len(own') = l - 1
    BY <1>2, <2>1
  <2>3. PICK n \in Nat : n = Len(p)
    BY <1>6
  <2>4. i + l = n + 1
    BY <1>1, <2>1, <2>3
  <2>5. (i + 1) + (l - 1) = n + 1
    BY <2>4
  <2>6. i + 1 \in Nat \ {0}
    BY <1>1
  <2>7. (i + 1) + Len(own') = Len(p) + 1
    BY <2>2, <2>3, <2>5
  <2>8. QED
    BY <2>6, <2>7
<1>8. QED
  BY <1>2, <1>4, <1>5, <1>7 DEF OwnLeft

LEMMA OwnStarts ==
  ASSUME OwnLeft, OwnTransfers, OwnStart1d \/ OwnStart2d
  PROVE  OwnLeft' /\ OwnTransfers'
<1>1. PICK b \in BOOLEAN :
        /\ Dmcpy(<<"dm", Len(txids) + 1, b>>) /\ txids' = Append(txids, next_id)
        /\ own # << >> /\ own' = Tail(own) /\ Head(own)[1] \in {"1d", "2d"}
  BY DEF OwnStart1d, OwnStart2d, OwnStart, OwnCall, snrt_dma_start_1d, snrt_dma_start_2d
<1>2. /\ Len(inflight) < Depth /\ inflight' = Append(inflight, <<"dm", Len(txids) + 1, b>>)
      /\ next_id' = (next_id + 1) % IdWrap /\ UNCHANGED <<completed_id, complete>>
  BY <1>1 DEF Dmcpy
<1>3. /\ txids \in Seq(Nat) /\ inflight \in Seq({"dm"} \X Nat \X BOOLEAN)
      /\ Len(inflight) <= Len(txids) /\ next_id = (FirstId + Len(txids)) % IdWrap
  BY DEF OwnTransfers
<1>4. IdWrap \in Nat \ {0} /\ FirstId \in Nat /\ Depth \in Nat
  BY DmaAssumption
<1>5. PICK K \in Nat : K = Len(txids)
  BY <1>3
<1>6. PICK L \in Nat : L = Len(inflight)
  BY <1>3
<1>7. next_id \in Nat
  <2>1. FirstId + K \in Int
    BY <1>4
  <2>2. (FirstId + K) % IdWrap \in 0..(IdWrap - 1)
    BY <1>4, <2>1, DivMod
  <2>3. QED
    BY <1>3, <1>4, <1>5, <2>2
<1>8. /\ txids' \in Seq(Nat) /\ Len(txids') = K + 1 /\ txids'[K + 1] = next_id
      /\ \A k \in 1..K : txids'[k] = txids[k]
  BY <1>1, <1>3, <1>5, <1>7
<1>9. /\ inflight' \in Seq({"dm"} \X Nat \X BOOLEAN) /\ Len(inflight') = L + 1
      /\ inflight'[L + 1] = <<"dm", K + 1, b>> /\ \A i \in 1..L : inflight'[i] = inflight[i]
  <2>1. <<"dm", K + 1, b>> \in {"dm"} \X Nat \X BOOLEAN
    OBVIOUS
  <2>2. QED
    BY <1>2, <1>3, <1>5, <1>6, <2>1
<1>10. Ended' = Ended /\ Ended = K - L
  BY <1>5, <1>6, <1>8, <1>9 DEF Ended
<1>11. OwnLeft'
  BY <1>1, <1>3, <1>5, <1>8, OwnLeftNext
<1>12. OwnTransfers'
  <2>1. Len(inflight') <= Depth /\ Len(inflight') <= Len(txids')
    BY <1>2, <1>3, <1>4, <1>5, <1>6, <1>8, <1>9
  <2>2. next_id' = (FirstId + Len(txids')) % IdWrap
    <3>1. PICK a \in Int : a = FirstId + K
      BY <1>4
    <3>2. ((a % IdWrap) + 1) % IdWrap = (a + 1) % IdWrap
      BY <1>4, ModNext
    <3>3. next_id = a % IdWrap /\ FirstId + Len(txids') = a + 1
      BY <1>3, <1>4, <1>5, <1>8, <3>1
    <3>4. QED
      BY <1>2, <3>2, <3>3
  <2>3. completed_id' = (FirstId + Ended') % IdWrap
    BY <1>2, <1>10 DEF OwnTransfers
  <2>4. \A k \in 1..Len(txids') : txids'[k] = (FirstId + k - 1) % IdWrap
    <3>1. SUFFICES ASSUME NEW k \in 1..(K + 1) PROVE txids'[k] = (FirstId + k - 1) % IdWrap
      BY <1>8
    <3>2. CASE k \in 1..K
      BY <1>5, <1>8, <3>2 DEF OwnTransfers
    <3>3. CASE k = K + 1
      <4>1. FirstId + k - 1 = FirstId + K
        BY <1>4, <3>3
      <4>2. QED
        BY <1>3, <1>5, <1>8, <3>3, <4>1
    <3>4. QED
      BY <3>2, <3>3
  <2>5. \A i \in 1..Len(inflight') : inflight'[i][2] = Ended' + i
    <3>1. SUFFICES ASSUME NEW i \in 1..(L + 1) PROVE inflight'[i][2] = Ended + i
      BY <1>9, <1>10
    <3>2. CASE i \in 1..L
      BY <1>6, <1>9, <3>2 DEF OwnTransfers
    <3>3. CASE i = L + 1
      <4>1. Ended + i = K + 1
        BY <1>10, <3>3
      <4>2. QED
        BY <1>9, <3>3, <4>1
    <3>4. QED
      BY <3>2, <3>3
  <2>6. /\ \A j \in complete' : j[1] = "dm" /\ j[2] \in 1..Ended'
        /\ \A n \in 1..Ended' : \E j \in complete' : j[1] = "dm" /\ j[2] = n
        /\ \A j, k \in complete' : j[2] = k[2] => j = k
    BY <1>2, <1>10 DEF OwnTransfers
  <2>7. QED
    BY <1>8, <1>9, <2>1, <2>2, <2>3, <2>4, <2>5, <2>6 DEF OwnTransfers
<1>13. QED
  BY <1>11, <1>12

LEMMA OwnEnds ==
  ASSUME OwnTransfers, Transferred, UNCHANGED txids
  PROVE  OwnTransfers'
<1>1. /\ inflight # << >> /\ inflight' = Tail(inflight) /\ completed_id' = (completed_id + 1) % IdWrap
      /\ complete' = complete \cup {Head(inflight)} /\ next_id' = next_id /\ txids' = txids
  BY DEF Transferred
<1>2. /\ txids \in Seq(Nat) /\ inflight \in Seq({"dm"} \X Nat \X BOOLEAN) /\ Len(inflight) <= Depth
      /\ Len(inflight) <= Len(txids) /\ completed_id = (FirstId + Ended) % IdWrap
  BY DEF OwnTransfers
<1>3. IdWrap \in Nat \ {0} /\ FirstId \in Nat /\ Depth \in Nat
  BY DmaAssumption
<1>4. PICK K \in Nat : K = Len(txids)
  BY <1>2
<1>5. PICK L \in Nat \ {0} : L = Len(inflight)
  BY <1>1, <1>2, HeadTail
<1>6. /\ inflight' \in Seq({"dm"} \X Nat \X BOOLEAN) /\ Len(inflight') = L - 1 /\ Head(inflight) = inflight[1]
      /\ \A i \in 1..(L - 1) : inflight'[i] = inflight[i + 1]
      /\ Head(inflight) \in {"dm"} \X Nat \X BOOLEAN
  BY <1>1, <1>2, <1>5, HeadTail
<1>7. PICK D \in Nat : D = Ended
  <2>1. Ended = K - L /\ L <= K
    BY <1>2, <1>4, <1>5 DEF Ended
  <2>2. K - L \in Nat
    BY <2>1
  <2>3. QED
    BY <2>1, <2>2
<1>8. Ended' = D + 1 /\ D = K - L
  BY <1>1, <1>4, <1>5, <1>6, <1>7 DEF Ended
<1>9. Head(inflight)[1] = "dm" /\ Head(inflight)[2] = D + 1
  <2>1. 1 \in 1..Len(inflight)
    BY <1>5
  <2>2. inflight[1][2] = D + 1
    BY <1>7, <2>1 DEF OwnTransfers
  <2>3. QED
    BY <1>6, <2>2
<1>10. completed_id' = (FirstId + Ended') % IdWrap
  <2>1. PICK a \in Int : a = FirstId + D
    BY <1>3
  <2>2. ((a % IdWrap) + 1) % IdWrap = (a + 1) % IdWrap
    BY <1>3, ModNext
  <2>3. completed_id = a % IdWrap /\ FirstId + Ended' = a + 1
    BY <1>2, <1>3, <1>7, <1>8, <2>1
  <2>4. QED
    BY <1>1, <2>2, <2>3
<1>11. \A i \in 1..Len(inflight') : inflight'[i][2] = Ended' + i
  <2>1. SUFFICES ASSUME NEW i \in 1..(L - 1) PROVE inflight'[i][2] = D + 1 + i
    BY <1>6, <1>8
  <2>2. i + 1 \in 1..Len(inflight)
    BY <1>5
  <2>3. inflight[i + 1][2] = D + (i + 1)
    BY <1>7, <2>2 DEF OwnTransfers
  <2>4. QED
    BY <1>6, <2>3
<1>12. \A j \in complete : j[1] = "dm" /\ j[2] \in 1..D
  BY <1>7 DEF OwnTransfers
<1>13. \A j \in complete' : j[1] = "dm" /\ j[2] \in 1..Ended'
  BY <1>1, <1>8, <1>9, <1>12
<1>14. \A n \in 1..Ended' : \E j \in complete' : j[1] = "dm" /\ j[2] = n
  <2>1. SUFFICES ASSUME NEW n \in 1..(D + 1) PROVE \E j \in complete' : j[1] = "dm" /\ j[2] = n
    BY <1>8
  <2>2. CASE n \in 1..D
    BY <1>1, <1>7, <2>2 DEF OwnTransfers
  <2>3. CASE n = D + 1
    BY <1>1, <1>9, <2>3
  <2>4. QED
    BY <2>2, <2>3
<1>15. \A j, k \in complete' : j[2] = k[2] => j = k
  <2>1. \A j, k \in complete : j[2] = k[2] => j = k
    BY DEF OwnTransfers
  <2>2. \A j \in complete : j[2] # D + 1
    BY <1>12
  <2>3. QED
    BY <1>1, <1>9, <2>1, <2>2
<1>16. Len(inflight') <= Depth /\ Len(inflight') <= Len(txids')
  <2>1. L - 1 <= Depth /\ L - 1 <= K
    BY <1>2, <1>3, <1>4, <1>5
  <2>2. QED
    BY <1>1, <1>4, <1>6, <2>1
<1>17. QED
  BY <1>1, <1>2, <1>6, <1>10, <1>11, <1>13, <1>14, <1>15, <1>16 DEF OwnTransfers

LEMMA OwnNext == Control /\ OwnInv /\ [Next]_vars => OwnInv'
<1> SUFFICES ASSUME Control, OwnInv, [Next]_vars, dmpc' = "own" PROVE OwnLeft' /\ OwnTransfers'
  BY DEF OwnInv
<1>1. dmpc = "own"
  BY DEF Next, DaemonStep, vars, DmStep, DmLoad, DmAlloc, DmPublish, CheckFill, Issue, BumpBack, DropFill, CheckStat,
         Switch, SetValid, ClearRequest, CheckEmpty, CheckQuiet, Doze, Wfi, ClearIrq, Awake, DmGoto, EndOfLoop,
         Engine, OwnStep, OwnStart1d, OwnStart2d, OwnStart, OwnWait, OwnWaitAll, OwnRest, dmVars,
         ClientStep, ClientInit, Poll, Lock, Insert, InsertOned, InsertTwod, BumpFill, BumpFront, Release,
         AwaitWfi, SetIrq, Drain, Quiet, ClearValid, Ask, Answer, AllocLoad, AllocStore
<1>2. OwnLeft /\ OwnTransfers
  BY <1>1 DEF OwnInv
<1>3. ASSUME UNCHANGED <<own, txids>> PROVE OwnLeft'
  BY <1>2, <1>3 DEF OwnLeft
<1>4. ASSUME UNCHANGED <<txids, dmaVars>> PROVE OwnTransfers'
  BY <1>2, <1>4 DEF OwnTransfers, dmaVars, Ended
<1>5. CASE UNCHANGED vars
  BY <1>3, <1>4, <1>5 DEF vars, ownVars, engineVars
<1>6. CASE OwnStart1d \/ OwnStart2d
  BY <1>2, <1>6, OwnStarts
<1>7. CASE OwnWait \/ OwnWaitAll
  <2>1. /\ own # << >> /\ own' = Tail(own) /\ Head(own)[1] \in {"wait", "wait_all"} /\ UNCHANGED <<txids, dmaVars>>
    BY <1>7 DEF OwnWait, OwnWaitAll, OwnCall
  <2>2. txids \in Seq(Nat) /\ txids' \in Seq(Nat) /\ Len(txids') = Len(txids) + 0 /\ Head(own)[1] \notin {"1d", "2d"}
    BY <1>2, <2>1 DEF OwnTransfers
  <2>3. OwnLeft'
    BY <1>2, <2>1, <2>2, OwnLeftNext
  <2>4. QED
    BY <1>4, <2>1, <2>3
<1>8. CASE DaemonStep /\ UNCHANGED ownVars
  <2>1. UNCHANGED <<own, txids>>
    BY <1>8 DEF ownVars
  <2>2. CASE Engine
    BY <1>2, <1>3, <2>1, <2>2, OwnEnds DEF Engine
  <2>3. CASE DmStep
    <3>1. FALSE
      BY <1>1, <2>3 DEF DmStep, DmLoad, DmAlloc, DmPublish, CheckFill, Issue, BumpBack, DropFill, CheckStat,
         Switch, SetValid, ClearRequest, CheckEmpty, CheckQuiet, Doze, Wfi, ClearIrq, Awake, DmGoto, EndOfLoop
    <3>2. QED
      BY <3>1
  <2>4. ASSUME NEW c \in Clients, ClientStep(c) \/ Lock(c) PROVE UNCHANGED dmaVars
    BY <2>4 DEF ClientStep, ClientInit, Poll, Lock, Insert, InsertOned, InsertTwod, BumpFill, BumpFront, Release,
         AwaitWfi, SetIrq, Drain, Quiet, ClearValid, Ask, Answer, AllocLoad, AllocStore, engineVars
  <2>5. QED
    BY <1>3, <1>4, <1>8, <2>1, <2>2, <2>3, <2>4 DEF DaemonStep
<1>9. QED
  BY <1>5, <1>6, <1>7, <1>8 DEF Next, OwnStep

(* The DM core's waits.                                                    *)
LEMMA OwnWaits ==
  ASSUME OwnInv
  PROVE  /\ OwnWait => \E j \in complete : j[1] = "dm" /\ j[2] = Head(own)[2]
         /\ OwnWaitAll => Cardinality(JobsOf("dm")) = Len(txids)
<1>1. ASSUME OwnWait PROVE \E j \in complete : j[1] = "dm" /\ j[2] = Head(own)[2]
  <2>1. /\ OwnLeft /\ OwnTransfers /\ own # << >> /\ Head(own)[1] = "wait" /\ snrt_dma_wait(txids[Head(own)[2]])
    BY <1>1 DEF OwnWait, OwnCall, OwnInv
  <2>2. PICK p \in OwnPrograms, i \in Nat \ {0} :
          /\ own \in Seq(OwnCalls) /\ i + Len(own) = Len(p) + 1
          /\ \A m \in 1..Len(own) : own[m] = p[i + m - 1]
          /\ Len(txids) = StartsBefore(p, i)
    BY <2>1 DEF OwnLeft
  <2>3. Head(own) = own[1] /\ Len(own) \in Nat \ {0} /\ Head(own) \in OwnCalls
    BY <2>1, <2>2, HeadTail
  <2>4. Head(own) = p[i]
    <3>1. i + 1 - 1 = i /\ 1 \in 1..Len(own)
      BY <2>2, <2>3
    <3>2. QED
      BY <2>2, <2>3, <3>1
  <2>5. i \in 1..Len(p)
    <3>1. p \in Seq(OwnCalls)
      BY OwnAssumption
    <3>2. PICK n \in Nat : n = Len(p)
      BY <3>1
    <3>3. PICK l \in Nat \ {0} : l = Len(own)
      BY <2>3
    <3>4. QED
      BY <2>2, <3>2, <3>3
  <2>6. PICK k \in Nat \ {0} : Head(own)[2] = k
    <3>1. \A x \in OwnCalls : x[1] = "wait" => x[2] \in Nat \ {0}
      BY DEF OwnCalls
    <3>2. QED
      BY <2>1, <2>3, <3>1
  <2>7. PICK K \in Nat : K = Len(txids)
    BY <2>1 DEF OwnTransfers
  <2>8. k <= K /\ K - k + 1 < IdWrap \div 2
    BY <2>1, <2>2, <2>4, <2>5, <2>6, <2>7, OwnAssumption
  <2>9. PICK L \in Nat : L = Len(inflight) /\ L <= K /\ L <= IdWrap \div 2 /\ IdWrap \div 2 \in Nat
    <3>1. IdWrap \div 2 \in Nat /\ Depth <= IdWrap \div 2 /\ Depth \in Nat
      BY DmaAssumption
    <3>2. Len(inflight) \in Nat /\ Len(inflight) <= Depth /\ Len(inflight) <= K
      BY <2>1, <2>7 DEF OwnTransfers
    <3>3. QED
      BY <3>1, <3>2
  <2>10. PICK D \in Nat : D = K - L /\ Ended = D
    BY <2>7, <2>9 DEF Ended
  <2>11. PICK a \in Int : a = FirstId + k - 1
    BY DmaAssumption
  <2>12. PICK b \in Int : b = FirstId + D
    BY DmaAssumption
  <2>13. b - a = D - k + 1
    BY <2>11, <2>12, DmaAssumption
  <2>14. b - a < IdWrap \div 2 /\ a - b <= IdWrap \div 2
    BY <2>8, <2>9, <2>10, <2>13
  <2>15. completed_id = b % IdWrap /\ txids[k] = a % IdWrap
    BY <2>1, <2>7, <2>8, <2>10, <2>11, <2>12 DEF OwnTransfers
  <2>16. Signed(completed_id - txids[k]) = b - a
    BY <2>14, <2>15, SignedIs
  <2>17. k \in 1..D
    BY <2>1, <2>6, <2>13, <2>16 DEF snrt_dma_wait
  <2>18. QED
    BY <2>1, <2>6, <2>10, <2>17 DEF OwnTransfers
<1>2. ASSUME OwnWaitAll PROVE Cardinality(JobsOf("dm")) = Len(txids)
  <2>1. OwnTransfers /\ inflight = << >>
    BY <1>2 DEF OwnWaitAll, OwnCall, OwnInv, snrt_dma_wait_all
  <2>2. PICK K \in Nat : K = Len(txids) /\ Ended = K
    BY <2>1 DEF OwnTransfers, Ended
  <2>3. JobsOf("dm") = complete
    BY <2>1 DEF JobsOf, OwnTransfers
  <2>4. /\ \A j \in complete : j[2] \in 1..K
        /\ \A n \in 1..K : \E j \in complete : j[2] = n
        /\ \A j, k \in complete : j[2] = k[2] => j = k
    BY <2>1, <2>2 DEF OwnTransfers
  <2>5. QED
    BY <2>2, <2>3, <2>4, CountJobs
<1>3. QED
  BY <1>1, <1>2

(* snrt_dma_wait returns only when the transfer is complete, although the  *)
(* identifiers wrap and are compared as signed differences, and            *)
(* snrt_dma_wait_all only when all are: for any width of the identifiers   *)
(* and any depth of the engine up to half of them.                         *)
THEOREM DmaWaitsCover == Spec => DmaWaitCovers
<1>1. OwnInv /\ [Next]_vars =>
        [/\ OwnWait => \E j \in complete : j[1] = "dm" /\ j[2] = Head(own)[2]
         /\ OwnWaitAll => Cardinality(JobsOf("dm")) = Len(txids)]_vars
  BY OwnWaits
<1>2. QED
  BY <1>1, OwnInit, OwnNext, ControlCorrect, PTL DEF Spec, DmaWaitCovers
------------------------------------------------------------------------------
(* Where the transfers are: one that was started is under way or complete. *)
UnderWay == Items(Waiting) \cup Items(inflight)
Transfers == Jobs \cup ({"dm"} \X Nat \X BOOLEAN)

JobInv ==
  /\ inflight \in Seq(Transfers)
  /\ \A j \in Items(started) : j \in complete \/ j \in Items(inflight)

NoWaiting(c) == \A j \in Items(Waiting) : j[1] # c
Finished(c) == \A j \in UnderWay : j[1] # c

(* Only a client that writes a transfer or queues it adds one of its own.  *)
QueueStep(c) == InsertOned(c) \/ InsertTwod(c) \/ BumpFill(c)

LEMMA AppendItems ==
  ASSUME NEW T, NEW s \in Seq(T), NEW x \in T
  PROVE  Append(s, x) \in Seq(T) /\ Items(Append(s, x)) = Items(s) \cup {x}
<1>1. /\ Len(s) \in Nat /\ Append(s, x) \in Seq(T) /\ Len(Append(s, x)) = Len(s) + 1 /\ Append(s, x)[Len(s) + 1] = x
      /\ \A i \in 1..Len(s) : Append(s, x)[i] = s[i]
  OBVIOUS
<1>2. 1..(Len(s) + 1) = 1..Len(s) \cup {Len(s) + 1}
  BY <1>1
<1>3. QED
  BY <1>1, <1>2 DEF Items

LEMMA TailItems ==
  ASSUME NEW T, NEW s \in Seq(T), s # << >>
  PROVE  Tail(s) \in Seq(T) /\ Head(s) \in T /\ Items(s) = Items(Tail(s)) \cup {Head(s)}
<1>1. /\ Head(s) \in T /\ Head(s) = s[1] /\ Tail(s) \in Seq(T)
      /\ Len(s) \in Nat \ {0} /\ Len(Tail(s)) = Len(s) - 1
      /\ \A i \in 1..(Len(s) - 1) : Tail(s)[i] = s[i + 1]
  BY HeadTail
<1>2. ASSUME NEW x \in Items(s) PROVE x \in Items(Tail(s)) \cup {Head(s)}
  <2>1. PICK i \in 1..Len(s) : x = s[i]
    BY <1>2 DEF Items
  <2>2. CASE i = 1
    BY <1>1, <2>1, <2>2
  <2>3. CASE i # 1
    <3>1. i - 1 \in 1..(Len(s) - 1) /\ (i - 1) + 1 = i
      BY <1>1, <2>3
    <3>2. Tail(s)[i - 1] = s[i]
      BY <1>1, <3>1
    <3>3. QED
      BY <1>1, <2>1, <3>1, <3>2 DEF Items
  <2>4. QED
    BY <2>2, <2>3
<1>3. ASSUME NEW x \in Items(Tail(s)) PROVE x \in Items(s)
  <2>1. PICK i \in 1..(Len(s) - 1) : x = Tail(s)[i]
    BY <1>1, <1>3 DEF Items
  <2>2. i + 1 \in 1..Len(s) /\ x = s[i + 1]
    BY <1>1, <2>1
  <2>3. QED
    BY <2>2 DEF Items
<1>4. Head(s) \in Items(s)
  BY <1>1 DEF Items
<1>5. QED
  BY <1>1, <1>2, <1>3, <1>4

LEMMA JobInit == Init => JobInv
<1> SUFFICES ASSUME Init PROVE JobInv
  OBVIOUS
<1>1. started = << >> /\ inflight = << >>
  BY DEF Init, DmaInit
<1>2. Items(started) = {}
  BY <1>1 DEF Items
<1>3. QED
  BY <1>1, <1>2 DEF JobInv

LEMMA QueueStepMoves ==
  ASSUME Control
  PROVE  \A c \in Clients : QueueStep(c) => pc[c] \in {"insert", "fill"} /\ pc'[c] # pc[c]
BY DEF QueueStep, InsertOned, InsertTwod, Insert, BumpFill, Goto, Control, ClientsExact

(* A client's job that it writes over others, or that it appends.          *)
LEMMA JobWrites ==
  ASSUME DmInv, JobInv, NEW c \in Clients, NEW b \in BOOLEAN, Writes(c, b) \/ Queues(c, b)
  PROVE  /\ JobInv'
         /\ \A d \in Clients \ {c} : (NoWaiting(d) => NoWaiting(d)') /\ (Finished(d) => Finished(d)')
<1>1. PICK j \in Jobs : j = <<c, queued[c] + 1, b>>
  BY DEF Writes, Queues
<1>2. /\ Waiting' = Overwritten(Waiting, j) \/ Waiting' = Append(Waiting, j)
      /\ UNCHANGED <<inflight, complete, started>>
  BY <1>1 DEF Writes, Queues, InsertOned, InsertTwod, Insert, BumpFill, engineVars, dmaVars
<1>3. Waiting \in Seq(Jobs)
  BY WaitingIs DEF DmInv
<1>4. Items(Waiting') \subseteq Items(Waiting) \cup {j}
  <2>1. CASE Waiting' = Append(Waiting, j)
    BY <1>3, <2>1, AppendItems
  <2>2. CASE Waiting' = Overwritten(Waiting, j)
    <3>1. Len(Waiting) \in Nat
      BY <1>3
    <3>2. Len(Waiting') = Len(Waiting) /\ \A i \in 1..Len(Waiting) : Waiting'[i] = j \/ Waiting'[i] = Waiting[i]
      BY <2>2, <3>1 DEF Overwritten
    <3>3. QED
      BY <3>2 DEF Items
  <2>3. QED
    BY <1>2, <2>1, <2>2
<1>5. UnderWay' \subseteq UnderWay \cup {j} /\ j[1] = c
  BY <1>1, <1>2, <1>4 DEF UnderWay
<1>6. \A d \in Clients \ {c} : (NoWaiting(d) => NoWaiting(d)') /\ (Finished(d) => Finished(d)')
  BY <1>4, <1>5 DEF NoWaiting, Finished
<1>7. QED
  BY <1>2, <1>6 DEF JobInv

LEMMA JobStarts ==
  ASSUME DmInv, JobInv, Starts
  PROVE  /\ JobInv'
         /\ \A d \in Clients : (NoWaiting(d) => NoWaiting(d)') /\ (Finished(d) => Finished(d)')
<1>1. /\ Waiting # << >> /\ Waiting' = Tail(Waiting) /\ inflight' = Append(inflight, Head(Waiting))
      /\ started' = Append(started, Head(Waiting)) /\ UNCHANGED complete
  BY DEF Starts, Issue, Dmcpy
<1>2. Waiting \in Seq(Jobs) /\ inflight \in Seq(Transfers) /\ started \in Seq(Jobs)
  BY WaitingIs DEF DmInv, JobInv, QueueInv
<1>3. Head(Waiting) \in Jobs /\ Items(Waiting) = Items(Waiting') \cup {Head(Waiting)}
  BY <1>1, <1>2, TailItems
<1>4. Head(Waiting) \in Transfers
  BY <1>3 DEF Transfers
<1>5. inflight' \in Seq(Transfers) /\ Items(inflight') = Items(inflight) \cup {Head(Waiting)}
  BY <1>1, <1>2, <1>4, AppendItems
<1>6. Items(started') = Items(started) \cup {Head(Waiting)}
  BY <1>1, <1>2, <1>3, AppendItems
<1>7. UnderWay' = UnderWay
  BY <1>3, <1>5 DEF UnderWay
<1>8. JobInv'
  BY <1>1, <1>5, <1>6 DEF JobInv
<1>9. QED
  BY <1>3, <1>7, <1>8 DEF NoWaiting, Finished

LEMMA JobElsewhere ==
  ASSUME OwnInv, JobInv, UNCHANGED <<Waiting, started>>,
         UNCHANGED <<inflight, complete>> \/ Engine \/ OwnStart1d \/ OwnStart2d
  PROVE  /\ JobInv'
         /\ \A d \in Clients : (NoWaiting(d) => NoWaiting(d)') /\ (Finished(d) => Finished(d)')
<1>1. inflight \in Seq(Transfers) /\ Items(Waiting') = Items(Waiting) /\ Items(started') = Items(started)
  BY DEF JobInv
<1>2. CASE UNCHANGED <<inflight, complete>>
  BY <1>1, <1>2 DEF JobInv, UnderWay, NoWaiting, Finished
<1>3. CASE Engine
  <2>1. inflight # << >> /\ inflight' = Tail(inflight) /\ complete' = complete \cup {Head(inflight)}
    BY <1>3 DEF Engine, Transferred
  <2>2. inflight' \in Seq(Transfers) /\ Items(inflight) = Items(inflight') \cup {Head(inflight)}
    BY <1>1, <2>1, TailItems
  <2>3. UnderWay' \subseteq UnderWay
    BY <1>1, <2>2 DEF UnderWay
  <2>4. JobInv'
    BY <1>1, <2>1, <2>2 DEF JobInv
  <2>5. QED
    BY <1>1, <2>3, <2>4 DEF NoWaiting, Finished
<1>4. CASE OwnStart1d \/ OwnStart2d
  <2>1. PICK b \in BOOLEAN : inflight' = Append(inflight, <<"dm", Len(txids) + 1, b>>) /\ complete' = complete /\ dmpc = "own"
    BY <1>4 DEF OwnStart1d, OwnStart2d, OwnStart, OwnCall, snrt_dma_start_1d, snrt_dma_start_2d, Dmcpy
  <2>2. PICK j \in Transfers : j = <<"dm", Len(txids) + 1, b>>
    <3>1. Len(txids) \in Nat
      BY <2>1 DEF OwnInv, OwnTransfers
    <3>2. Len(txids) + 1 \in Nat
      BY <3>1
    <3>3. <<"dm", Len(txids) + 1, b>> \in {"dm"} \X Nat \X BOOLEAN
      BY <3>2
    <3>4. QED
      BY <3>3 DEF Transfers
  <2>3. inflight' = Append(inflight, j)
    BY <2>1, <2>2
  <2>4. inflight' \in Seq(Transfers) /\ Items(inflight') = Items(inflight) \cup {j}
    BY <1>1, <2>3, AppendItems
  <2>5. UnderWay' = UnderWay \cup {j} /\ j[1] = "dm" /\ "dm" \notin Clients
    BY <1>1, <2>2, <2>4, CallFacts DEF UnderWay
  <2>6. JobInv'
    BY <1>1, <2>1, <2>4 DEF JobInv
  <2>7. QED
    BY <1>1, <2>5, <2>6 DEF NoWaiting, Finished
<1>5. QED
  BY <1>2, <1>3, <1>4

LEMMA JobNext ==
  ASSUME DmInv, OwnInv, JobInv, [Next]_vars
  PROVE  /\ JobInv'
         /\ \A c \in Clients : ~QueueStep(c) => (NoWaiting(c) => NoWaiting(c)') /\ (Finished(c) => Finished(c)')
<1>1. CASE Starts
  BY <1>1, JobStarts
<1>2. ASSUME NEW c \in Clients, NEW b \in BOOLEAN, Queues(c, b) \/ Writes(c, b)
      PROVE  /\ JobInv'
             /\ \A d \in Clients : ~QueueStep(d) => (NoWaiting(d) => NoWaiting(d)') /\ (Finished(d) => Finished(d)')
  <2>1. QueueStep(c)
    BY <1>2 DEF Queues, Writes, QueueStep
  <2>2. QED
    BY <1>2, <2>1, JobWrites
<1>3. ASSUME NEW c \in Clients, ClientStep(c) \/ Lock(c), Aside(c)
      PROVE  JobInv' /\ \A d \in Clients : (NoWaiting(d) => NoWaiting(d)') /\ (Finished(d) => Finished(d)')
  <2>1. UNCHANGED <<inflight, complete>>
    BY <1>3 DEF ClientStep, ClientInit, Poll, Lock, Insert, InsertOned, InsertTwod, BumpFill, BumpFront, Release,
       AwaitWfi, SetIrq, Drain, Quiet, ClearValid, Ask, Answer, AllocLoad, AllocStore, engineVars, dmaVars
  <2>2. QED
    BY <1>3, <2>1, JobElsewhere DEF Aside
<1>4. CASE Elsewhere
  <2>1. UNCHANGED <<inflight, complete>> \/ Engine \/ OwnStart1d \/ OwnStart2d
    BY <1>4 DEF Elsewhere, vars, DmStep, DmLoad, DmAlloc, DmPublish, CheckFill, BumpBack, DropFill, CheckStat,
       Switch, SetValid, ClearRequest, CheckEmpty, CheckQuiet, Doze, Wfi, ClearIrq, Awake, OwnStep, OwnWait, OwnWaitAll,
       engineVars, dmaVars
  <2>2. QED
    BY <1>4, <2>1, JobElsewhere DEF Elsewhere
<1>5. QED
  BY <1>1, <1>2, <1>3, <1>4, QueueNext DEF DmInv
------------------------------------------------------------------------------
(* A request is made under the mutex, and answered while its client waits  *)
(* for the answer: what the DM core reads in stat_q, unless it is about to *)
(* clear it, is the request of the client that waits, and it answers "wait" *)
(* once that client's transfers are complete.  dm_exit writes stat_q       *)
(* without the mutex, which can lose a request and forges none.            *)
Asking(c) == pc[c] \in {"wake2", "set2", "answer"} /\ Call(c) \in {"wait", "ready"}
Granted(c) == Call(c) = "wait" => Finished(c)
Drained == {"quiet", "lock", "clear", "ask", "wake2", "set2", "answer", "release"}

WaitInv ==
  /\ \A c \in Clients : pc[c] \in Drained /\ Call(c) = "wait" => NoWaiting(c)
  /\ stat_q \in {"wait", "ready"} /\ dmpc # "clear" =>
       ~stat_pvalid /\ \E c \in Clients : Asking(c) /\ Call(c) = stat_q
  /\ dmpc = "valid" => ~stat_pvalid /\ \E c \in Clients : Asking(c) /\ Granted(c)
  /\ \A c \in Clients : Asking(c) /\ stat_pvalid => Granted(c)
  /\ \A c \in Clients : pc[c] = "ask" /\ Call(c) # "exit" => ~stat_pvalid
  /\ \A c \in Clients : pc[c] = "release" => Granted(c)

(* What JobNext says of the clients.                                       *)
JobsKept == \A c \in Clients : ~QueueStep(c) => (NoWaiting(c) => NoWaiting(c)') /\ (Finished(c) => Finished(c)')

(* A client's step that leaves the request and its answer alone.           *)
LEMMA WaitKept ==
  ASSUME Control, WaitInv, JobsKept, NEW c \in Clients,
         \A d \in Clients \ {c} : pc'[d] = pc[d] /\ program'[d] = program[d],
         UNCHANGED <<dmpc, stat_q, stat_pvalid>>,
         Asking(c) <=> Asking(c)', Asking(c) => Call(c)' = Call(c),
         pc'[c] \in Drained /\ Call(c)' = "wait" => NoWaiting(c)',
         pc'[c] = "ask" => Call(c)' = "exit",
         pc'[c] = "release" => Granted(c)'
  PROVE  WaitInv'
<1>1. \A d \in Clients \ {c} : pc'[d] = pc[d] /\ Call(d)' = Call(d)
  BY DEF Call
<1>2. \A d \in Clients : QueueStep(d) => pc[d] \in {"insert", "fill"} /\ pc'[d] # pc[d]
  BY QueueStepMoves DEF DmInv
<1>3. \A d \in Clients \ {c} : (NoWaiting(d) => NoWaiting(d)') /\ (Finished(d) => Finished(d)')
  BY <1>1, <1>2 DEF JobsKept
<1>4. \A d \in Clients : (Asking(d) <=> Asking(d)') /\ (Asking(d) => Call(d)' = Call(d))
  BY <1>1 DEF Asking
<1>5. \A d \in Clients : Asking(d) => ~QueueStep(d)
  BY <1>2 DEF Asking
<1>6. \A d \in Clients : Asking(d) /\ Granted(d) => Granted(d)'
  BY <1>4, <1>5 DEF Granted, JobsKept
<1>7. \A d \in Clients : pc'[d] \in Drained /\ Call(d)' = "wait" => NoWaiting(d)'
  BY <1>1, <1>3 DEF WaitInv
<1>8. (stat_q \in {"wait", "ready"} /\ dmpc # "clear")' =>
        ~stat_pvalid' /\ \E d \in Clients : Asking(d)' /\ Call(d)' = stat_q'
  BY <1>4 DEF WaitInv
<1>9. dmpc' = "valid" => ~stat_pvalid' /\ \E d \in Clients : Asking(d)' /\ Granted(d)'
  BY <1>4, <1>6 DEF WaitInv
<1>10. \A d \in Clients : Asking(d)' /\ stat_pvalid' => Granted(d)'
  BY <1>4, <1>6 DEF WaitInv
<1>11. \A d \in Clients : pc'[d] = "ask" /\ Call(d)' # "exit" => ~stat_pvalid'
  BY <1>1 DEF WaitInv
<1>12. \A d \in Clients : pc'[d] = "release" => Granted(d)'
  BY <1>1, <1>3 DEF WaitInv, Granted
<1>13. QED
  BY <1>7, <1>8, <1>9, <1>10, <1>11, <1>12 DEF WaitInv

LEMMA WaitClient ==
  ASSUME DmInv, WaitInv, JobsKept, NEW c \in Clients, ClientStep(c) \/ Lock(c)
  PROVE  WaitInv'
<1>1. /\ program \in [Clients -> Seq(Calls)] /\ pc \in [Clients -> ClientLabels] /\ PcExact(c)
      /\ \A d \in Clients : mutex = d <=> pc[d] # "init" /\ HoldsAt(pc[d], Call(d))
  BY DEF DmInv, Control, ClientsExact
<1>2. program[c] \in Seq(Calls) /\ (program[c] # << >> => Tail(program[c]) \in Seq(Calls))
  BY <1>1
<1>3. Control /\ \A d \in Clients \ {c} : pc'[d] = pc[d] /\ program'[d] = program[d]
  BY OthersKept DEF DmInv
<1>4. dmpc' = dmpc
  BY DEF ClientStep, ClientInit, Poll, Lock, Insert, InsertOned, InsertTwod, BumpFill, BumpFront, Release,
         AwaitWfi, SetIrq, Drain, Quiet, ClearValid, Ask, Answer, AllocLoad, AllocStore, dmVars
<1>5. ~Ask(c) /\ ~ClearValid(c) => UNCHANGED <<stat_q, stat_pvalid>>
  BY DEF ClientStep, ClientInit, Poll, Lock, Insert, InsertOned, InsertTwod, BumpFill, BumpFront, Release,
         AwaitWfi, SetIrq, Drain, Quiet, Answer, AllocLoad, AllocStore, statVars
<1>6. ASSUME NEW calls \in Seq(Calls), program'[c] = calls, pc'[c] = First(calls), ~Asking(c), UNCHANGED <<stat_q, stat_pvalid>>
      PROVE  WaitInv'
  <2>1. /\ pc'[c] \in {"done", "poll", "wake", "lock", "ask", "load"}
        /\ pc'[c] = "lock" => Call(c)' = "ready"
        /\ pc'[c] = "ask" => Call(c)' = "exit"
    BY <1>6, FirstFacts DEF Call
  <2>2. ~Asking(c)'
    BY <2>1 DEF Asking
  <2>3. pc'[c] \in Drained => Call(c)' \in {"ready", "exit"}
    BY <2>1 DEF Drained
  <2>4. pc'[c] # "release"
    BY <2>1
  <2>5. QED
    BY <1>3, <1>4, <1>6, <2>1, <2>2, <2>3, <2>4, WaitKept
<1>7. ASSUME NEW to, Goto(c, to), UNCHANGED <<stat_q, stat_pvalid>>, to # "ask",
             Asking(c) <=> to \in {"wake2", "set2", "answer"},
             to \in Drained /\ Call(c) = "wait" => NoWaiting(c) /\ ~QueueStep(c),
             to = "release" => Call(c) # "wait"
      PROVE  WaitInv'
  <2>1. pc'[c] = to /\ Call(c)' = Call(c)
    BY <1>1, <1>7 DEF Goto, Call
  <2>2. Asking(c) <=> Asking(c)'
    <3>1. to \in {"wake2", "set2", "answer"} /\ Asking(c) => Asking(c)'
      BY <2>1 DEF Asking
    <3>2. Asking(c)' => to \in {"wake2", "set2", "answer"}
      BY <2>1 DEF Asking
    <3>3. QED
      BY <1>7, <3>1, <3>2
  <2>3. pc'[c] \in Drained /\ Call(c)' = "wait" => NoWaiting(c)'
    BY <1>7, <2>1 DEF JobsKept
  <2>4. pc'[c] = "release" => Granted(c)'
    BY <1>7, <2>1 DEF Granted
  <2>5. pc'[c] # "ask"
    BY <1>7, <2>1
  <2>6. QED
    BY <1>3, <1>4, <1>7, <2>1, <2>2, <2>3, <2>4, <2>5, WaitKept
<1>8. CASE ClientInit(c)
  <2>1. program'[c] = program[c] /\ pc'[c] = First(program[c]) /\ ~Asking(c) /\ UNCHANGED <<stat_q, stat_pvalid>>
    BY <1>1, <1>8 DEF ClientInit, Goto, Asking, statVars
  <2>2. QED
    BY <1>2, <1>6, <2>1
<1>9. CASE Release(c) \/ AllocStore(c) \/ (SetIrq(c) /\ Call(c) \in {"start", "exit"})
  <2>1. Return(c) /\ pc[c] \in {"release", "alloc", "set", "set2"} /\ UNCHANGED <<stat_q, stat_pvalid>>
    BY <1>9 DEF Release, AllocStore, SetIrq, statVars
  <2>2. program[c] # << >> /\ ~Asking(c)
    BY <1>1, <1>9, <2>1 DEF PcExact, Asking, Release, AllocStore
  <2>3. program'[c] = Tail(program[c]) /\ pc'[c] = First(Tail(program[c]))
    BY <1>1, <2>1 DEF Return
  <2>4. QED
    BY <1>2, <1>6, <2>1, <2>2, <2>3
<1>10. CASE SetIrq(c) /\ Call(c) \notin {"start", "exit"}
  <2>1. pc[c] \in {"set", "set2"} /\ Call(c) \in {"wait", "ready"}
    BY <1>1, <1>10 DEF SetIrq, PcExact, CallsAt
  <2>2. Goto(c, IF pc[c] = "set" THEN "drain" ELSE "answer") /\ ~QueueStep(c)
    BY <1>10, <2>1 DEF SetIrq, QueueStep, InsertOned, InsertTwod, BumpFill
  <2>3. CASE pc[c] = "set"
    <3>1. Goto(c, "drain") /\ ~Asking(c) /\ "drain" \notin Drained
      BY <2>2, <2>3 DEF Asking, Drained
    <3>2. QED
      BY <1>5, <1>7, <1>10, <2>1, <3>1 DEF Ask, ClearValid
  <2>4. CASE pc[c] = "set2"
    <3>1. Goto(c, "answer") /\ Asking(c) /\ pc[c] \in Drained
      BY <2>1, <2>2, <2>4 DEF Asking, Drained
    <3>2. Call(c) = "wait" => NoWaiting(c)
      BY <3>1 DEF WaitInv
    <3>3. QED
      BY <1>5, <1>7, <2>1, <2>2, <3>1, <3>2 DEF Ask, ClearValid
  <2>5. QED
    BY <2>1, <2>3, <2>4
<1>11. CASE Poll(c) \/ InsertOned(c) \/ InsertTwod(c) \/ BumpFill(c) \/ BumpFront(c)
  <2>1. pc[c] \in {"poll", "insert", "fill", "front"} /\ \E to \in {"lock", "fill", "front", "release"} : Goto(c, to)
    BY <1>11 DEF Poll, InsertOned, InsertTwod, Insert, BumpFill, BumpFront
  <2>2. Call(c) # "wait" /\ ~Asking(c)
    BY <1>1, <2>1 DEF PcExact, CallsAt, Copies, Asking
  <2>3. QED
    BY <1>5, <1>7, <2>1, <2>2 DEF Ask, ClearValid
<1>12. CASE AllocLoad(c)
  <2>1. pc[c] = "load" /\ Goto(c, "alloc") /\ ~Asking(c) /\ "alloc" \notin Drained
    BY <1>12 DEF AllocLoad, Asking, Drained
  <2>2. QED
    BY <1>5, <1>7, <2>1 DEF Ask, ClearValid
<1>13. CASE Lock(c)
  <2>1. pc[c] = "lock" /\ Goto(c, IF Call(c) \in Copies THEN "insert" ELSE "clear") /\ ~Asking(c) /\ ~QueueStep(c) /\ pc[c] \in Drained
    BY <1>13 DEF Lock, Asking, QueueStep, InsertOned, InsertTwod, BumpFill, Drained
  <2>2. Call(c) = "wait" => NoWaiting(c)
    BY <2>1 DEF WaitInv
  <2>3. \E to \in {"insert", "clear"} : Goto(c, to)
    BY <2>1
  <2>4. QED
    BY <1>5, <1>7, <2>1, <2>2, <2>3 DEF Ask, ClearValid
<1>14. CASE AwaitWfi(c)
  <2>1. pc[c] \in {"wake", "wake2"} /\ Goto(c, IF pc[c] = "wake" THEN "set" ELSE "set2") /\ ~QueueStep(c)
    BY <1>14 DEF AwaitWfi, QueueStep, InsertOned, InsertTwod, BumpFill
  <2>2. CASE pc[c] = "wake"
    <3>1. Goto(c, "set") /\ ~Asking(c) /\ "set" \notin Drained
      BY <2>1, <2>2 DEF Asking, Drained
    <3>2. QED
      BY <1>5, <1>7, <2>2, <3>1 DEF Ask, ClearValid
  <2>3. CASE pc[c] = "wake2" /\ Asking(c)
    <3>1. Goto(c, "set2") /\ pc[c] \in Drained
      BY <2>1, <2>3 DEF Drained
    <3>2. Call(c) = "wait" => NoWaiting(c)
      BY <3>1 DEF WaitInv
    <3>3. QED
      BY <1>5, <1>7, <2>1, <2>3, <3>1, <3>2 DEF Ask, ClearValid
  <2>4. CASE pc[c] = "wake2" /\ ~Asking(c)
    <3>1. pc'[c] = "set2" /\ Call(c)' = Call(c) /\ Call(c) = "exit"
      BY <1>1, <2>1, <2>4 DEF Goto, Call, PcExact, CallsAt, Asking
    <3>2. ~Asking(c)'
      BY <3>1 DEF Asking
    <3>3. UNCHANGED <<stat_q, stat_pvalid>>
      BY <1>5, <2>4 DEF Ask, ClearValid
    <3>4. QED
      BY <1>3, <1>4, <2>4, <3>1, <3>2, <3>3, WaitKept
  <2>5. QED
    BY <2>1, <2>2, <2>3, <2>4
<1>15. CASE Drain(c)
  <2>1. pc[c] = "drain" /\ queue_fill = 0 /\ Goto(c, "quiet") /\ ~Asking(c) /\ ~QueueStep(c)
    BY <1>15 DEF Drain, Asking, QueueStep, InsertOned, InsertTwod, BumpFill
  <2>2. Len(Waiting) = 0
    BY <2>1, WaitingIs DEF DmInv
  <2>3. NoWaiting(c)
    BY <2>2 DEF NoWaiting, Items
  <2>4. QED
    BY <1>5, <1>7, <2>1, <2>3 DEF Ask, ClearValid
<1>16. CASE Quiet(c)
  <2>1. pc[c] = "quiet" /\ Goto(c, "lock") /\ ~Asking(c) /\ ~QueueStep(c) /\ pc[c] \in Drained
    BY <1>16 DEF Quiet, Asking, QueueStep, InsertOned, InsertTwod, BumpFill, Drained
  <2>2. Call(c) = "wait" => NoWaiting(c)
    BY <2>1 DEF WaitInv
  <2>3. QED
    BY <1>5, <1>7, <2>1, <2>2 DEF Ask, ClearValid
<1>17. CASE Answer(c)
  <2>1. pc[c] = "answer" /\ stat_pvalid /\ pc'[c] = "release" /\ Call(c)' = Call(c) /\ Call(c) \in {"wait", "ready"}
    BY <1>1, <1>17 DEF Answer, Goto, Call, PcExact, CallsAt
  <2>2. UNCHANGED <<stat_q, stat_pvalid>> /\ ~QueueStep(c)
    BY <1>5, <2>1 DEF Ask, ClearValid, QueueStep, InsertOned, InsertTwod, BumpFill
  <2>3. Asking(c) /\ Granted(c)
    BY <2>1 DEF Asking, WaitInv
  <2>4. Granted(c)' /\ (Call(c)' = "wait" => NoWaiting(c)')
    BY <2>1, <2>2, <2>3 DEF Granted, JobsKept, WaitInv, Drained
  <2>5. \A d \in Clients \ {c} : pc'[d] = pc[d] /\ Call(d)' = Call(d)
    BY <1>3 DEF Call
  <2>6. \A d \in Clients : QueueStep(d) => pc[d] \in {"insert", "fill"} /\ pc'[d] # pc[d]
    BY QueueStepMoves DEF DmInv
  <2>7. \A d \in Clients \ {c} : (NoWaiting(d) => NoWaiting(d)') /\ (Finished(d) => Finished(d)')
    BY <2>5, <2>6 DEF JobsKept
  <2>8. ~(stat_q' \in {"wait", "ready"} /\ dmpc' # "clear") /\ dmpc' # "valid"
    BY <1>4, <2>1, <2>2 DEF WaitInv
  <2>9. \A d \in Clients \ {c} : /\ pc'[d] \in Drained /\ Call(d)' = "wait" => NoWaiting(d)'
                                 /\ Asking(d)' /\ stat_pvalid' => Granted(d)'
                                 /\ pc'[d] = "ask" /\ Call(d)' # "exit" => ~stat_pvalid'
                                 /\ pc'[d] = "release" => Granted(d)'
    BY <2>2, <2>5, <2>7 DEF WaitInv, Asking, Granted
  <2>10. QED
    BY <2>1, <2>4, <2>8, <2>9 DEF WaitInv, Asking
<1>18. CASE ClearValid(c)
  <2>1. /\ pc[c] = "clear" /\ pc'[c] = "ask" /\ Call(c)' = Call(c) /\ Call(c) \in {"wait", "ready"}
        /\ stat_pvalid' = FALSE /\ stat_q' = stat_q /\ ~QueueStep(c)
    BY <1>1, <1>18 DEF ClearValid, Goto, Call, PcExact, CallsAt, QueueStep, InsertOned, InsertTwod, BumpFill
  <2>2. \A d \in Clients \ {c} : pc'[d] = pc[d] /\ Call(d)' = Call(d)
    BY <1>3 DEF Call
  <2>3. \A d \in Clients : QueueStep(d) => pc[d] \in {"insert", "fill"} /\ pc'[d] # pc[d]
    BY QueueStepMoves DEF DmInv
  <2>4. \A d \in Clients : (NoWaiting(d) => NoWaiting(d)') /\ (d # c \/ ~QueueStep(c) => (Finished(d) => Finished(d)'))
    BY <2>1, <2>2, <2>3 DEF JobsKept
  <2>5. \A d \in Clients : Asking(d) => Asking(d)' /\ Call(d)' = Call(d) /\ (Granted(d) => Granted(d)')
    BY <2>1, <2>2, <2>4 DEF Asking, Granted
  <2>6. \A d \in Clients : pc'[d] \in Drained /\ Call(d)' = "wait" => NoWaiting(d)'
    BY <2>1, <2>2, <2>4 DEF WaitInv, Drained
  <2>7. \A d \in Clients : pc'[d] = "release" => Granted(d)'
    BY <2>1, <2>2, <2>4 DEF WaitInv, Granted
  <2>8. (stat_q' \in {"wait", "ready"} /\ dmpc' # "clear") => \E d \in Clients : Asking(d)' /\ Call(d)' = stat_q'
    BY <1>4, <2>1, <2>5 DEF WaitInv
  <2>9. dmpc' = "valid" => \E d \in Clients : Asking(d)' /\ Granted(d)'
    BY <1>4, <2>5 DEF WaitInv
  <2>10. QED
    BY <2>1, <2>6, <2>7, <2>8, <2>9 DEF WaitInv
<1>19. CASE Ask(c)
  <2>1. /\ pc[c] = "ask" /\ pc'[c] = "wake2" /\ Call(c)' = Call(c) /\ Call(c) \in {"wait", "ready", "exit"}
        /\ stat_pvalid' = stat_pvalid /\ stat_q' = Call(c) /\ ~QueueStep(c)
    BY <1>1, <1>19 DEF Ask, Goto, Call, PcExact, CallsAt, QueueStep, InsertOned, InsertTwod, BumpFill
  <2>2. \A d \in Clients \ {c} : pc'[d] = pc[d] /\ Call(d)' = Call(d)
    BY <1>3 DEF Call
  <2>3. \A d \in Clients : QueueStep(d) => pc[d] \in {"insert", "fill"} /\ pc'[d] # pc[d]
    BY QueueStepMoves DEF DmInv
  <2>4. \A d \in Clients : (NoWaiting(d) => NoWaiting(d)') /\ (Finished(d) => Finished(d)')
    BY <2>1, <2>2, <2>3 DEF JobsKept
  <2>5. \A d \in Clients : Asking(d) => Asking(d)' /\ Call(d)' = Call(d) /\ (Granted(d) => Granted(d)')
    BY <2>1, <2>2, <2>4 DEF Asking, Granted
  <2>6. \A d \in Clients : pc'[d] \in Drained /\ Call(d)' = "wait" => NoWaiting(d)'
    BY <2>1, <2>2, <2>4 DEF WaitInv, Drained
  <2>7. \A d \in Clients : pc'[d] = "release" => Granted(d)'
    BY <2>1, <2>2, <2>4 DEF WaitInv, Granted
  <2>8. Call(c) # "exit" => ~stat_pvalid
    BY <2>1 DEF WaitInv
  <2>9. (stat_q' \in {"wait", "ready"} /\ dmpc' # "clear") =>
          ~stat_pvalid' /\ \E d \in Clients : Asking(d)' /\ Call(d)' = stat_q'
    BY <2>1, <2>8 DEF Asking
  <2>10. dmpc' = "valid" => ~stat_pvalid' /\ \E d \in Clients : Asking(d)' /\ Granted(d)'
    BY <1>4, <2>1, <2>5 DEF WaitInv
  <2>11. \A d \in Clients : Asking(d)' /\ stat_pvalid' => Granted(d)'
    BY <2>1, <2>2, <2>4, <2>8 DEF WaitInv, Asking, Granted
  <2>12. \A d \in Clients : pc'[d] = "ask" /\ Call(d)' # "exit" => ~stat_pvalid'
    BY <2>1, <2>2 DEF WaitInv
  <2>13. QED
    BY <2>6, <2>7, <2>9, <2>10, <2>11, <2>12 DEF WaitInv
<1>20. QED
  BY <1>8, <1>9, <1>10, <1>11, <1>12, <1>13, <1>14, <1>15, <1>16, <1>17, <1>18, <1>19 DEF ClientStep

LEMMA WaitInit == Init => WaitInv
<1> SUFFICES ASSUME Init PROVE WaitInv
  OBVIOUS
<1>1. stat_q = None /\ dmpc = "own" /\ \A c \in Clients : pc[c] = "init"
  BY DEF Init
<1>2. None \notin {"wait", "ready"}
  BY CallFacts
<1>3. QED
  BY <1>1, <1>2 DEF WaitInv, Asking, Drained

(* A client that waits for an answer holds the mutex.                      *)
LEMMA AskingHolds ==
  ASSUME ClientsExact, NEW c \in Clients, Asking(c) \/ (pc[c] = "ask" /\ Call(c) # "exit")
  PROVE  mutex = c
<1>1. pc[c] # "init" /\ HoldsAt(pc[c], Call(c))
  BY DEF Asking, HoldsAt
<1>2. QED
  BY <1>1 DEF ClientsExact

(* The DM core's steps and the engine's.                                   *)
LEMMA WaitDaemon ==
  ASSUME DmInv, WaitInv, JobsKept, DmStep \/ Engine \/ OwnStep \/ UNCHANGED vars
  PROVE  WaitInv'
<1>1. UNCHANGED <<program, pc>>
  BY DEF DmStep, DmLoad, DmAlloc, DmPublish, CheckFill, Issue, BumpBack, DropFill, CheckStat, Switch, SetValid,
         ClearRequest, CheckEmpty, CheckQuiet, Doze, Wfi, ClearIrq, Awake, Engine, OwnStep, OwnStart1d, OwnStart2d,
         OwnStart, OwnWait, OwnWaitAll, OwnRest, clientVars, vars
<1>2. /\ \A d \in Clients : pc'[d] = pc[d] /\ Call(d)' = Call(d)
      /\ \A d \in Clients : Asking(d) <=> Asking(d)'
  BY <1>1 DEF Call, Asking
<1>3. \A d \in Clients : (NoWaiting(d) => NoWaiting(d)') /\ (Finished(d) => Finished(d)')
  <2>1. \A d \in Clients : ~QueueStep(d)
    BY <1>1, QueueStepMoves DEF DmInv
  <2>2. QED
    BY <2>1 DEF JobsKept
<1>4. \A d \in Clients : Granted(d) => Granted(d)'
  BY <1>2, <1>3 DEF Granted
<1>5. \A d \in Clients : pc'[d] \in Drained /\ Call(d)' = "wait" => NoWaiting(d)'
  BY <1>2, <1>3 DEF WaitInv
<1>6. \A d \in Clients : pc'[d] = "release" => Granted(d)'
  BY <1>2, <1>4 DEF WaitInv
<1>7. CASE SetValid
  <2>1. dmpc = "valid" /\ dmpc' = "clear"
    BY <1>7 DEF SetValid, DmGoto
  <2>2. PICK c \in Clients : Asking(c) /\ Granted(c)
    BY <2>1 DEF WaitInv
  <2>3. ClientsExact
    BY DEF DmInv, Control
  <2>4. mutex = c /\ \A d \in Clients : Asking(d) \/ (pc[d] = "ask" /\ Call(d) # "exit") => d = c
    BY <2>2, <2>3, AskingHolds
  <2>5. pc[c] # "ask"
    BY <2>2 DEF Asking
  <2>6. \A d \in Clients : (Asking(d)' => Granted(d)') /\ ~(pc'[d] = "ask" /\ Call(d)' # "exit")
    BY <1>2, <1>4, <2>2, <2>4, <2>5
  <2>7. QED
    BY <1>5, <1>6, <2>1, <2>6 DEF WaitInv
<1>8. CASE ClearRequest
  <2>1. dmpc' = "empty" /\ stat_q' = None /\ stat_pvalid' = stat_pvalid
    BY <1>8 DEF ClearRequest, DmGoto
  <2>2. stat_q' \notin {"wait", "ready"}
    BY <2>1, CallFacts
  <2>3. QED
    BY <1>2, <1>4, <1>5, <1>6, <2>1, <2>2 DEF WaitInv
<1>9. CASE Switch /\ dmpc' = "valid"
  <2>1. dmpc = "switch" /\ UNCHANGED <<stat_q, stat_pvalid>> /\ (stat_q = "ready" \/ (stat_q = "wait" /\ inflight = << >>))
    BY <1>9 DEF Switch, DmGoto, statVars, snrt_dma_wait_all
  <2>2. ~stat_pvalid /\ \E c \in Clients : Asking(c) /\ Call(c) = stat_q
    BY <2>1 DEF WaitInv
  <2>3. PICK c \in Clients : Asking(c) /\ Call(c) = stat_q
    BY <2>2
  <2>4. Granted(c)
    <3>1. CASE stat_q = "ready"
      BY <2>3, <3>1 DEF Granted
    <3>2. CASE stat_q = "wait" /\ inflight = << >>
      <4>1. NoWaiting(c) /\ Items(inflight) = {}
        BY <2>3, <3>2 DEF WaitInv, Asking, Drained, Items
      <4>2. QED
        BY <4>1 DEF Granted, Finished, UnderWay, NoWaiting
    <3>3. QED
      BY <2>1, <3>1, <3>2
  <2>5. Asking(c)' /\ Granted(c)' /\ Call(c)' = stat_q'
    BY <1>2, <1>4, <2>1, <2>3, <2>4
  <2>6. QED
    BY <1>2, <1>4, <1>5, <1>6, <1>9, <2>1, <2>2, <2>5 DEF WaitInv
<1>10. CASE UNCHANGED <<stat_q, stat_pvalid>> /\ (dmpc = "clear" => dmpc' = "clear") /\ (dmpc' = "valid" => dmpc = "valid")
  BY <1>2, <1>4, <1>5, <1>6, <1>10 DEF WaitInv
<1>11. CASE ~SetValid /\ ~ClearRequest /\ ~(Switch /\ dmpc' = "valid")
  <2>1. UNCHANGED <<stat_q, stat_pvalid>>
    BY <1>11 DEF DmStep, DmLoad, DmAlloc, DmPublish, CheckFill, Issue, BumpBack, DropFill, CheckStat, Switch,
       CheckEmpty, CheckQuiet, Doze, Wfi, ClearIrq, Awake, Engine, OwnStep, OwnStart1d, OwnStart2d,
       OwnStart, OwnWait, OwnWaitAll, OwnRest, statVars, vars
  <2>2. dmpc' = dmpc \/ (dmpc \notin {"clear", "valid"} /\ dmpc' # "valid")
    BY <1>11 DEF DmStep, DmLoad, DmAlloc, DmPublish, CheckFill, Issue, BumpBack, DropFill, CheckStat, Switch,
       CheckEmpty, CheckQuiet, Doze, Wfi, ClearIrq, Awake, Engine, OwnStep, OwnStart1d, OwnStart2d,
       OwnStart, OwnWait, OwnWaitAll, OwnRest, DmGoto, EndOfLoop, dmVars, vars
  <2>3. QED
    BY <1>10, <2>1, <2>2
<1>12. QED
  BY <1>7, <1>8, <1>9, <1>11

LEMMA WaitNext == DmInv /\ OwnInv /\ JobInv /\ WaitInv /\ [Next]_vars => JobInv' /\ WaitInv'
<1> SUFFICES ASSUME DmInv, OwnInv, JobInv, WaitInv, [Next]_vars PROVE JobInv' /\ WaitInv'
  OBVIOUS
<1>1. JobInv' /\ JobsKept
  BY JobNext DEF JobsKept
<1>2. DmStep \/ Engine \/ OwnStep \/ UNCHANGED vars \/ \E c \in Clients : ClientStep(c) \/ Lock(c)
  BY DEF Next, DaemonStep
<1>3. WaitInv'
  BY <1>1, <1>2, WaitDaemon, WaitClient
<1>4. QED
  BY <1>1, <1>3

(* What is answered to a client that waits for its transfers is true of    *)
(* them, and stays so until it returns: dm_wait in dm.c, although the      *)
(* queue is polled before the mutex is taken, the request is a variable    *)
(* that all cores share, and other cores queue transfers meanwhile.        *)
THEOREM WaitCorrect == Spec => []WaitCompletes
<1>1. Init => OwnInv /\ JobInv /\ WaitInv
  BY OwnInit, JobInit, WaitInit
<1>2. DmInv /\ OwnInv /\ JobInv /\ WaitInv /\ [Next]_vars => (OwnInv /\ JobInv /\ WaitInv)'
  BY OwnNext, WaitNext DEF DmInv
<1>3. DmInv /\ JobInv /\ WaitInv => WaitCompletes
  <2> SUFFICES ASSUME JobInv, WaitInv, NEW c \in Clients, pc[c] = "release", Call(c) = "wait"
               PROVE  /\ \A j \in UnderWay : j[1] # c
                      /\ \A j \in Items(started) : j[1] = c => j \in complete
    BY DEF WaitCompletes, UnderWay
  <2>1. \A j \in UnderWay : j[1] # c
    BY DEF WaitInv, Granted, Finished
  <2>2. QED
    BY <2>1 DEF JobInv, UnderWay
<1>4. QED
  BY <1>1, <1>2, <1>3, DmInvariant, PTL DEF Spec
==============================================================================
