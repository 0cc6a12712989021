------------------------------ MODULE CacheAmo ------------------------------
(***************************************************************************)
(* The atomics unit in front of a cache bank (spatz_cache_amo.sv): it      *)
(* turns an atomic operation into a read and a write-back, keeps the       *)
(* bank's one reservation, and answers store-conditionals.                 *)
(*                                                                         *)
(* Edge is a clock edge.  front and rsp are what stands at the unit's      *)
(* request and response inputs in the cycle, and stay until they are       *)
(* taken.  The bank acts on requests in the order in which it takes them,  *)
(* and answers after any time and in any order.                            *)
(*                                                                         *)
(* A hart's integer core and its FPU share the port, each may have several *)
(* requests outstanding, and a tag, is_fpu and req_id, tells them apart.   *)
(* Harts are numbered from 0 in every tile.  The unit compares core_id and *)
(* req_id only, so different requests may look the same to it: clash       *)
(* records that such a request was at its input at a wrong time.           *)
(***************************************************************************)
EXTENDS WordOps, FiniteSets

CONSTANTS
  Tiles, Cores,  \* a hart is a pair of a tile and a core_id
  ReqIds, Addrs,
  Requests,      \* per hart, the requests that it may issue
  None

Harts == Tiles \X Cores
Core(h) == h[2]
Tags == BOOLEAN \X ReqIds

(* Of a request's user field, what the unit compares. *)
User(h, tag) == <<Core(h), tag[2]>>

(* What a hart asks for, and what the bank remembers of a request.         *)
Ops == AmoOps \cup {"load", "store", "lr", "sc"}
Request == [op : Ops, addr : Addrs, data : Word, tag : Tags]
Entry == [hart : Harts, tag : Tags, op : Ops \cup {"amo"}, data : Word, write : BOOLEAN, is_amo : BOOLEAN]

ASSUME RequestsAssumption == Requests \in [Harts -> SUBSET Request]
ASSUME NoneAssumption == None \notin Harts /\ None \notin Entry

VARIABLES
  memory,         \* of the bank
  bank,           \* the requests that it has taken and not answered
  waiting,        \* per hart: its request that was not taken yet
  front, rsp,     \* a hart and an element of bank, or None
  state_q,
  amo,            \* the operation in progress: amo_user_q, amo_op_q, ...
  reservation_q,
  sc_q, sc_user_q, sc_successful_q,
  result,         \* per hart and tag: what the last request was answered
  reserved,       \* history: the reservations that the harts should have
  clash           \* history: the unit was given requests that it confuses

scVars == <<sc_q, sc_user_q, sc_successful_q>>
vars == <<memory, bank, waiting, front, rsp, state_q, amo, reservation_q, scVars, result, reserved, clash>>

Init ==
  /\ memory = [a \in Addrs |-> 0]
  /\ bank = {} /\ front = None /\ rsp = None
  /\ waiting = [h \in Harts |-> NoRequest]
  /\ state_q = "Idle" /\ amo = None
  /\ reservation_q = [valid |-> FALSE, addr |-> 0, core |-> 0]
  /\ sc_q = FALSE /\ sc_user_q = <<0, 0>> /\ sc_successful_q = FALSE
  /\ result = [ht \in Harts \X Tags |-> 0]
  /\ reserved = {} /\ clash = FALSE

InBank(h, tag) == \E e \in bank : e.hart = h /\ e.tag = tag /\ ~e.is_amo

(* A hart has no two requests of one tag outstanding. *)
Issue(h, r) ==
  /\ waiting[h] = NoRequest /\ ~InBank(h, r.tag)
  /\ waiting' = [waiting EXCEPT ![h] = r]
  /\ result' = [result EXCEPT ![<<h, r.tag>>] = 0]
  /\ UNCHANGED <<memory, bank, front, rsp, state_q, amo, reservation_q, scVars, reserved, clash>>
------------------------------------------------------------------------------
(* amo_alu: the comparisons are the sign of a difference of Width + 1 bits. *)
SignExtended(x) == IF x < 2^(Width - 1) THEN x ELSE x + 2^Width
Negative(x) == (x % 2^(Width + 1)) >= 2^Width
Less(a, b) == Negative(SignExtended(a) - SignExtended(b))

(* Mutant of LessUnsigned: its operands are sign-extended, too. *)
LessSigned(a, b) == Less(a, b)

LessUnsigned(a, b) == Negative(a - b)

Alu(op, a, b) ==
  CASE op = "swap" -> b
    [] op = "add" -> (SignExtended(a) + SignExtended(b)) % 2^Width
    [] op = "and" -> And(a, b)
    [] op = "or" -> Or(a, b)
    [] op = "xor" -> Xor(a, b)
    [] op = "max" -> IF Less(a, b) THEN b ELSE a
    [] op = "min" -> IF Less(a, b) THEN a ELSE b
    [] op = "maxu" -> IF LessUnsigned(a, b) THEN b ELSE a
    [] op = "minu" -> IF LessUnsigned(a, b) THEN a ELSE b
------------------------------------------------------------------------------
(* The request at the input, when the bank is ready.  Reservation and      *)
(* store-conditional registers look at it also while the unit is busy and  *)
(* does not take it.                                                       *)
Seen(ready) == front # None /\ ready
Req == waiting[front]
Accepted(ready) == Seen(ready) /\ state_q = "Idle"

sc_successful ==
  /\ Req.op = "sc" /\ reservation_q.valid
  /\ reservation_q.core = Core(front) /\ reservation_q.addr = Req.addr

Writes == Req.op = "store" \/ sc_successful

(* Mutant of Reservation: the writes of others are not looked at. *)
ReservationKept(ready) ==
  reservation_q' =
    IF ~Seen(ready) THEN reservation_q
    ELSE CASE Req.op = "lr" -> [valid |-> TRUE, addr |-> Req.addr, core |-> Core(front)]
           [] Req.op = "sc" /\ reservation_q.core = Core(front) -> [reservation_q EXCEPT !.valid = FALSE]
           [] OTHER -> reservation_q

(* A load-reserved sets the reservation; a store-conditional of its core,  *)
(* or a write of another core to its address, clears it.                   *)
Reservation(ready) ==
  reservation_q' =
    IF ~Seen(ready) THEN reservation_q
    ELSE CASE Req.op = "lr" -> [valid |-> TRUE, addr |-> Req.addr, core |-> Core(front)]
           [] \/ Req.op = "sc" /\ reservation_q.core = Core(front)
              \/ /\ Req.op \in AmoOps \cup {"store"}
                 /\ reservation_q.core # Core(front) /\ reservation_q.addr = Req.addr
                -> [reservation_q EXCEPT !.valid = FALSE]
           [] OTHER -> reservation_q

is_sc_rsp == rsp # None /\ sc_q /\ User(rsp.hart, rsp.tag) = sc_user_q

(* ready: of the bank for a request; pready: of the hart for a response.   *)
StoreConditional(ready, pready) ==
  LET set == Seen(ready) /\ Req.op = "sc"
      clr == is_sc_rsp /\ pready
  IN /\ sc_q' = IF set \/ clr THEN set /\ ~clr ELSE sc_q
     /\ sc_user_q' = IF set THEN User(front, Req.tag) ELSE sc_user_q
     /\ sc_successful_q' = IF set THEN sc_successful ELSE sc_successful_q
------------------------------------------------------------------------------
(* Mutant of Matches: any response is taken for the operation's. *)
AnyResponse == rsp # None

(* The response at the input looks like that of the operation in progress. *)
Matches == rsp # None /\ User(rsp.hart, rsp.tag) = User(amo.hart, amo.tag)

(* Mutant of EndWriteBack: do not wait for the write-back's response. *)
EndWriteBackEarly(ready) == state_q' = IF ready THEN "Idle" ELSE state_q

EndWriteBack(ready) == state_q' = IF ready THEN "Wait" ELSE state_q

(* The state machine. *)
State(ready) ==
  CASE state_q = "Idle" ->
         IF Accepted(ready) /\ Req.op \in AmoOps
         THEN state_q' = "DoAMO" /\ amo' = [hart |-> front, tag |-> Req.tag, op |-> Req.op,
                                            addr |-> Req.addr, b |-> Req.data, result |-> 0]
         ELSE UNCHANGED <<state_q, amo>>
    [] state_q = "DoAMO" ->
         IF Matches
         THEN state_q' = "WriteBackAMO" /\ amo' = [amo EXCEPT !.result = Alu(amo.op, rsp.data, amo.b)]
         ELSE UNCHANGED <<state_q, amo>>
    [] state_q = "WriteBackAMO" -> EndWriteBack(ready) /\ UNCHANGED amo
    [] state_q = "Wait" ->
         /\ state_q' = IF rsp # None /\ rsp.is_amo THEN "Idle" ELSE state_q
         /\ amo' = IF rsp # None /\ rsp.is_amo THEN None ELSE amo

(* Mutant of WriteBackRequest: it does not say that it is one. *)
WriteBackUntagged ==
  [hart |-> amo.hart, tag |-> amo.tag, op |-> "amo", data |-> 0, write |-> TRUE, is_amo |-> FALSE]

WriteBackRequest ==
  [hart |-> amo.hart, tag |-> amo.tag, op |-> "amo", data |-> 0, write |-> TRUE, is_amo |-> TRUE]

(* What the unit sends to the bank: the hart's request as a load or a      *)
(* store, or the write-back.                                               *)
Sent(ready) ==
  IF Accepted(ready)
  THEN {[hart |-> front, tag |-> Req.tag, op |-> Req.op, data |-> memory[Req.addr],
         write |-> Writes, is_amo |-> FALSE]}
  ELSE IF state_q = "WriteBackAMO" /\ ready THEN {WriteBackRequest} ELSE {}

MemoryWrite(ready) ==
  memory' = IF Accepted(ready) /\ Writes THEN [memory EXCEPT ![Req.addr] = Req.data]
            ELSE IF state_q = "WriteBackAMO" /\ ready THEN [memory EXCEPT ![amo.addr] = amo.result]
            ELSE memory

(* A response is for the hart unless it is that of a write-back. *)
Answered(pready) == rsp # None /\ (rsp.is_amo \/ pready)

ScCode(ok) == IF ok THEN 0 ELSE 1

Respond(pready) ==
  result' = IF Answered(pready) /\ ~rsp.is_amo /\ rsp.op # "store"
            THEN [result EXCEPT ![<<rsp.hart, rsp.tag>>] =
                    IF is_sc_rsp THEN ScCode(sc_successful_q) ELSE rsp.data]
            ELSE result

(* The reservations after a request, as they ought to be. *)
Reserve(ready) ==
  reserved' =
    IF ~Accepted(ready) THEN reserved
    ELSE LET mine == {p \in reserved : p[1] = front}
             others == {p \in reserved : p[1] # front /\ p[2] = Req.addr}
         IN CASE Req.op = "load" -> reserved
              [] Req.op = "lr" -> (reserved \ mine) \cup {<<front, Req.addr>>}
              [] Req.op = "sc" -> (reserved \ mine) \ (IF sc_successful THEN others ELSE {})
              [] OTHER -> reserved \ others

(* A request that the unit confuses: an atomic operation or a              *)
(* store-conditional whose answer looks like another's, a                  *)
(* store-conditional before the last one was answered, and a write to a    *)
(* word that the hart of the same core_id in another tile has reserved.    *)
Confuses ==
  \/ \E e \in bank :
       /\ ~e.is_amo /\ User(e.hart, e.tag) = User(front, Req.tag)
       /\ Req.op \in AmoOps \cup {"sc"} \/ e.op = "sc"
  \/ Req.op = "sc" /\ \E e \in bank : e.op = "sc"
  \/ /\ \E p \in reserved : p[1] # front /\ Core(p[1]) = Core(front) /\ p[2] = Req.addr
     /\ \/ Req.op \in AmoOps \cup {"store"}
        \/ Req.op = "sc" /\ <<front, Req.addr>> \notin reserved

Edge(ready, pready) ==
  /\ Reservation(ready) /\ StoreConditional(ready, pready)
  /\ State(ready) /\ MemoryWrite(ready) /\ Respond(pready) /\ Reserve(ready)
  /\ clash' = (clash \/ (Seen(ready) /\ Confuses))
  /\ bank' = (IF Answered(pready) THEN bank \ {rsp} ELSE bank) \cup Sent(ready)
  /\ waiting' = IF Accepted(ready) THEN [waiting EXCEPT ![front] = NoRequest] ELSE waiting
  /\ front' \in IF front # None /\ ~Accepted(ready) THEN {front}
                ELSE LET next == {h \in Harts : waiting'[h] # NoRequest}
                     IN IF next = {} THEN {None} ELSE next
  /\ rsp' \in IF rsp # None /\ ~Answered(pready) THEN {rsp} ELSE (bank \ {rsp}) \cup {None}

Clock == \E ready, pready \in BOOLEAN : Edge(ready, pready)

Next ==
  \/ \E h \in Harts : \E r \in Requests[h] : Issue(h, r)
  \/ Clock

Spec == Init /\ [][Next]_vars

(* The tags that a hart uses. *)
TagsOf(h) == {r.tag : r \in Requests[h]}

(* The clock runs and neither side refuses for ever; the bank offers the   *)
(* answer to every request, and to every write-back, in the end.           *)
Fairness ==
  /\ WF_vars(Edge(TRUE, TRUE))
  /\ \A h \in Harts : \A tag \in TagsOf(h), amo_rsp \in BOOLEAN :
       []<>(\A e \in bank : <<e.hart, e.tag, e.is_amo>> = <<h, tag, amo_rsp>> => rsp = e)

FairSpec == Spec /\ Fairness
------------------------------------------------------------------------------
(* Types, and the state machine and the bank agree: a read is under way in *)
(* DoAMO, a write-back in Wait, and at no other time.                      *)
TypeOK ==
  /\ memory \in [Addrs -> Word] /\ result \in [Harts \X Tags -> Word]
  /\ front \in Harts \cup {None} /\ rsp \in bank \cup {None}
  /\ front # None => waiting[front] # NoRequest
  /\ state_q = "DoAMO" =>
       \E e \in bank : e.hart = amo.hart /\ e.tag = amo.tag /\ e.op = amo.op /\ ~e.is_amo
  /\ Cardinality({e \in bank : e.is_amo}) = IF state_q = "Wait" THEN 1 ELSE 0

(* The memory once an operation that was begun is finished. *)
Memory ==
  IF state_q \in {"DoAMO", "WriteBackAMO"}
  THEN [memory EXCEPT ![amo.addr] = Combine(amo.op, @, amo.b)] ELSE memory

(* What a request of a hart is, or is to be, answered. *)
Result ==
  [ht \in Harts \X Tags |->
    IF \E e \in bank : <<e.hart, e.tag>> = ht /\ ~e.is_amo /\ e.op # "store"
    THEN LET e == CHOOSE e \in bank : <<e.hart, e.tag>> = ht /\ ~e.is_amo
         IN IF e.op = "sc" THEN ScCode(e.write) ELSE e.data
    ELSE result[ht]]

AM == INSTANCE AtomicMemory WITH
  Requests <- UNION {Requests[h] : h \in Harts},
  memory <- Memory, request <- waiting, result <- Result

(* Until the unit is given requests that it confuses, a bank with its      *)
(* atomics unit is an atomic memory: whenever reads and write-backs are    *)
(* answered, whatever waits at the input meanwhile, whichever earlier      *)
(* responses come late, and however many requests a hart has outstanding.  *)
ImplementsAtomicMemory == AM!Init /\ [][~clash' => AM!Next]_(AM!vars)

(* When the word that was read arrives, the unit computes what the         *)
(* instruction promises, whichever word it is and whatever the operation.  *)
AluCorrect ==
  state_q = "DoAMO" /\ Matches =>
    \A op \in AmoOps, a, b \in Word : Alu(op, a, b) = Combine(op, a, b)

(* Every request that the unit is given is answered, also when it confuses *)
(* some: no hart hangs, whose request waits or is in the bank.             *)
EveryRequestAnswered ==
  \A h \in Harts : \A tag \in TagsOf(h) :
    LET given == (front = h /\ Req.tag = tag) \/ InBank(h, tag)
    IN given ~> ~given
------------------------------------------------------------------------------
(* What the code says of the unit, and is not so for harts of two tiles: a  *)
(* store-conditional writes only if its hart's reservation stands, so no    *)
(* other hart, of any tile, has written to the word since.                  *)
ScOnlyWithReservation ==
  [][front # None /\ waiting'[front] = NoRequest /\ sc_successful =>
       <<front, Req.addr>> \in reserved]_vars
=============================================================================
