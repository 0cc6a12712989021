---------------------------- MODULE AtomicMemory ----------------------------
(***************************************************************************)
(* What harts rely on: loads, stores, atomic memory operations and pairs   *)
(* of load-reserved and store-conditional act on the memory one at a time. *)
(* A store-conditional may fail for no reason, but succeeds only if its    *)
(* hart's last load-reserved was of that address and no other hart wrote   *)
(* there since; and it tells whether it wrote.  A hart may issue a request *)
(* before it has looked at the answer to one of another tag.               *)
(***************************************************************************)
EXTENDS WordOps

CONSTANTS Harts, Tags, Addrs, Requests

VARIABLES
  memory,
  request,  \* per hart: the request that waits, or NoRequest
  result,   \* per hart and tag: of the last request, or 0 if there is none yet
  reserved  \* pairs of a hart and the address that it has reserved

vars == <<memory, request, result, reserved>>

Init ==
  /\ memory = [a \in Addrs |-> 0]
  /\ request = [h \in Harts |-> NoRequest]
  /\ result = [ht \in Harts \X Tags |-> 0]
  /\ reserved = {}

OfHart(h) == {p \in reserved : p[1] = h}
OfOthers(h, a) == {p \in reserved : p[1] # h /\ p[2] = a}

Issue(h, r) ==
  /\ request[h] = NoRequest
  /\ request' = [request EXCEPT ![h] = r]
  /\ result' = [result EXCEPT ![<<h, r.tag>>] = 0]
  /\ UNCHANGED <<memory, reserved>>

(* The place of the answer to a hart's request. *)
Own(h) == <<h, request[h].tag>>

Take(h, ops) ==
  /\ request[h].op \in ops
  /\ request' = [request EXCEPT ![h] = NoRequest]

Load(h) ==
  /\ Take(h, {"load"})
  /\ result' = [result EXCEPT ![Own(h)] = memory[request[h].addr]]
  /\ UNCHANGED <<memory, reserved>>

LoadReserved(h) ==
  /\ Take(h, {"lr"})
  /\ result' = [result EXCEPT ![Own(h)] = memory[request[h].addr]]
  /\ reserved' = (reserved \ OfHart(h)) \cup {<<h, request[h].addr>>}
  /\ UNCHANGED memory

Write(a, value) == memory' = [memory EXCEPT ![a] = value]

Store(h) ==
  /\ Take(h, {"store"})
  /\ Write(request[h].addr, request[h].data)
  /\ reserved' = reserved \ OfOthers(h, request[h].addr)
  /\ UNCHANGED result

ScSucceeds(h) ==
  /\ Take(h, {"sc"})
  /\ <<h, request[h].addr>> \in reserved
  /\ Write(request[h].addr, request[h].data)
  /\ result' = [result EXCEPT ![Own(h)] = 0]
  /\ reserved' = reserved \ (OfHart(h) \cup OfOthers(h, request[h].addr))

ScFails(h) ==
  /\ Take(h, {"sc"})
  /\ result' = [result EXCEPT ![Own(h)] = 1]
  /\ reserved' = reserved \ OfHart(h)
  /\ UNCHANGED memory

Amo(h) ==
  LET r == request[h] IN
  /\ Take(h, AmoOps)
  /\ Write(r.addr, Combine(r.op, memory[r.addr], r.data))
  /\ result' = [result EXCEPT ![Own(h)] = memory[r.addr]]
  /\ reserved' = reserved \ OfOthers(h, r.addr)

Next ==
  \E h \in Harts :
    \/ \E r \in Requests : Issue(h, r)
    \/ Load(h) \/ LoadReserved(h) \/ Store(h) \/ ScSucceeds(h) \/ ScFails(h) \/ Amo(h)

Spec == Init /\ [][Next]_vars
=============================================================================
