------------------------------- MODULE FifoLock -------------------------------
(***************************************************************************)
(* What a fair lock promises: harts that ask for it are served one at a    *)
(* time and in the order in which they asked.                              *)
(***************************************************************************)
EXTENDS Naturals, Sequences

CONSTANTS Harts, Locks

VARIABLES
  queue,  \* [Locks -> Seq(Harts)]: the owner or next owner first
  owners  \* [Locks -> SUBSET Harts]: the harts that own the lock

vars == <<queue, owners>>

Init ==
  /\ queue = [l \in Locks |-> << >>]
  /\ owners = [l \in Locks |-> {}]

Ask(h, l) ==
  /\ \A i \in 1..Len(queue[l]) : queue[l][i] # h
  /\ queue' = [queue EXCEPT ![l] = Append(@, h)]
  /\ UNCHANGED owners

Serve(h, l) ==
  /\ owners[l] = {} /\ queue[l] # << >> /\ Head(queue[l]) = h
  /\ owners' = [owners EXCEPT ![l] = {h}]
  /\ UNCHANGED queue

(* A free lock nobody asks for is served at once. *)
Take(h, l) ==
  /\ queue[l] = << >> /\ owners[l] = {}
  /\ queue' = [queue EXCEPT ![l] = <<h>>]
  /\ owners' = [owners EXCEPT ![l] = {h}]

GiveUp(h, l) ==
  /\ owners[l] = {h}
  /\ owners' = [owners EXCEPT ![l] = {}]
  /\ queue' = [queue EXCEPT ![l] = Tail(@)]

Next ==
  \E h \in Harts, l \in Locks : Ask(h, l) \/ Serve(h, l) \/ Take(h, l) \/ GiveUp(h, l)

Spec == Init /\ [][Next]_vars
==============================================================================
