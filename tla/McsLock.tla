------------------------------- MODULE McsLock -------------------------------
(***************************************************************************)
(* The MCS queue lock (software/tests/benchmark/mcs_lock.c).  A waiter     *)
(* spins on a node of its own, taken from a row of slots of its hart; the  *)
(* search for a slot starts at the hart's own index.  Every access to      *)
(* memory that another hart may touch is an action; a slot's lock and      *)
(* in_use belong to its hart and are set with the access next to them.     *)
(*                                                                         *)
(* Harts may hold several locks at once, taken in ascending order.         *)
(***************************************************************************)
EXTENDS Naturals, Sequences, FiniteSets

CONSTANTS
  NumHarts,       \* MCS_MAX_HARTS
  NumLocks,       \* locks in use
  MCS_TLS_SLOTS,  \* slots in the row of every hart
  Uses(_),        \* the locks that a hart's program takes
  NULL

Harts == 0..(NumHarts - 1)
Locks == 1..NumLocks

ASSUME McsAssumption ==
  /\ NumHarts \in Nat \ {0} /\ NumLocks \in Nat \ {0} /\ MCS_TLS_SLOTS \in Nat
  /\ NULL \notin Locks \cup (Nat \X Nat)
  /\ \A h \in Harts : Uses(h) \subseteq Locks

VARIABLES
  tail,      \* [Locks -> node or NULL]
  bindings,  \* [Nodes -> slot and its node]; a node is <<hart, slot>>
  pc, cur, me, pred, succ,  \* per hart: next access, and the call's locals
  order      \* history: a lock's nodes, as they were put on its tail

vars == <<tail, bindings, pc, cur, me, pred, succ, order>>
locals == <<cur, me, pred, succ>>

Nodes == Harts \X (0..(MCS_TLS_SLOTS - 1))

FreeSlot == [in_use |-> FALSE, lock |-> NULL, next |-> NULL, locked |-> FALSE]

Init ==
  /\ tail = [l \in Locks |-> NULL]
  /\ bindings = [n \in Nodes |-> FreeSlot]
  /\ pc = [h \in Harts |-> "idle"]
  /\ cur = [h \in Harts |-> NULL]
  /\ me = [h \in Harts |-> NULL]
  /\ pred = [h \in Harts |-> NULL]
  /\ succ = [h \in Harts |-> NULL]
  /\ order = [l \in Locks |-> << >>]

Bound(h) == {n \in Nodes : n[1] = h /\ bindings[n].in_use}

Goto(h, label) == pc' = [pc EXCEPT ![h] = label]

(* A call has returned: its locals are gone. *)
Return(h) ==
  /\ Goto(h, "idle")
  /\ cur' = [cur EXCEPT ![h] = NULL]
  /\ me' = [me EXCEPT ![h] = NULL]
  /\ pred' = [pred EXCEPT ![h] = NULL]
  /\ succ' = [succ EXCEPT ![h] = NULL]

(* mcs_bind_release_slot.  What is left in the node is overwritten when    *)
(* the slot is bound again, and not kept here.                             *)
Unbind(n) == [bindings EXCEPT ![n] = FreeSlot]

(* mcs_lock_acquire or mcs_lock_try_acquire is called. *)
Call(h, l, label) ==
  /\ pc[h] = "idle" /\ l \in Uses(h)
  /\ \A n \in Bound(h) : bindings[n].lock < l
  /\ Goto(h, label)
  /\ cur' = [cur EXCEPT ![h] = l]
  /\ UNCHANGED <<tail, bindings, me, pred, succ, order>>

(* mcs_bind_acquire_slot: the first free slot from index h on, or spin. *)
FreeSlots(h) == {i \in h..(MCS_TLS_SLOTS - 1) : ~bindings[<<h, i>>].in_use}

Bind(h) ==
  /\ pc[h] \in {"bind", "trybind"}
  /\ \E i \in FreeSlots(h) :
        /\ \A j \in FreeSlots(h) : i <= j
        /\ bindings' = [bindings EXCEPT ![<<h, i>>] =
                          [in_use |-> TRUE, lock |-> cur[h], next |-> NULL, locked |-> FALSE]]
        /\ me' = [me EXCEPT ![h] = <<h, i>>]
  /\ Goto(h, IF pc[h] = "bind" THEN "swap" ELSE "trycas")
  /\ UNCHANGED <<tail, cur, pred, succ, order>>

(* A hart's node joins the queue of its lock, or leaves it. *)
Joins(h) == order' = [order EXCEPT ![cur[h]] = Append(@, me[h])]
Leaves(h) == order' = [order EXCEPT ![cur[h]] = Tail(@)]

(* The atomic exchange; a hart that finds no predecessor has the lock. *)
Swap(h) ==
  /\ pc[h] = "swap"
  /\ tail' = [tail EXCEPT ![cur[h]] = me[h]]
  /\ IF tail[cur[h]] = NULL
     THEN Return(h)
     ELSE /\ pred' = [pred EXCEPT ![h] = tail[cur[h]]]
          /\ Goto(h, "lock")
          /\ UNCHANGED <<cur, me, succ>>
  /\ Joins(h)
  /\ UNCHANGED bindings

SetLocked(h) ==
  /\ pc[h] = "lock"
  /\ bindings' = [bindings EXCEPT ![me[h]].locked = TRUE]
  /\ Goto(h, "link")
  /\ UNCHANGED <<tail, locals, order>>

(* From here on the predecessor can see the waiter. *)
Link(h) ==
  /\ pc[h] = "link"
  /\ bindings' = [bindings EXCEPT ![pred[h]].next = me[h]]
  /\ Goto(h, "wait")
  /\ UNCHANGED <<tail, locals, order>>

Wait(h) ==
  /\ pc[h] = "wait"
  /\ ~bindings[me[h]].locked
  /\ Return(h)
  /\ UNCHANGED <<tail, bindings, order>>

(* mcs_lock_try_acquire: one compare-and-swap; the slot goes if it fails. *)
TryCas(h) ==
  /\ pc[h] = "trycas"
  /\ IF tail[cur[h]] = NULL
     THEN tail' = [tail EXCEPT ![cur[h]] = me[h]] /\ Joins(h) /\ UNCHANGED bindings
     ELSE bindings' = Unbind(me[h]) /\ UNCHANGED <<tail, order>>
  /\ Return(h)

(* mcs_lock_release: mcs_bind_find and the first load of next. *)
Release(h, l) ==
  /\ pc[h] = "idle"
  /\ \E n \in Bound(h) :
        /\ bindings[n].lock = l
        /\ me' = [me EXCEPT ![h] = n]
        /\ succ' = [succ EXCEPT ![h] = bindings[n].next]
        /\ Goto(h, IF bindings[n].next = NULL THEN "cas" ELSE "handoff")
  /\ cur' = [cur EXCEPT ![h] = l]
  /\ UNCHANGED <<tail, bindings, pred, order>>

(* Mutant of Cas: the tail is cleared without comparing it. *)
CasBlind(h) ==
  /\ pc[h] = "cas"
  /\ tail' = [tail EXCEPT ![cur[h]] = NULL]
  /\ bindings' = Unbind(me[h]) /\ Leaves(h)
  /\ Return(h)

(* No visible successor: swing the tail back, unless somebody has queued. *)
Cas(h) ==
  /\ pc[h] = "cas"
  /\ IF tail[cur[h]] = me[h]
     THEN /\ tail' = [tail EXCEPT ![cur[h]] = NULL]
          /\ bindings' = Unbind(me[h]) /\ Leaves(h)
          /\ Return(h)
     ELSE Goto(h, "linkage") /\ UNCHANGED <<tail, bindings, locals, order>>

(* Mutant of Linkage: give up the slot while the successor still links. *)
LinkageSkipped(h) ==
  /\ pc[h] = "linkage"
  /\ bindings' = Unbind(me[h]) /\ Leaves(h)
  /\ Return(h)
  /\ UNCHANGED tail

(* A successor is enqueuing; wait until it has linked itself. *)
Linkage(h) ==
  /\ pc[h] = "linkage"
  /\ bindings[me[h]].next # NULL
  /\ succ' = [succ EXCEPT ![h] = bindings[me[h]].next]
  /\ Goto(h, "handoff")
  /\ UNCHANGED <<tail, bindings, cur, me, pred, order>>

Handoff(h) ==
  /\ pc[h] = "handoff"
  /\ bindings' = [Unbind(me[h]) EXCEPT ![succ[h]].locked = FALSE]
  /\ Leaves(h) /\ Return(h)
  /\ UNCHANGED tail

(* Mutant of Step: the waiter links itself before it marks itself locked. *)
StepLinksFirst(h) ==
  \/ Bind(h) \/ Swap(h) \/ Wait(h) \/ TryCas(h) \/ Cas(h) \/ Linkage(h) \/ Handoff(h)
  \/ /\ pc[h] = "lock"
     /\ bindings' = [bindings EXCEPT ![pred[h]].next = me[h]]
     /\ Goto(h, "link")
     /\ UNCHANGED <<tail, locals, order>>
  \/ /\ pc[h] = "link"
     /\ bindings' = [bindings EXCEPT ![me[h]].locked = TRUE]
     /\ Goto(h, "wait")
     /\ UNCHANGED <<tail, locals, order>>

Step(h) ==
  \/ Bind(h) \/ Swap(h) \/ SetLocked(h) \/ Link(h) \/ Wait(h) \/ TryCas(h)
  \/ Cas(h) \/ Linkage(h) \/ Handoff(h)

Next ==
  \E h \in Harts :
     \/ Step(h)
     \/ \E l \in Locks : Call(h, l, "bind") \/ Call(h, l, "trybind") \/ Release(h, l)

Spec == Init /\ [][Next]_vars

(* No hart is stopped for ever inside the lock's code, and every critical  *)
(* section ends.                                                           *)
FairSpec ==
  /\ Spec
  /\ \A h \in Harts : WF_vars(Step(h))
  /\ \A h \in Harts, l \in Locks : SF_vars(Release(h, l))
------------------------------------------------------------------------------
Acquiring(h) == pc[h] \in {"bind", "trybind", "swap", "trycas", "lock", "link", "wait"}

Owns(h, l) ==
  /\ \E n \in Bound(h) : bindings[n].lock = l
  /\ ~(Acquiring(h) /\ cur[h] = l)

(* The node a hart waits behind, or NULL if it has been handed the lock. *)
Behind(n) ==
  IF /\ me[n[1]] = n
     /\ pc[n[1]] \in {"lock", "link"} \/ (pc[n[1]] = "wait" /\ bindings[n].locked)
  THEN pred[n[1]] ELSE NULL

(***************************************************************************)
(* The tail and the waiters' predecessors link the nodes in the order of   *)
(* the exchanges, and harts only ever follow a pointer to a node that is   *)
(* bound to the lock they are after: the tail, the predecessor a hart is   *)
(* about to link itself to (which nobody else is), the successor that is   *)
(* handed the lock (which is still spinning).  A slot is not reused while  *)
(* anybody can still write to its node.                                    *)
(***************************************************************************)
BoundTo(n, l) == n # NULL => bindings[n].in_use /\ bindings[n].lock = l

NodesAlive ==
  /\ \A l \in Locks :
        /\ BoundTo(tail[l], l)
        /\ tail[l] = IF order[l] = << >> THEN NULL ELSE order[l][Len(order[l])]
        /\ \A i \in 2..Len(order[l]) : Behind(order[l][i]) = order[l][i - 1]
  /\ \A h \in Harts : pc[h] \in {"lock", "link"} =>
        /\ BoundTo(pred[h], cur[h]) /\ bindings[pred[h]].next = NULL
        /\ \A g \in Harts \ {h} : pc[g] \in {"lock", "link"} => pred[g] # pred[h]
  /\ \A h \in Harts : pc[h] = "handoff" =>
        /\ BoundTo(succ[h], cur[h]) /\ Behind(succ[h]) = me[h]
        /\ bindings[succ[h]].locked

(* The harts whose nodes are in a lock's queue. *)
queue == [l \in Locks |-> [i \in 1..Len(order[l]) |-> order[l][i][1]]]

owners == [l \in Locks |-> {h \in Harts : Owns(h, l)}]

F == INSTANCE FifoLock

(* The MCS lock implements the fair lock: harts own a lock one at a time   *)
(* and in the order of their exchanges on its tail.                        *)
ImplementsFifoLock == F!Spec

(* A hart that asks for a lock gets it, provided critical sections end: no *)
(* waiter is forgotten by a release that races its enqueuing, and no hart  *)
(* runs out of slots.                                                      *)
EveryAcquireReturns ==
  \A h \in Harts, l \in Locks : (pc[h] = "bind" /\ cur[h] = l) ~> Owns(h, l)
==============================================================================
