------------------------------ MODULE RlcKernel ------------------------------
(***************************************************************************)
(* The RLC kernel (multi_producer_single_consumer_double_linked_list):     *)
(* producers claim packages, allocate a page for each and append it to the *)
(* to-send list; consumers take pages from it, number and copy the package *)
(* and append the page to the sent list; once that list is long enough a   *)
(* consumer acknowledges two packages and frees their pages.               *)
(*                                                                         *)
(* A critical section is two actions: the successful test-and-set with the *)
(* first read of the protected datum (saved in snap), and the writes with  *)
(* the unlock.  Private work on an owned page goes with the action before. *)
(***************************************************************************)
EXTENDS Llist

CONSTANTS
  Producers, Consumers,  \* harts, by the role cluster_entry gives them
  NumPkgs,               \* NUM_PKGS
  AckThreshold           \* sent packages before an acknowledgement (10000)

Cores == Producers \cup Consumers
Pkgs == 0..(NumPkgs - 1)

ASSUME RlcAssumption ==
  /\ Producers \cap Consumers = {}
  /\ NumPkgs \in Nat /\ AckThreshold \in Nat
  /\ NULL \notin Nat

VARIABLES
  lock,           \* spinlocks: "pdcp", "mm", "list", "sent_list"
  pdcp_pkd_ptr,   \* next package to claim
  alloc_offset,   \* pages carved from the pool so far
  free_list,      \* first free page
  heap,           \* contents of the pages
  lists,          \* rlc_ctx.list and rlc_ctx.sent_list
  vtNext, vtNextAck, producer_done,
  tgt,            \* per package: the SN in the header at its target, or NULL
  pc, snap,       \* per hart: next action, values read in the critical section
  node, pkg,      \* per hart: node and new_pdcp_pkg_ptr
  ack,            \* per hart: its copy of vtNextAck, and the loop counter
  order           \* history: the nodes of both lists and the free pages, in order

shared == <<pdcp_pkd_ptr, alloc_offset, free_list, heap, lists>>
stats == <<vtNext, vtNextAck, producer_done, tgt>>
locals == <<node, pkg, ack>>
vars == <<lock, shared, stats, pc, snap, locals, order>>

Locks == {"pdcp", "mm", "list", "sent_list"}

Init ==
  /\ lock = [l \in Locks |-> 0]
  /\ pdcp_pkd_ptr = 0 /\ alloc_offset = 0 /\ free_list = NULL
  /\ heap = EmptyHeap
  /\ lists = [l \in {"list", "sent_list"} |-> EmptyList]
  /\ vtNext = 0 /\ vtNextAck = 0 /\ producer_done = 0
  /\ tgt = [k \in Pkgs |-> NULL]
  /\ pc = [c \in Cores |-> IF c \in Consumers THEN "pop" ELSE "receive"]
  /\ snap = [c \in Cores |-> << >>]
  /\ node = [c \in Cores |-> NULL]
  /\ pkg = [c \in Cores |-> NULL]
  /\ ack = [c \in Cores |-> [sn |-> 0, i |-> 0]]
  /\ order = [l \in {"list", "sent_list", "free"} |-> << >>]

Goto(c, label) == pc' = [pc EXCEPT ![c] = label]

(* Mutant of SpinLock: the value test-and-set returns is ignored. *)
SpinLockIgnored(c, l, value) ==
  /\ lock' = [lock EXCEPT ![l] = 1]
  /\ snap' = [snap EXCEPT ![c] = value]

(* spin_lock, mm_lock_acquire: the test-and-set that finds the lock free. *)
SpinLock(c, l, value) ==
  /\ lock[l] = 0
  /\ lock' = [lock EXCEPT ![l] = 1]
  /\ snap' = [snap EXCEPT ![c] = value]

(* spin_unlock, mm_lock_release. *)
SpinUnlock(c, l) ==
  /\ lock' = [lock EXCEPT ![l] = 0]
  /\ snap' = [snap EXCEPT ![c] = << >>]

Enter(c, at, l, value, label) ==
  /\ pc[c] = at
  /\ SpinLock(c, l, value)
  /\ Goto(c, label)
  /\ UNCHANGED <<shared, stats, locals, order>>

(* list_push_back of the hart's node. *)
PushBack(c, l) ==
  /\ heap' = PushHeap(heap, snap[c][1], node[c])
  /\ lists' = [lists EXCEPT ![l] = PushList(@, snap[c][1], node[c])]
  /\ order' = [order EXCEPT ![l] = Append(@, node[c])]
  /\ SpinUnlock(c, l)

(* list_pop_front; snap[c][1] is the head that was read. *)
PopFront(c, l) ==
  /\ IF snap[c][1] = NULL
     THEN UNCHANGED <<heap, lists, order>>
     ELSE /\ heap' = PopHeap(heap, snap[c][1])
          /\ lists' = [lists EXCEPT ![l] = PopList(@, heap, snap[c][1])]
          /\ order' = [order EXCEPT ![l] = Tail(@)]
  /\ node' = [node EXCEPT ![c] = snap[c][1]]
  /\ SpinUnlock(c, l)
------------------------------------------------------------------------------
(* producer *)

ReceiveEnter(c) == Enter(c, "receive", "pdcp", <<pdcp_pkd_ptr>>, "receive2")

(* Mutant of Receive: the bound is compared with <=. *)
ReceivePastEnd(c) ==
  /\ pc[c] = "receive2"
  /\ pdcp_pkd_ptr' = IF snap[c][1] <= NumPkgs THEN snap[c][1] + 1 ELSE pdcp_pkd_ptr
  /\ pkg' = [pkg EXCEPT ![c] = IF snap[c][1] <= NumPkgs THEN snap[c][1] ELSE NULL]
  /\ Goto(c, IF snap[c][1] <= NumPkgs THEN "alloc" ELSE "done")
  /\ SpinUnlock(c, "pdcp")
  /\ UNCHANGED <<alloc_offset, free_list, heap, lists, stats, node, ack, order>>

(* pdcp_receive_pkg: claim the next package, or learn that there is none. *)
Receive(c) ==
  /\ pc[c] = "receive2"
  /\ pdcp_pkd_ptr' = IF snap[c][1] < NumPkgs THEN snap[c][1] + 1 ELSE pdcp_pkd_ptr
  /\ pkg' = [pkg EXCEPT ![c] = IF snap[c][1] < NumPkgs THEN snap[c][1] ELSE NULL]
  /\ Goto(c, IF snap[c][1] < NumPkgs THEN "alloc" ELSE "done")
  /\ SpinUnlock(c, "pdcp")
  /\ UNCHANGED <<alloc_offset, free_list, heap, lists, stats, node, ack, order>>

AllocEnter(c) == Enter(c, "alloc", "mm", <<alloc_offset, free_list>>, "alloc2")

(* mm_alloc: a fresh page first, then the free list; and the node header.  *)
(* Out of memory, the producer keeps its package and tries again.          *)
Alloc(c) ==
  LET fresh == snap[c][1] < NumPages
      page == IF fresh THEN snap[c][1] + 1 ELSE snap[c][2]
  IN /\ pc[c] = "alloc2"
     /\ alloc_offset' = IF fresh THEN snap[c][1] + 1 ELSE alloc_offset
     /\ free_list' = IF fresh \/ page = NULL THEN free_list ELSE heap[page].prev
     /\ heap' = IF page = NULL THEN heap
                ELSE [heap EXCEPT ![page] = [prev |-> NULL, next |-> NULL, pkg |-> pkg[c]]]
     /\ order' = IF fresh \/ page = NULL THEN order ELSE [order EXCEPT !["free"] = Tail(@)]
     /\ node' = [node EXCEPT ![c] = page]
     /\ Goto(c, IF page = NULL THEN "alloc" ELSE "push")
     /\ SpinUnlock(c, "mm")
     /\ UNCHANGED <<pdcp_pkd_ptr, lists, stats, pkg, ack>>

PushEnter(c) == Enter(c, "push", "list", <<lists["list"].tail>>, "push2")

Push(c) ==
  /\ pc[c] = "push2"
  /\ PushBack(c, "list")
  /\ node' = [node EXCEPT ![c] = NULL]
  /\ pkg' = [pkg EXCEPT ![c] = NULL]
  /\ Goto(c, "receive")
  /\ UNCHANGED <<pdcp_pkd_ptr, alloc_offset, free_list, stats, ack>>

(* Every producer that finds no package left sets the one flag. *)
Done(c) ==
  /\ pc[c] = "done"
  /\ producer_done' = 1
  /\ Goto(c, "exit")
  /\ UNCHANGED <<lock, shared, vtNext, vtNextAck, tgt, snap, locals, order>>
------------------------------------------------------------------------------
(* consumer *)

PopEnter(c) == Enter(c, "pop", "list", <<lists["list"].head>>, "pop2")

Pop(c) ==
  /\ pc[c] = "pop2"
  /\ PopFront(c, "list")
  /\ Goto(c, IF snap[c][1] = NULL THEN "check_done" ELSE "number")
  /\ UNCHANGED <<pdcp_pkd_ptr, alloc_offset, free_list, stats, pkg, ack>>

CheckDone(c) ==
  /\ pc[c] = "check_done"
  /\ Goto(c, IF producer_done = 1 THEN "exit" ELSE "pop")
  /\ UNCHANGED <<lock, shared, stats, snap, locals, order>>

(* Mutant of Number: the header is stale, computed from the sent packages. *)
NumberFromList(c) ==
  /\ pc[c] = "number"
  /\ tgt' = [tgt EXCEPT ![heap[node[c]].pkg] = vtNextAck + lists["sent_list"].sduNum]
  /\ vtNext' = vtNext + 1
  /\ Goto(c, "sent")
  /\ UNCHANGED <<lock, shared, vtNextAck, producer_done, snap, locals, order>>

(* The atomic fetch_add, and the copy of the owned package with its header. *)
Number(c) ==
  /\ pc[c] = "number"
  /\ tgt' = [tgt EXCEPT ![heap[node[c]].pkg] = vtNext]
  /\ vtNext' = vtNext + 1
  /\ Goto(c, "sent")
  /\ UNCHANGED <<lock, shared, vtNextAck, producer_done, snap, locals, order>>

SentEnter(c) == Enter(c, "sent", "sent_list", <<lists["sent_list"].tail>>, "sent2")

Sent(c) ==
  /\ pc[c] = "sent2"
  /\ PushBack(c, "sent_list")
  /\ node' = [node EXCEPT ![c] = NULL]
  /\ Goto(c, "check_ack")
  /\ UNCHANGED <<pdcp_pkd_ptr, alloc_offset, free_list, stats, pkg, ack>>

(* The length of the sent list is read without its lock. *)
CheckAck(c) ==
  /\ pc[c] = "check_ack"
  /\ Goto(c, IF lists["sent_list"].sduNum >= AckThreshold THEN "ack" ELSE "pop")
  /\ UNCHANGED <<lock, shared, stats, snap, locals, order>>

LoadAck(c) ==
  /\ pc[c] = "ack"
  /\ ack' = [ack EXCEPT ![c] = [sn |-> vtNextAck, i |-> 0]]
  /\ Goto(c, "ack_pop")
  /\ UNCHANGED <<lock, shared, stats, snap, node, pkg, order>>

(* The loop over the two acknowledged packages; mm_free(NULL) returns. *)
AckNext(c) ==
  /\ ack' = [ack EXCEPT ![c].i = @ + 1]
  /\ Goto(c, IF ack[c].i + 1 < 2 THEN "ack_pop" ELSE "store_ack")

AckPopEnter(c) ==
  Enter(c, "ack_pop", "sent_list", <<lists["sent_list"].head>>, "ack_pop2")

AckPop(c) ==
  /\ pc[c] = "ack_pop2"
  /\ PopFront(c, "sent_list")
  /\ IF snap[c][1] = NULL THEN AckNext(c) ELSE Goto(c, "free") /\ UNCHANGED ack
  /\ UNCHANGED <<pdcp_pkd_ptr, alloc_offset, free_list, stats, pkg>>

FreeEnter(c) == Enter(c, "free", "mm", <<free_list>>, "free2")

Free(c) ==
  /\ pc[c] = "free2"
  /\ heap' = [heap EXCEPT ![node[c]].prev = snap[c][1]]
  /\ free_list' = node[c]
  /\ order' = [order EXCEPT !["free"] = <<node[c]>> \o @]
  /\ node' = [node EXCEPT ![c] = NULL]
  /\ AckNext(c)
  /\ SpinUnlock(c, "mm")
  /\ UNCHANGED <<pdcp_pkd_ptr, alloc_offset, lists, stats, pkg>>

StoreAck(c) ==
  /\ pc[c] = "store_ack"
  /\ vtNextAck' = ack[c].sn + 2
  /\ Goto(c, "pop")
  /\ UNCHANGED <<lock, shared, vtNext, producer_done, tgt, snap, locals, order>>
------------------------------------------------------------------------------
Producer(c) ==
  \/ ReceiveEnter(c) \/ Receive(c) \/ AllocEnter(c) \/ Alloc(c)
  \/ PushEnter(c) \/ Push(c) \/ Done(c)

Consumer(c) ==
  \/ PopEnter(c) \/ Pop(c) \/ CheckDone(c) \/ Number(c)
  \/ SentEnter(c) \/ Sent(c) \/ CheckAck(c)
  \/ LoadAck(c) \/ AckPopEnter(c) \/ AckPop(c) \/ FreeEnter(c) \/ Free(c) \/ StoreAck(c)

(* All harts meet in the barrier that ends cluster_entry. *)
Finished == (\A c \in Cores : pc[c] = "exit") /\ UNCHANGED vars

Next ==
  \/ \E c \in Producers : Producer(c)
  \/ \E c \in Consumers : Consumer(c)
  \/ Finished

Spec == Init /\ [][Next]_vars
------------------------------------------------------------------------------
Listed(l) == {order[l][i] : i \in 1..Len(order[l])}
Held == {node[c] : c \in Cores} \ {NULL}
Carved == 1..alloc_offset

(* Both lists and the free list keep their links, ends and counters        *)
(* through every interleaving of the harts' critical sections, with the    *)
(* nodes in the order in which they were appended or freed, although the   *)
(* free list's link lies over the list nodes' prev.                        *)
ListsWellFormed ==
  /\ \A l \in {"list", "sent_list"} : WellFormed(lists[l], heap, order[l])
  /\ Freed(free_list, heap, order["free"])

(* Every page carved from the pool is in exactly one place: one of the two *)
(* lists, the free list, or the hands of one hart, and there once; no page *)
(* is lost, allocated twice, freed while listed or listed while free.      *)
PagesConserved ==
  LET places == <<Listed("list"), Listed("sent_list"), Listed("free"), Held>>
  IN /\ UNION {places[i] : i \in 1..4} = Carved
     /\ \A i, j \in 1..4 : i # j => places[i] \cap places[j] = {}
     /\ \A l \in {"list", "sent_list", "free"} : \A i, j \in 1..Len(order[l]) :
          order[l][i] = order[l][j] => i = j
     /\ \A c, d \in Cores : c # d /\ node[c] = node[d] => node[c] = NULL

(* Every claimed package is with the producer that claimed it, in the      *)
(* to-send list, with the consumer that took it, or transmitted, and only  *)
(* one of these: nothing is claimed twice, lost or sent twice.             *)
PkgOf(pages) == {heap[g].pkg : g \in pages}

PackagesConserved ==
  LET claimed == {pkg[c] : c \in Producers} \ {NULL}
      queued == PkgOf(Listed("list"))
      taken == PkgOf({node[c] : c \in {d \in Consumers : pc[d] = "number"}})
      transmitted == {k \in Pkgs : tgt[k] # NULL}
      places == <<claimed, queued, taken, transmitted>>
  IN /\ UNION {places[i] : i \in 1..4} = 0..(pdcp_pkd_ptr - 1)
     /\ \A i, j \in 1..4 : i # j => places[i] \cap places[j] = {}
     /\ \A c, d \in Producers : c # d /\ pkg[c] = pkg[d] => pkg[c] = NULL
     /\ Cardinality(queued) = lists["list"].sduNum

(* The sequence numbers in the transmitted headers are 0 .. vtNext - 1,    *)
(* each used once, by however many consumers.                              *)
SequenceNumbers ==
  /\ {tgt[k] : k \in Pkgs} \ {NULL} = 0..(vtNext - 1)
  /\ \A j, k \in Pkgs : j # k /\ tgt[j] = tgt[k] => tgt[j] = NULL

(* Once all harts have left, every package has been transmitted. *)
AllSentAtExit ==
  (\A c \in Cores : pc[c] = "exit") => \A k \in Pkgs : tgt[k] # NULL
==============================================================================
