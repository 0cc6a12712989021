-------------------------------- MODULE Llist --------------------------------
(***************************************************************************)
(* The doubly linked list and the page pool of the RLC kernel (llist.c,    *)
(* mm.c) as operators on a heap.  A page is a list node or a free page;    *)
(* MM_FreePage.next lies over Node.prev, so the free list is chained       *)
(* through the prev field.                                                 *)
(***************************************************************************)
EXTENDS Naturals, Sequences, FiniteSets

CONSTANTS
  NumPages,  \* pages in the pool (BUFFER_SIZE / PAGE_SIZE)
  NULL       \* the null pointer

Pages == 1..NumPages

ASSUME PagesAssumption == NumPages \in Nat \ {0} /\ NULL \notin Pages

EmptyList == [head |-> NULL, tail |-> NULL, sduNum |-> 0]

EmptyHeap == [g \in Pages |-> [prev |-> NULL, next |-> NULL, pkg |-> NULL]]

(* list_push_back: the links of the new node n and of the old tail. *)
PushHeap(heap, tail, n) ==
  [g \in Pages |->
     CASE g = n -> [heap[g] EXCEPT !.prev = tail, !.next = NULL]
       [] g = tail /\ g # n -> [heap[g] EXCEPT !.next = n]
       [] OTHER -> heap[g]]

(* list_push_back: the list header. *)
PushList(l, tail, n) ==
  [head |-> IF tail = NULL THEN n ELSE l.head, tail |-> n, sduNum |-> l.sduNum + 1]

(* list_pop_front of the node n: the new head loses its prev, n both links. *)
PopHeap(heap, n) ==
  [g \in Pages |->
     CASE g = n -> [heap[g] EXCEPT !.prev = NULL, !.next = NULL]
       [] g = heap[n].next /\ g # n -> [heap[g] EXCEPT !.prev = NULL]
       [] OTHER -> heap[g]]

(* Mutant of PopList: the tail is kept when the list becomes empty. *)
PopKeepsTail(l, heap, n) ==
  [head |-> heap[n].next, tail |-> l.tail, sduNum |-> l.sduNum - 1]

(* list_pop_front of the node n: the list header. *)
PopList(l, heap, n) ==
  [head |-> heap[n].next,
   tail |-> IF heap[n].next = NULL THEN NULL ELSE l.tail,
   sduNum |-> l.sduNum - 1]

(* The list of the nodes s: head, tail, the links in both directions and   *)
(* the counter agree.                                                      *)
WellFormed(l, heap, s) ==
  /\ l.head = IF s = << >> THEN NULL ELSE s[1]
  /\ l.tail = IF s = << >> THEN NULL ELSE s[Len(s)]
  /\ l.sduNum = Len(s)
  /\ \A i \in 1..Len(s) :
       /\ heap[s[i]].next = IF i < Len(s) THEN s[i + 1] ELSE NULL
       /\ heap[s[i]].prev = IF i > 1 THEN s[i - 1] ELSE NULL

(* The free list of the pages s. *)
Freed(first, heap, s) ==
  /\ first = IF s = << >> THEN NULL ELSE s[1]
  /\ \A i \in 1..Len(s) : heap[s[i]].prev = IF i < Len(s) THEN s[i + 1] ELSE NULL
==============================================================================
