--------------------------- MODULE RlcKernelProofs ---------------------------
(***************************************************************************)
(* Proofs about the RLC kernel, for any producers, consumers, packages and *)
(* pages, and any threshold for an acknowledgement.                        *)
(***************************************************************************)
EXTENDS RlcKernel, SequenceTheorems, FunctionTheorems, FiniteSetTheorems, TLAPS

Orders == {"list", "sent_list", "free"}
Links == Pages \cup {NULL}
PkgOrNone == Pkgs \cup {NULL}
Heaps == [Pages -> [prev : Links, next : Links, pkg : PkgOrNone]]
Headers == [head : Links, tail : Links, sduNum : Nat]

ProducerLabels == {"receive", "receive2", "alloc", "alloc2", "push", "push2", "done", "exit"}
ConsumerLabels == {"pop", "pop2", "check_done", "number", "sent", "sent2", "check_ack", "ack",
                   "ack_pop", "ack_pop2", "free", "free2", "store_ack", "exit"}
Labels == ProducerLabels \cup ConsumerLabels

Types ==
  /\ lock \in [Locks -> {0, 1}]
  /\ pdcp_pkd_ptr \in 0..NumPkgs /\ alloc_offset \in 0..NumPages
  /\ free_list \in Links /\ heap \in Heaps
  /\ lists \in [{"list", "sent_list"} -> Headers]
  /\ vtNext \in Nat /\ tgt \in [Pkgs -> Nat \cup {NULL}]
  /\ pc \in [Cores -> Labels] /\ snap \in [Cores -> Seq(Nat \cup {NULL})]
  /\ node \in [Cores -> Links] /\ pkg \in [Cores -> PkgOrNone]
  /\ order \in [Orders -> Seq(Pages)]

(* The actions inside the critical section of a lock. *)
Inside(l) ==
  CASE l = "pdcp" -> {"receive2"} [] l = "mm" -> {"alloc2", "free2"}
    [] l = "list" -> {"push2", "pop2"} [] l = "sent_list" -> {"sent2", "ack_pop2"}

MutualExclusion ==
  \A l \in Locks : \A c \in Cores : pc[c] \in Inside(l) =>
    lock[l] = 1 /\ \A d \in Cores : pc[d] \in Inside(l) => d = c

(* What a hart read as it came into a critical section still holds.        *)
SnapExact(c) ==
  /\ pc[c] = "receive2" => snap[c][1] = pdcp_pkd_ptr
  /\ pc[c] = "alloc2" => snap[c][1] = alloc_offset /\ snap[c][2] = free_list
  /\ pc[c] = "free2" => snap[c][1] = free_list
  /\ pc[c] = "push2" => snap[c][1] = lists["list"].tail
  /\ pc[c] = "pop2" => snap[c][1] = lists["list"].head
  /\ pc[c] = "sent2" => snap[c][1] = lists["sent_list"].tail
  /\ pc[c] = "ack_pop2" => snap[c][1] = lists["sent_list"].head

HoldsNode == {"push", "push2", "number", "sent", "sent2", "free", "free2"}
HoldsPkg == {"alloc", "alloc2", "push", "push2"}

(* Where a hart has a page or a package. *)
HoldsExact(c) ==
  /\ c \in Producers => pc[c] \in ProducerLabels
  /\ c \in Consumers => pc[c] \in ConsumerLabels
  /\ node[c] # NULL <=> pc[c] \in HoldsNode
  /\ pkg[c] # NULL <=> pc[c] \in HoldsPkg
  /\ pc[c] \in {"push", "push2"} => heap[node[c]].pkg = pkg[c]

Elem(g, s) == \E i \in 1..Len(s) : s[i] = g
Once(s) == \A i, j \in 1..Len(s) : s[i] = s[j] => i = j

(* A page is in one place, and a carved one is in some place. *)
PlacesExact ==
  /\ \A l \in Orders : Once(order[l])
  /\ \A g \in Pages : \A l, k \in Orders : Elem(g, order[l]) /\ Elem(g, order[k]) => l = k
  /\ \A c \in Cores : node[c] # NULL =>
       /\ \A l \in Orders : ~Elem(node[c], order[l])
       /\ \A d \in Cores : node[d] = node[c] => d = c
  /\ \A g \in Pages :
       g <= alloc_offset <=> (\E l \in Orders : Elem(g, order[l])) \/ \E c \in Cores : node[c] = g

(* The pages of the packages that wait to be numbered and copied. *)
Unsent(g) == Elem(g, order["list"]) \/ \E c \in Consumers : pc[c] = "number" /\ node[c] = g

PkgsExact ==
  /\ \A g \in Pages : Unsent(g) =>
       /\ heap[g].pkg \in Pkgs /\ heap[g].pkg < pdcp_pkd_ptr /\ tgt[heap[g].pkg] = NULL
       /\ \A h \in Pages : Unsent(h) /\ heap[h].pkg = heap[g].pkg => h = g
  /\ \A c \in Producers : pkg[c] # NULL =>
       /\ pkg[c] < pdcp_pkd_ptr /\ tgt[pkg[c]] = NULL
       /\ \A d \in Producers : pkg[d] = pkg[c] => d = c
       /\ \A g \in Pages : Unsent(g) => heap[g].pkg # pkg[c]
  /\ \A k \in Pkgs : tgt[k] # NULL => k < pdcp_pkd_ptr
  /\ \A k \in Pkgs : k < pdcp_pkd_ptr =>
       tgt[k] # NULL \/ (\E c \in Producers : pkg[c] = k) \/ \E g \in Pages : Unsent(g) /\ heap[g].pkg = k

NumbersExact ==
  /\ \A k \in Pkgs : tgt[k] # NULL => tgt[k] < vtNext /\ \A j \in Pkgs : tgt[j] = tgt[k] => j = k
  /\ \A sn \in 0..(vtNext - 1) : \E k \in Pkgs : tgt[k] = sn

RlcInv ==
  /\ Types /\ MutualExclusion /\ (\A c \in Cores : SnapExact(c)) /\ (\A c \in Cores : HoldsExact(c))
  /\ ListsWellFormed /\ PlacesExact /\ PkgsExact /\ NumbersExact
------------------------------------------------------------------------------
(* Sequences of pages, and their elements.                                 *)
LEMMA Names ==
  /\ NULL \notin Pages /\ NULL \notin Pkgs /\ NULL \notin Nat
  /\ Pages \subseteq Nat /\ Pkgs \subseteq Nat /\ NumPages \in Nat /\ NumPkgs \in Nat
  /\ \A g \in Pages : 1 <= g /\ g <= NumPages
  /\ \A c \in Cores : (c \in Producers /\ c \notin Consumers) \/ (c \in Consumers /\ c \notin Producers)
<1>1. NumPages \in Nat /\ NumPkgs \in Nat /\ NULL \notin Nat
  BY RlcAssumption, PagesAssumption
<1>2. Pages \subseteq Nat /\ Pkgs \subseteq Nat /\ \A g \in Pages : 1 <= g /\ g <= NumPages
  BY <1>1 DEF Pages, Pkgs
<1>3. \A c \in Cores : (c \in Producers /\ c \notin Consumers) \/ (c \in Consumers /\ c \notin Producers)
  BY RlcAssumption DEF Cores
<1>4. QED
  BY <1>1, <1>2, <1>3

LEMMA SeqFacts ==
  ASSUME NEW s \in Seq(Pages)
  PROVE  /\ Len(s) \in Nat /\ \A i \in 1..Len(s) : s[i] \in Pages
         /\ s = << >> <=> Len(s) = 0
         /\ s # << >> => 1 \in 1..Len(s) /\ Len(s) \in 1..Len(s)
BY EmptySeq

LEMMA AppendElems ==
  ASSUME NEW s \in Seq(Pages), NEW n \in Pages
  PROVE  /\ Append(s, n) \in Seq(Pages)
         /\ \A g : Elem(g, Append(s, n)) <=> Elem(g, s) \/ g = n
         /\ Once(s) /\ ~Elem(n, s) => Once(Append(s, n))
<1> DEFINE r == Append(s, n)
           m == Len(s)
<1>1. m \in Nat /\ \A i \in 1..m : s[i] \in Pages
  BY SeqFacts
<1>2. r \in Seq(Pages) /\ Len(r) = m + 1 /\ r[m + 1] = n /\ \A i \in 1..m : r[i] = s[i]
  BY AppendProperties
<1> HIDE DEF r
<1>3. \A i \in 1..Len(r) : i \in 1..m \/ i = m + 1
  BY <1>1, <1>2
<1>4. m + 1 \in 1..Len(r) /\ \A i \in 1..m : i \in 1..Len(r)
  BY <1>1, <1>2
<1>5. \A g : Elem(g, r) <=> Elem(g, s) \/ g = n
  BY <1>1, <1>2, <1>3, <1>4 DEF Elem
<1>6. ASSUME Once(s), ~Elem(n, s) PROVE Once(r)
  BY <1>2, <1>3, <1>6 DEF Once, Elem
<1>7. QED
  BY <1>2, <1>5, <1>6 DEF r

LEMMA TailElems ==
  ASSUME NEW s \in Seq(Pages), s # << >>
  PROVE  /\ Tail(s) \in Seq(Pages) /\ Len(Tail(s)) = Len(s) - 1 /\ s[1] \in Pages /\ Elem(s[1], s)
         /\ \A i \in 1..Len(Tail(s)) : Tail(s)[i] = s[i + 1] /\ i + 1 \in 1..Len(s)
         /\ Once(s) => /\ Once(Tail(s))
                       /\ \A g : Elem(g, Tail(s)) <=> Elem(g, s) /\ g # s[1]
<1> DEFINE r == Tail(s)
           m == Len(s)
<1>1. m \in Nat /\ m > 0 /\ 1 \in 1..m /\ s[1] \in Pages
  BY SeqFacts
<1>2. r \in Seq(Pages) /\ Len(r) = m - 1 /\ \A i \in 1..Len(r) : r[i] = s[i + 1]
  BY HeadTailProperties
<1> HIDE DEF r
<1>3. \A i \in 1..Len(r) : i + 1 \in 1..m /\ i + 1 # 1
  BY <1>1, <1>2
<1>4. \A i \in 1..m : i # 1 => i - 1 \in 1..Len(r) /\ i - 1 + 1 = i
  BY <1>1, <1>2
<1>5. ASSUME Once(s) PROVE Once(r)
  <2>1. ASSUME NEW i \in 1..Len(r), NEW j \in 1..Len(r), r[i] = r[j] PROVE i = j
    <3>1. i + 1 = j + 1
      BY <1>2, <1>3, <1>5, <2>1 DEF Once
    <3>2. QED
      BY <3>1
  <2>2. QED
    BY <2>1 DEF Once
<1>6. ASSUME Once(s), NEW g PROVE Elem(g, r) <=> Elem(g, s) /\ g # s[1]
  <2>1. ASSUME NEW i \in 1..Len(r), r[i] = g PROVE Elem(g, s) /\ g # s[1]
    <3>1. s[i + 1] = g /\ i + 1 \in 1..m /\ i + 1 # 1
      BY <1>2, <1>3, <2>1
    <3>2. QED
      BY <1>1, <1>6, <3>1 DEF Elem, Once
  <2>2. ASSUME NEW i \in 1..m, s[i] = g, g # s[1] PROVE Elem(g, r)
    <3>1. i # 1
      BY <2>2
    <3>2. i - 1 \in 1..Len(r) /\ r[i - 1] = g
      <4>1. i - 1 \in 1..Len(r) /\ i - 1 + 1 = i
        BY <1>4, <3>1
      <4>2. r[i - 1] = s[i - 1 + 1]
        BY <1>2, <4>1
      <4>3. QED
        BY <2>2, <4>1, <4>2
    <3>3. QED
      BY <3>2 DEF Elem
  <2>3. QED
    BY <2>1, <2>2 DEF Elem
<1>7. Elem(s[1], s)
  BY <1>1 DEF Elem
<1>8. QED
  BY <1>1, <1>2, <1>3, <1>5, <1>6, <1>7 DEF r

LEMMA ConsElems ==
  ASSUME NEW s \in Seq(Pages), NEW n \in Pages
  PROVE  LET r == <<n>> \o s IN
         /\ r \in Seq(Pages) /\ Len(r) = Len(s) + 1 /\ r # << >> /\ r[1] = n
         /\ \A i \in 1..Len(s) : r[i + 1] = s[i]
         /\ \A g : Elem(g, r) <=> Elem(g, s) \/ g = n
         /\ Once(s) /\ ~Elem(n, s) => Once(r)
<1> DEFINE r == <<n>> \o s
           m == Len(s)
<1>1. m \in Nat /\ <<n>> \in Seq(Pages) /\ Len(<<n>>) = 1 /\ <<n>>[1] = n
  BY SeqFacts
<1>2. r \in Seq(Pages) /\ Len(r) = 1 + m
      /\ \A i \in 1..(1 + m) : r[i] = IF i <= 1 THEN <<n>>[i] ELSE s[i - 1]
  BY <1>1, ConcatProperties
<1> HIDE DEF r
<1>3. 1 \in 1..Len(r) /\ r[1] = n
  BY <1>1, <1>2
<1>4. \A i \in 1..m : i + 1 \in 1..Len(r) /\ r[i + 1] = s[i]
  <2>1. ASSUME NEW i \in 1..m PROVE i + 1 \in 1..(1 + m) /\ ~(i + 1 <= 1) /\ i + 1 - 1 = i
    BY <1>1
  <2>2. QED
    BY <1>2, <2>1
<1>5. \A j \in 1..Len(r) : j = 1 \/ (j - 1 \in 1..m /\ r[j] = s[j - 1])
  BY <1>1, <1>2
<1>6. \A g : Elem(g, r) <=> Elem(g, s) \/ g = n
  <2>1. ASSUME NEW g, Elem(g, r) PROVE Elem(g, s) \/ g = n
    <3>1. PICK j \in 1..Len(r) : r[j] = g
      BY <2>1 DEF Elem
    <3>2. QED
      BY <1>3, <1>5, <3>1 DEF Elem
  <2>2. ASSUME NEW g, Elem(g, s) PROVE Elem(g, r)
    BY <1>4, <2>2 DEF Elem
  <2>3. Elem(n, r)
    BY <1>3 DEF Elem
  <2>4. QED
    BY <2>1, <2>2, <2>3
<1>7. ASSUME Once(s), ~Elem(n, s) PROVE Once(r)
  <2>1. ASSUME NEW i \in 1..Len(r), NEW j \in 1..Len(r), r[i] = r[j] PROVE i = j
    <3>1. CASE i = 1 \/ j = 1
      BY <1>3, <1>5, <1>7, <2>1, <3>1 DEF Elem
    <3>2. CASE i # 1 /\ j # 1
      <4>1. i - 1 = j - 1
        BY <1>5, <1>7, <2>1, <3>2 DEF Once
      <4>2. QED
        BY <4>1
    <3>3. QED
      BY <3>1, <3>2
  <2>2. QED
    BY <2>1 DEF Once
<1>8. r # << >>
  BY <1>1, <1>2, EmptySeq
<1>9. QED
  BY <1>1, <1>2, <1>3, <1>4, <1>6, <1>7, <1>8 DEF r
------------------------------------------------------------------------------
(* The list operations keep a list well formed, and touch no other page.   *)
LEMMA PushFacts ==
  ASSUME NEW H \in Heaps, NEW l \in Headers, NEW s \in Seq(Pages), NEW n \in Pages,
         WellFormed(l, H, s), Once(s), ~Elem(n, s)
  PROVE  LET K == PushHeap(H, l.tail, n) IN
         /\ K \in Heaps /\ PushList(l, l.tail, n) \in Headers
         /\ WellFormed(PushList(l, l.tail, n), K, Append(s, n))
         /\ \A g \in Pages : K[g].pkg = H[g].pkg
         /\ \A g \in Pages : g # n /\ ~Elem(g, s) => K[g] = H[g]
<1> DEFINE K == PushHeap(H, l.tail, n)
           r == Append(s, n)
           m == Len(s)
           t == l.tail
<1>1. m \in Nat /\ (\A i \in 1..m : s[i] \in Pages) /\ (s = << >> <=> m = 0) /\ (m > 0 => m \in 1..m)
  BY SeqFacts
<1>2. r \in Seq(Pages) /\ Len(r) = m + 1 /\ r # << >> /\ r[m + 1] = n /\ \A i \in 1..m : r[i] = s[i]
  BY AppendProperties
<1>3. l.head = (IF s = << >> THEN NULL ELSE s[1]) /\ t = (IF s = << >> THEN NULL ELSE s[m]) /\ l.sduNum = m
  BY DEF WellFormed
<1>4. \A i \in 1..m : /\ H[s[i]].next = IF i < m THEN s[i + 1] ELSE NULL
                      /\ H[s[i]].prev = IF i > 1 THEN s[i - 1] ELSE NULL
  BY DEF WellFormed
<1>5. /\ K \in Heaps /\ K[n].prev = t /\ K[n].next = NULL
      /\ \A g \in Pages : K[g].pkg = H[g].pkg
      /\ \A g \in Pages : g # n => K[g].prev = H[g].prev
      /\ \A g \in Pages : g # n => K[g].next = IF g = t THEN n ELSE H[g].next
      /\ \A g \in Pages : g # n /\ g # t => K[g] = H[g]
  BY DEF PushHeap, Heaps, Links, Headers
<1>6. PushList(l, t, n) = [head |-> IF t = NULL THEN n ELSE l.head, tail |-> n, sduNum |-> m + 1]
  BY <1>3 DEF PushList
<1>7. PushList(l, t, n) \in Headers
  BY <1>1, <1>6 DEF Headers, Links
<1>8. \A i \in 1..m : s[i] # n /\ (s[i] = t <=> i = m)
  BY <1>1, <1>3 DEF Once, Elem
<1> HIDE DEF K, r, t
<1>9. m = 0 => t = NULL
  BY <1>1, <1>3
<1>10. m > 0 => t = s[m] /\ t # NULL /\ l.head = s[1]
  BY <1>1, <1>3, Names
<1>11. ASSUME NEW i \in 1..(m + 1)
       PROVE  /\ K[r[i]].next = IF i < m + 1 THEN r[i + 1] ELSE NULL
              /\ K[r[i]].prev = IF i > 1 THEN r[i - 1] ELSE NULL
  <2>1. CASE i = m + 1 /\ m = 0
    BY <1>2, <1>5, <1>9, <2>1
  <2>2. CASE i = m + 1 /\ m > 0
    <3>1. i - 1 = m /\ i > 1 /\ r[m] = s[m]
      BY <1>1, <1>2, <2>2
    <3>2. QED
      BY <1>2, <1>5, <1>10, <2>2, <3>1
  <2>3. CASE i = m /\ m > 0
    <3>1. i \in 1..m /\ r[i] = s[i] /\ s[i] \in Pages /\ s[i] # n /\ s[i] = t
      BY <1>1, <1>2, <1>8, <2>3
    <3>2. K[r[i]].next = n /\ i < m + 1 /\ r[i + 1] = n
      BY <1>2, <1>5, <2>3, <3>1
    <3>3. i > 1 => i - 1 \in 1..m /\ r[i - 1] = s[i - 1]
      BY <1>1, <1>2, <2>3
    <3>4. K[r[i]].prev = IF i > 1 THEN r[i - 1] ELSE NULL
      BY <1>4, <1>5, <3>1, <3>3
    <3>5. QED
      BY <3>2, <3>4
  <2>4. CASE i < m
    <3>1. i \in 1..m /\ r[i] = s[i] /\ s[i] \in Pages /\ s[i] # n /\ s[i] # t
      BY <1>1, <1>2, <1>8, <2>4
    <3>2. i + 1 \in 1..m /\ r[i + 1] = s[i + 1] /\ i < m + 1
      BY <1>1, <1>2, <2>4
    <3>3. i > 1 => i - 1 \in 1..m /\ r[i - 1] = s[i - 1]
      BY <1>1, <1>2, <2>4
    <3>4. K[r[i]].next = s[i + 1]
      BY <1>4, <1>5, <2>4, <3>1
    <3>5. K[r[i]].prev = IF i > 1 THEN r[i - 1] ELSE NULL
      BY <1>4, <1>5, <3>1, <3>3
    <3>6. QED
      BY <3>2, <3>4, <3>5
  <2>5. QED
    BY <1>1, <2>1, <2>2, <2>3, <2>4
<1>12. WellFormed(PushList(l, t, n), K, r)
  <2>1. PushList(l, t, n).head = r[1]
    <3>1. CASE m = 0
      BY <1>2, <1>6, <1>9, <3>1
    <3>2. CASE m > 0
      <4>1. 1 \in 1..m
        BY <1>1, <3>2
      <4>2. QED
        BY <1>2, <1>6, <1>10, <3>2, <4>1
    <3>3. QED
      BY <1>1, <3>1, <3>2
  <2>2. PushList(l, t, n).tail = r[Len(r)] /\ PushList(l, t, n).sduNum = Len(r)
    BY <1>2, <1>6
  <2>3. QED
    BY <1>2, <1>11, <2>1, <2>2 DEF WellFormed
<1>13. \A g \in Pages : g # n /\ ~Elem(g, s) => K[g] = H[g]
  <2>1. \A g \in Pages : ~Elem(g, s) => g # t
    BY <1>1, <1>9, <1>10, Names DEF Elem
  <2>2. QED
    BY <1>5, <2>1
<1>14. QED
  BY <1>5, <1>7, <1>12, <1>13 DEF K, r, t

LEMMA PopFacts ==
  ASSUME NEW H \in Heaps, NEW l \in Headers, NEW s \in Seq(Pages), s # << >>,
         WellFormed(l, H, s), Once(s)
  PROVE  LET K == PopHeap(H, s[1]) IN
         /\ K \in Heaps /\ PopList(l, H, s[1]) \in Headers
         /\ WellFormed(PopList(l, H, s[1]), K, Tail(s))
         /\ \A g \in Pages : K[g].pkg = H[g].pkg
         /\ \A g \in Pages : ~Elem(g, s) => K[g] = H[g]
<1> DEFINE n == s[1]
           K == PopHeap(H, n)
           r == Tail(s)
           m == Len(s)
           f == H[n].next
<1>1. m \in Nat /\ (\A i \in 1..m : s[i] \in Pages) /\ m > 0 /\ 1 \in 1..m /\ m \in 1..m /\ n \in Pages
  BY SeqFacts
<1>2. r \in Seq(Pages) /\ Len(r) = m - 1 /\ (r = << >> <=> m = 1)
      /\ \A i \in 1..(m - 1) : r[i] = s[i + 1] /\ i + 1 \in 1..m
  <2>1. r \in Seq(Pages) /\ Len(r) = m - 1 /\ \A i \in 1..Len(r) : r[i] = s[i + 1] /\ i + 1 \in 1..m
    BY TailElems
  <2>2. r = << >> <=> Len(r) = 0
    BY <2>1, SeqFacts
  <2>3. Len(r) = 0 <=> m = 1
    BY <1>1, <2>1
  <2> HIDE DEF r, m
  <2>4. QED
    BY <2>1, <2>2, <2>3
<1>3. l.tail = s[m] /\ l.sduNum = m
  BY DEF WellFormed
<1>4. \A i \in 1..m : /\ H[s[i]].next = IF i < m THEN s[i + 1] ELSE NULL
                      /\ H[s[i]].prev = IF i > 1 THEN s[i - 1] ELSE NULL
  BY DEF WellFormed
<1>5. f = IF m > 1 THEN s[2] ELSE NULL
  BY <1>1, <1>4
<1>6. /\ K \in Heaps
      /\ \A g \in Pages : K[g].pkg = H[g].pkg
      /\ \A g \in Pages : g # n => K[g].next = H[g].next
      /\ \A g \in Pages : g # n => K[g].prev = IF g = f THEN NULL ELSE H[g].prev
      /\ \A g \in Pages : g # n /\ g # f => K[g] = H[g]
  BY DEF PopHeap, Heaps, Links
<1>7. PopList(l, H, n) = [head |-> f, tail |-> IF f = NULL THEN NULL ELSE s[m], sduNum |-> m - 1]
  BY <1>3 DEF PopList
<1>8. f \in Links
  BY <1>1 DEF Heaps
<1>9. PopList(l, H, n) \in Headers
  BY <1>1, <1>7, <1>8 DEF Headers, Links
<1> HIDE DEF K, r, f, n
<1>10. \A i \in 1..m : i # 1 => s[i] # n /\ (s[i] = f <=> i = 2)
  <2>1. \A i \in 1..m : i # 1 => s[i] # n
    BY <1>1 DEF Once, n
  <2>2. m > 1 => 2 \in 1..m /\ f = s[2]
    BY <1>1, <1>5
  <2>3. \A i \in 1..m : i # 1 => m > 1
    BY <1>1
  <2>4. QED
    BY <2>1, <2>2, <2>3 DEF Once
<1>11. ASSUME NEW i \in 1..(m - 1)
       PROVE  /\ K[r[i]].next = IF i < m - 1 THEN r[i + 1] ELSE NULL
              /\ K[r[i]].prev = IF i > 1 THEN r[i - 1] ELSE NULL
  <2>1. i + 1 \in 1..m /\ r[i] = s[i + 1] /\ i + 1 # 1 /\ s[i + 1] \in Pages
    BY <1>1, <1>2
  <2>2. s[i + 1] # n /\ (s[i + 1] = f <=> i = 1)
    <3>1. i + 1 = 2 <=> i = 1
      OBVIOUS
    <3>2. QED
      BY <1>10, <2>1, <3>1
  <2>3. K[r[i]].next = IF i + 1 < m THEN s[i + 1 + 1] ELSE NULL
    BY <1>4, <1>6, <2>1, <2>2
  <2>4. i < m - 1 => i + 1 < m /\ r[i + 1] = s[i + 1 + 1]
    <3>1. i < m - 1 => i + 1 < m /\ i + 1 \in 1..(m - 1)
      BY <1>1
    <3>2. QED
      BY <1>2, <3>1
  <2>5. ~(i < m - 1) => ~(i + 1 < m)
    BY <1>1
  <2>6. K[r[i]].prev = IF i > 1 THEN s[i + 1 - 1] ELSE NULL
    <3>1. i > 1 <=> i # 1
      OBVIOUS
    <3>2. H[s[i + 1]].prev = s[i + 1 - 1]
      BY <1>4, <2>1
    <3>3. QED
      BY <1>6, <2>1, <2>2, <3>1, <3>2
  <2>7. i > 1 => r[i - 1] = s[i + 1 - 1]
    <3>1. i > 1 => i - 1 \in 1..(m - 1) /\ i - 1 + 1 = i + 1 - 1
      BY <1>1
    <3>2. QED
      BY <1>2, <3>1
  <2>8. QED
    BY <2>3, <2>4, <2>5, <2>6, <2>7
<1>12. WellFormed(PopList(l, H, n), K, r)
  <2>1. CASE m = 1
    <3>1. r = << >> /\ f = NULL /\ Len(r) = 0
      BY <1>2, <1>5, <2>1
    <3>2. QED
      BY <1>7, <2>1, <3>1 DEF WellFormed
  <2>2. CASE m > 1
    <3>1. 1 \in 1..(m - 1) /\ m - 1 \in 1..(m - 1) /\ 1 + 1 = 2 /\ m - 1 + 1 = m /\ 2 \in 1..m
      BY <1>1, <2>2
    <3>2. r # << >> /\ r[1] = s[2] /\ r[Len(r)] = s[m]
      BY <1>2, <2>2, <3>1
    <3>3. f = s[2] /\ f # NULL
      BY <1>1, <1>5, <2>2, <3>1, Names
    <3>4. QED
      BY <1>2, <1>7, <1>11, <3>2, <3>3 DEF WellFormed
  <2> HIDE DEF m
  <2>3. m = 1 \/ m > 1
    BY <1>1
  <2>4. QED
    BY <2>1, <2>2, <2>3
<1>13. \A g \in Pages : ~Elem(g, s) => K[g] = H[g]
  <2>1. \A g \in Pages : ~Elem(g, s) => g # n /\ g # f
    <3>1. m > 1 => 2 \in 1..m
      BY <1>1
    <3>2. QED
      BY <1>1, <1>5, <3>1, Names DEF Elem, n
  <2>2. QED
    BY <1>6, <2>1
<1>14. QED
  BY <1>6, <1>9, <1>12, <1>13 DEF K, r, n
------------------------------------------------------------------------------
LEMMA InsideOne ==
  /\ \A l, k \in Locks : \A label : label \in Inside(l) /\ label \in Inside(k) => l = k
  /\ \A l \in Locks : Inside(l) \subseteq {"receive2", "alloc2", "free2", "push2", "pop2", "sent2", "ack_pop2"}
  /\ Inside("pdcp") = {"receive2"} /\ Inside("mm") = {"alloc2", "free2"}
  /\ Inside("list") = {"push2", "pop2"} /\ Inside("sent_list") = {"sent2", "ack_pop2"}
  /\ {"pdcp", "mm", "list", "sent_list"} = Locks
BY DEF Inside, Locks

LEMMA RlcInit == Init => RlcInv
<1> SUFFICES ASSUME Init PROVE RlcInv
  OBVIOUS
<1>1. << >> \in Seq(Nat \cup {NULL}) /\ << >> \in Seq(Pages) /\ Len(<< >>) = 0
  OBVIOUS
<1>2. EmptyHeap \in Heaps /\ EmptyList \in Headers
  BY DEF EmptyHeap, Heaps, Links, PkgOrNone, EmptyList, Headers
<1>3. /\ pc \in [Cores -> Labels] /\ \A c \in Cores : pc[c] \in {"pop", "receive"}
      /\ \A c \in Cores : pc[c] = IF c \in Consumers THEN "pop" ELSE "receive"
  BY DEF Init, Labels, ProducerLabels, ConsumerLabels
<1>4. Types
  <2>1. lock \in [Locks -> {0, 1}] /\ pdcp_pkd_ptr \in 0..NumPkgs /\ alloc_offset \in 0..NumPages
    BY Names DEF Init
  <2>2. free_list \in Links /\ heap \in Heaps /\ lists \in [{"list", "sent_list"} -> Headers]
        /\ vtNext \in Nat /\ tgt \in [Pkgs -> Nat \cup {NULL}]
    BY <1>2 DEF Init, Links
  <2>3. snap \in [Cores -> Seq(Nat \cup {NULL})] /\ order \in [Orders -> Seq(Pages)]
    BY <1>1 DEF Init, Orders
  <2>4. node \in [Cores -> Links] /\ pkg \in [Cores -> PkgOrNone]
    BY DEF Init, Links, PkgOrNone
  <2>5. QED
    BY <1>3, <2>1, <2>2, <2>3, <2>4 DEF Types
<1>5. MutualExclusion
  BY <1>3, InsideOne DEF MutualExclusion
<1>6. \A c \in Cores : SnapExact(c)
  BY <1>3 DEF SnapExact
<1>7. \A c \in Cores : HoldsExact(c)
  BY <1>3, Names DEF HoldsExact, Init, ProducerLabels, ConsumerLabels, HoldsNode, HoldsPkg
<1>8. \A l \in Orders : order[l] = << >>
  BY DEF Init, Orders
<1>9. ListsWellFormed
  BY <1>1, <1>8 DEF Init, ListsWellFormed, WellFormed, Freed, EmptyList, Orders
<1>10. \A l \in Orders : \A g : ~Elem(g, order[l])
  BY <1>1, <1>8 DEF Elem
<1>11. PlacesExact
  <2>1. \A l \in Orders : Once(order[l])
    BY <1>1, <1>8 DEF Once
  <2>2. \A c \in Cores : node[c] = NULL
    BY DEF Init
  <2>3. \A g \in Pages : ~(g <= alloc_offset) /\ g # NULL
    BY Names DEF Init
  <2>4. QED
    BY <1>10, <2>1, <2>2, <2>3 DEF PlacesExact
<1>12. PkgsExact
  <2>1. \A g : ~Unsent(g)
    BY <1>3, <1>10, Names DEF Unsent, Orders, Cores
  <2>2. (\A c \in Producers : pkg[c] = NULL) /\ (\A k \in Pkgs : tgt[k] = NULL /\ ~(k < pdcp_pkd_ptr))
    BY Names DEF Init, Cores, Pkgs
  <2>3. QED
    BY <2>1, <2>2 DEF PkgsExact
<1>13. NumbersExact
  BY DEF Init, NumbersExact
<1>14. QED
  BY <1>4, <1>5, <1>6, <1>7, <1>9, <1>11, <1>12, <1>13 DEF RlcInv

(* What a step of hart c leaves alone.                                      *)
OthersRest(c) ==
  \A d \in Cores \ {c} : pc'[d] = pc[d] /\ snap'[d] = snap[d] /\ node'[d] = node[d] /\ pkg'[d] = pkg[d]

(* A step that moves no page and no package.                               *)
LEMMA FrameInv ==
  ASSUME RlcInv, Types', MutualExclusion', NEW c \in Cores, OthersRest(c),
         UNCHANGED <<shared, order, vtNext, tgt, node, pkg>>,
         pc[c] # "number", pc'[c] # "number", HoldsExact(c)', SnapExact(c)'
  PROVE  RlcInv'
<1>1. UNCHANGED <<pdcp_pkd_ptr, alloc_offset, free_list, heap, lists, order, vtNext, tgt, node, pkg>>
  BY DEF shared
<1>2. \A d \in Cores \ {c} : pc'[d] = pc[d] /\ snap'[d] = snap[d]
  BY DEF OthersRest
<1>3. ASSUME NEW d \in Cores PROVE SnapExact(d)' /\ HoldsExact(d)'
  <2>1. CASE d = c
    BY <2>1
  <2>2. CASE d # c
    BY <1>1, <1>2, <2>2 DEF RlcInv, SnapExact, HoldsExact
  <2>3. QED
    BY <2>1, <2>2
<1>4. ListsWellFormed' /\ PlacesExact' /\ NumbersExact'
  BY <1>1 DEF RlcInv, ListsWellFormed, PlacesExact, NumbersExact
<1>5. PkgsExact'
  <2>1. \A d \in Cores : pc'[d] = "number" <=> pc[d] = "number"
    BY <1>2
  <2>2. \A g : Unsent(g)' <=> Unsent(g)
    BY <1>1, <2>1 DEF Unsent, Cores
  <2>3. QED
    BY <1>1, <2>2 DEF RlcInv, PkgsExact
<1>6. QED
  BY <1>3, <1>4, <1>5 DEF RlcInv

(* A hart comes into a critical section.                                   *)
LEMMA EnterInv ==
  ASSUME RlcInv, NEW c \in Cores, NEW l \in Locks, NEW at, NEW label \in Inside(l),
         NEW value \in Seq(Nat \cup {NULL}), Enter(c, at, l, value, label),
         label \in Labels, at # "number",
         c \in Producers => label \in ProducerLabels, c \in Consumers => label \in ConsumerLabels,
         at \in HoldsNode <=> label \in HoldsNode, at \in HoldsPkg <=> label \in HoldsPkg,
         label = "push2" => at = "push", SnapExact(c)'
  PROVE  RlcInv'
<1>1. /\ pc[c] = at /\ lock[l] = 0 /\ lock' = [lock EXCEPT ![l] = 1] /\ snap' = [snap EXCEPT ![c] = value]
      /\ pc' = [pc EXCEPT ![c] = label] /\ UNCHANGED <<shared, stats, locals, order>>
  BY DEF Enter, SpinLock, Goto
<1>2. UNCHANGED <<shared, order, vtNext, tgt, node, pkg>>
  BY <1>1 DEF stats, locals
<1>3. Types'
  <2>1. UNCHANGED <<pdcp_pkd_ptr, alloc_offset, free_list, heap, lists, order, vtNext, tgt, node, pkg>>
    BY <1>2 DEF shared
  <2>2. lock' \in [Locks -> {0, 1}] /\ pc' \in [Cores -> Labels] /\ snap' \in [Cores -> Seq(Nat \cup {NULL})]
    BY <1>1 DEF RlcInv, Types
  <2>3. QED
    BY <2>1, <2>2 DEF RlcInv, Types
<1>4. pc'[c] = label /\ OthersRest(c) /\ lock'[l] = 1 /\ \A k \in Locks \ {l} : lock'[k] = lock[k]
  BY <1>1, <1>2 DEF OthersRest, RlcInv, Types
<1>5. MutualExclusion'
  <2>1. \A d \in Cores : pc[d] \notin Inside(l)
    BY <1>1 DEF RlcInv, MutualExclusion
  <2>2. \A d \in Cores : pc'[d] \in Inside(l) => d = c
    BY <1>4, <2>1 DEF OthersRest
  <2>3. \A k \in Locks \ {l} : pc'[c] \notin Inside(k)
    BY <1>4, InsideOne
  <2>4. \A k \in Locks \ {l} : \A d \in Cores : pc'[d] \in Inside(k) => d # c /\ pc[d] \in Inside(k)
    BY <2>3, <1>4 DEF OthersRest
  <2>5. QED
    BY <1>4, <2>2, <2>4 DEF RlcInv, MutualExclusion
<1>6. label # "number"
  BY InsideOne
<1>7. HoldsExact(c)'
  BY <1>1, <1>2, <1>4, InsideOne DEF HoldsExact, RlcInv, shared
<1>8. QED
  BY <1>1, <1>2, <1>3, <1>4, <1>5, <1>6, <1>7, FrameInv

(* A step outside critical sections that only moves on.                    *)
LEMMA QuietInv ==
  ASSUME RlcInv, NEW c \in Cores, NEW label \in Labels, Goto(c, label),
         UNCHANGED <<lock, shared, snap, order, vtNext, tgt, node, pkg>>,
         pc[c] # "number", label # "number",
         label \notin {"receive2", "alloc2", "free2", "push2", "pop2", "sent2", "ack_pop2", "push"},
         c \in Producers => label \in ProducerLabels, c \in Consumers => label \in ConsumerLabels,
         pc[c] \in HoldsNode <=> label \in HoldsNode, pc[c] \in HoldsPkg <=> label \in HoldsPkg
  PROVE  RlcInv'
<1>1. pc' = [pc EXCEPT ![c] = label]
  BY DEF Goto
<1>2. pc'[c] = label /\ OthersRest(c) /\ pc' \in [Cores -> Labels]
  BY <1>1 DEF OthersRest, RlcInv, Types
<1>3. Types'
  BY <1>2 DEF RlcInv, Types, shared
<1>4. MutualExclusion'
  <2>1. \A l \in Locks : \A d \in Cores : pc'[d] \in Inside(l) => d # c /\ pc[d] \in Inside(l)
    BY <1>2, InsideOne DEF OthersRest
  <2>2. QED
    BY <2>1 DEF RlcInv, MutualExclusion
<1>5. SnapExact(c)'
  BY <1>2 DEF SnapExact
<1>6. HoldsExact(c)'
  BY <1>2 DEF HoldsExact, RlcInv
<1>7. QED
  BY <1>2, <1>3, <1>4, <1>5, <1>6, FrameInv
(* The steps into the critical sections. *)
LEMMA EntersInv ==
  ASSUME RlcInv, NEW c \in Cores,
         \/ ReceiveEnter(c) \/ AllocEnter(c) \/ PushEnter(c) \/ PopEnter(c) \/ SentEnter(c)
         \/ AckPopEnter(c) \/ FreeEnter(c)
  PROVE  RlcInv'
<1>1. /\ pdcp_pkd_ptr \in Nat \cup {NULL} /\ alloc_offset \in Nat \cup {NULL} /\ free_list \in Nat \cup {NULL}
      /\ \A l \in {"list", "sent_list"} : lists[l].head \in Nat \cup {NULL} /\ lists[l].tail \in Nat \cup {NULL}
  <2>1. Links \subseteq Nat \cup {NULL}
    BY Names DEF Links
  <2>2. pdcp_pkd_ptr \in Nat /\ alloc_offset \in Nat /\ free_list \in Links
    BY DEF RlcInv, Types
  <2>3. \A l \in {"list", "sent_list"} : lists[l].head \in Links /\ lists[l].tail \in Links
    BY DEF RlcInv, Types, Headers
  <2>4. QED
    BY <2>1, <2>2, <2>3
<1>2. /\ c \in Producers => pc[c] \in ProducerLabels
      /\ c \in Consumers => pc[c] \in ConsumerLabels
  BY DEF RlcInv, HoldsExact
<1>3. ASSUME NEW l, NEW at, NEW label, NEW value, Enter(c, at, l, value, label)
      PROVE  /\ UNCHANGED <<pdcp_pkd_ptr, alloc_offset, free_list, lists>> /\ pc[c] = at
             /\ pc'[c] = label /\ snap'[c] = value
  BY <1>3 DEF Enter, SpinLock, Goto, shared, RlcInv, Types
<1>4. CASE ReceiveEnter(c)
  <2>1. SnapExact(c)'
    BY <1>3, <1>4 DEF ReceiveEnter, SnapExact
  <2>2. <<pdcp_pkd_ptr>> \in Seq(Nat \cup {NULL})
    BY <1>1
  <2>3. Enter(c, "receive", "pdcp", <<pdcp_pkd_ptr>>, "receive2") /\ pc[c] = "receive"
    BY <1>3, <1>4 DEF ReceiveEnter
  <2>4. "receive2" \in Inside("pdcp") /\ "pdcp" \in Locks
    BY InsideOne
  <2>5. QED
    BY <1>2, <2>1, <2>2, <2>3, <2>4, EnterInv DEF Labels, ProducerLabels, ConsumerLabels, HoldsNode, HoldsPkg
<1>5. CASE AllocEnter(c)
  <2>1. SnapExact(c)'
    BY <1>3, <1>5 DEF AllocEnter, SnapExact
  <2>2. <<alloc_offset, free_list>> \in Seq(Nat \cup {NULL})
    BY <1>1
  <2>3. Enter(c, "alloc", "mm", <<alloc_offset, free_list>>, "alloc2") /\ pc[c] = "alloc"
    BY <1>3, <1>5 DEF AllocEnter
  <2>4. "alloc2" \in Inside("mm") /\ "mm" \in Locks
    BY InsideOne
  <2>5. QED
    BY <1>2, <2>1, <2>2, <2>3, <2>4, EnterInv DEF Labels, ProducerLabels, ConsumerLabels, HoldsNode, HoldsPkg
<1>6. CASE PushEnter(c)
  <2>1. SnapExact(c)'
    BY <1>3, <1>6 DEF PushEnter, SnapExact
  <2>2. <<lists["list"].tail>> \in Seq(Nat \cup {NULL})
    BY <1>1
  <2>3. Enter(c, "push", "list", <<lists["list"].tail>>, "push2") /\ pc[c] = "push"
    BY <1>3, <1>6 DEF PushEnter
  <2>4. "push2" \in Inside("list") /\ "list" \in Locks
    BY InsideOne
  <2>5. QED
    BY <1>2, <2>1, <2>2, <2>3, <2>4, EnterInv DEF Labels, ProducerLabels, ConsumerLabels, HoldsNode, HoldsPkg
<1>7. CASE PopEnter(c)
  <2>1. SnapExact(c)'
    BY <1>3, <1>7 DEF PopEnter, SnapExact
  <2>2. <<lists["list"].head>> \in Seq(Nat \cup {NULL})
    BY <1>1
  <2>3. Enter(c, "pop", "list", <<lists["list"].head>>, "pop2") /\ pc[c] = "pop"
    BY <1>3, <1>7 DEF PopEnter
  <2>4. "pop2" \in Inside("list") /\ "list" \in Locks
    BY InsideOne
  <2>5. QED
    BY <1>2, <2>1, <2>2, <2>3, <2>4, EnterInv DEF Labels, ProducerLabels, ConsumerLabels, HoldsNode, HoldsPkg
<1>8. CASE SentEnter(c)
  <2>1. SnapExact(c)'
    BY <1>3, <1>8 DEF SentEnter, SnapExact
  <2>2. <<lists["sent_list"].tail>> \in Seq(Nat \cup {NULL})
    BY <1>1
  <2>3. Enter(c, "sent", "sent_list", <<lists["sent_list"].tail>>, "sent2") /\ pc[c] = "sent"
    BY <1>3, <1>8 DEF SentEnter
  <2>4. "sent2" \in Inside("sent_list") /\ "sent_list" \in Locks
    BY InsideOne
  <2>5. QED
    BY <1>2, <2>1, <2>2, <2>3, <2>4, EnterInv DEF Labels, ProducerLabels, ConsumerLabels, HoldsNode, HoldsPkg
<1>9. CASE AckPopEnter(c)
  <2>1. SnapExact(c)'
    BY <1>3, <1>9 DEF AckPopEnter, SnapExact
  <2>2. <<lists["sent_list"].head>> \in Seq(Nat \cup {NULL})
    BY <1>1
  <2>3. Enter(c, "ack_pop", "sent_list", <<lists["sent_list"].head>>, "ack_pop2") /\ pc[c] = "ack_pop"
    BY <1>3, <1>9 DEF AckPopEnter
  <2>4. "ack_pop2" \in Inside("sent_list") /\ "sent_list" \in Locks
    BY InsideOne
  <2>5. QED
    BY <1>2, <2>1, <2>2, <2>3, <2>4, EnterInv DEF Labels, ProducerLabels, ConsumerLabels, HoldsNode, HoldsPkg
<1>10. CASE FreeEnter(c)
  <2>1. SnapExact(c)'
    BY <1>3, <1>10 DEF FreeEnter, SnapExact
  <2>2. <<free_list>> \in Seq(Nat \cup {NULL})
    BY <1>1
  <2>3. Enter(c, "free", "mm", <<free_list>>, "free2") /\ pc[c] = "free"
    BY <1>3, <1>10 DEF FreeEnter
  <2>4. "free2" \in Inside("mm") /\ "mm" \in Locks
    BY InsideOne
  <2>5. QED
    BY <1>2, <2>1, <2>2, <2>3, <2>4, EnterInv DEF Labels, ProducerLabels, ConsumerLabels, HoldsNode, HoldsPkg
<1>11. QED
  BY <1>4, <1>5, <1>6, <1>7, <1>8, <1>9, <1>10

(* The steps that only move on.                                            *)
LEMMA QuietsInv ==
  ASSUME RlcInv, NEW c \in Cores,
         Done(c) \/ CheckDone(c) \/ CheckAck(c) \/ LoadAck(c) \/ StoreAck(c)
  PROVE  RlcInv'
<1>1. UNCHANGED <<lock, shared, snap, order, vtNext, tgt, node, pkg>>
  BY DEF Done, CheckDone, CheckAck, LoadAck, StoreAck, stats, locals
<1>2. /\ c \in Producers => pc[c] \in ProducerLabels
      /\ c \in Consumers => pc[c] \in ConsumerLabels
  BY DEF RlcInv, HoldsExact
<1>3. PICK label \in Labels :
        /\ Goto(c, label)
        /\ \/ pc[c] = "done" /\ label = "exit"
           \/ pc[c] = "check_done" /\ label \in {"exit", "pop"}
           \/ pc[c] = "check_ack" /\ label \in {"ack", "pop"}
           \/ pc[c] = "ack" /\ label = "ack_pop"
           \/ pc[c] = "store_ack" /\ label = "pop"
  BY DEF Done, CheckDone, CheckAck, LoadAck, StoreAck, Labels, ProducerLabels, ConsumerLabels
<1>4. /\ c \in Producers => label \in ProducerLabels
      /\ c \in Consumers => label \in ConsumerLabels
  BY <1>2, <1>3 DEF ProducerLabels, ConsumerLabels
<1>5. pc[c] \notin HoldsNode /\ label \notin HoldsNode /\ pc[c] \notin HoldsPkg /\ label \notin HoldsPkg
      /\ label # "number" /\ pc[c] # "number"
      /\ label \notin {"receive2", "alloc2", "free2", "push2", "pop2", "sent2", "ack_pop2", "push"}
  BY <1>3 DEF HoldsNode, HoldsPkg
<1>6. QED
  BY <1>1, <1>3, <1>4, <1>5, QuietInv
------------------------------------------------------------------------------
(* A hart leaves a critical section, after writes that its lock protects.  *)
LEMMA LeaveFrame ==
  ASSUME RlcInv, NEW c \in Cores, NEW l \in Locks, pc[c] \in Inside(l), SpinUnlock(c, l),
         NEW label \in Labels, Goto(c, label),
         label \notin {"receive2", "alloc2", "free2", "push2", "pop2", "sent2", "ack_pop2"},
         l # "pdcp" => pdcp_pkd_ptr' = pdcp_pkd_ptr,
         l # "mm" => UNCHANGED <<alloc_offset, free_list>>,
         l # "list" => lists'["list"] = lists["list"],
         l # "sent_list" => lists'["sent_list"] = lists["sent_list"]
  PROVE  /\ MutualExclusion' /\ \A d \in Cores : SnapExact(d)'
         /\ lock' \in [Locks -> {0, 1}] /\ pc' \in [Cores -> Labels] /\ snap' \in [Cores -> Seq(Nat \cup {NULL})]
         /\ pc'[c] = label /\ \A d \in Cores \ {c} : pc'[d] = pc[d] /\ snap'[d] = snap[d]
<1>1. lock' = [lock EXCEPT ![l] = 0] /\ snap' = [snap EXCEPT ![c] = << >>] /\ pc' = [pc EXCEPT ![c] = label]
  BY DEF SpinUnlock, Goto
<1>2. << >> \in Seq(Nat \cup {NULL})
  OBVIOUS
<1>3. /\ lock' \in [Locks -> {0, 1}] /\ pc' \in [Cores -> Labels] /\ snap' \in [Cores -> Seq(Nat \cup {NULL})]
      /\ pc'[c] = label /\ \A d \in Cores \ {c} : pc'[d] = pc[d] /\ snap'[d] = snap[d]
      /\ \A k \in Locks \ {l} : lock'[k] = lock[k]
  BY <1>1, <1>2 DEF RlcInv, Types
<1>4. \A k \in Locks : pc'[c] \notin Inside(k)
  BY <1>3, InsideOne
<1>5. \A d \in Cores \ {c} : pc[d] \notin Inside(l)
  BY DEF RlcInv, MutualExclusion
<1>6. MutualExclusion'
  <2>1. \A k \in Locks : \A d \in Cores : pc'[d] \in Inside(k) => d # c /\ k # l /\ pc[d] \in Inside(k)
    BY <1>3, <1>4, <1>5
  <2>2. QED
    BY <1>3, <2>1 DEF RlcInv, MutualExclusion
<1>7. ASSUME NEW d \in Cores \ {c} PROVE SnapExact(d)'
  <2>1. UNCHANGED <<pc[d], snap[d]>> /\ SnapExact(d)
    BY <1>3 DEF RlcInv
  <2>2. pc[d] = "receive2" => pdcp_pkd_ptr' = pdcp_pkd_ptr
    BY <1>5, InsideOne
  <2>3. pc[d] \in {"alloc2", "free2"} => UNCHANGED <<alloc_offset, free_list>>
    BY <1>5, InsideOne
  <2>4. pc[d] \in {"push2", "pop2"} => lists'["list"] = lists["list"]
    BY <1>5, InsideOne
  <2>5. pc[d] \in {"sent2", "ack_pop2"} => lists'["sent_list"] = lists["sent_list"]
    BY <1>5, InsideOne
  <2>6. QED
    BY <2>1, <2>2, <2>3, <2>4, <2>5 DEF SnapExact
<1>8. SnapExact(c)'
  BY <1>3 DEF SnapExact
<1>9. QED
  BY <1>3, <1>6, <1>7, <1>8

LEMMA WellFormedKept ==
  ASSUME RlcInv, NEW l \in {"list", "sent_list"}, lists'[l] = lists[l], order'[l] = order[l],
         \A g \in Pages : Elem(g, order[l]) => heap'[g].next = heap[g].next /\ heap'[g].prev = heap[g].prev
  PROVE  WellFormed(lists[l], heap, order[l])'
<1>1. WellFormed(lists[l], heap, order[l]) /\ order[l] \in Seq(Pages)
  BY DEF RlcInv, ListsWellFormed, Types, Orders
<1>2. \A i \in 1..Len(order[l]) : /\ heap'[order[l][i]].next = heap[order[l][i]].next
                                  /\ heap'[order[l][i]].prev = heap[order[l][i]].prev
  BY <1>1, SeqFacts DEF Elem
<1>3. QED
  BY <1>1, <1>2 DEF WellFormed

LEMMA FreedKept ==
  ASSUME RlcInv, free_list' = free_list, order'["free"] = order["free"],
         \A g \in Pages : Elem(g, order["free"]) => heap'[g].prev = heap[g].prev
  PROVE  Freed(free_list, heap, order["free"])'
<1>1. Freed(free_list, heap, order["free"]) /\ order["free"] \in Seq(Pages)
  BY DEF RlcInv, ListsWellFormed, Types, Orders
<1>2. \A i \in 1..Len(order["free"]) : heap'[order["free"][i]].prev = heap[order["free"][i]].prev
  BY <1>1, SeqFacts DEF Elem
<1>3. QED
  BY <1>1, <1>2 DEF Freed

(* A step that neither takes a package nor ends with one.                  *)
LEMMA PkgsKept ==
  ASSUME RlcInv, UNCHANGED <<pdcp_pkd_ptr, tgt>>, \A d \in Producers : pkg'[d] = pkg[d],
         \A g \in Pages : (Unsent(g)' <=> Unsent(g)) /\ (Unsent(g) => heap'[g].pkg = heap[g].pkg)
  PROVE  PkgsExact'
BY DEF RlcInv, PkgsExact

LEMMA NumbersKept == ASSUME RlcInv, UNCHANGED <<tgt, vtNext>> PROVE NumbersExact'
BY DEF RlcInv, NumbersExact
------------------------------------------------------------------------------
LEMMA ReceiveInv == ASSUME RlcInv, NEW c \in Cores, Receive(c) PROVE RlcInv'
<1> DEFINE more == pdcp_pkd_ptr < NumPkgs
           label == IF more THEN "alloc" ELSE "done"
<1>1. pc[c] = "receive2" /\ snap[c][1] = pdcp_pkd_ptr /\ pdcp_pkd_ptr \in 0..NumPkgs
  BY DEF Receive, RlcInv, SnapExact, Types
<1>2. /\ pdcp_pkd_ptr' = (IF more THEN pdcp_pkd_ptr + 1 ELSE pdcp_pkd_ptr)
      /\ pkg' = [pkg EXCEPT ![c] = IF more THEN pdcp_pkd_ptr ELSE NULL]
      /\ Goto(c, label) /\ SpinUnlock(c, "pdcp")
      /\ UNCHANGED <<alloc_offset, free_list, heap, lists, vtNext, tgt, node, order>>
  BY <1>1 DEF Receive, stats
<1>3. c \in Producers /\ node[c] = NULL /\ pkg[c] = NULL
  BY <1>1, Names DEF RlcInv, HoldsExact, ConsumerLabels, HoldsNode, HoldsPkg
<1>4. label \in {"alloc", "done"} /\ label \in Labels /\ (more <=> label = "alloc")
  BY DEF Labels, ProducerLabels
<1>5. "pdcp" \in Locks /\ pc[c] \in Inside("pdcp")
  BY <1>1, InsideOne
<1> HIDE DEF label
<1>6. /\ MutualExclusion' /\ \A d \in Cores : SnapExact(d)'
      /\ lock' \in [Locks -> {0, 1}] /\ pc' \in [Cores -> Labels] /\ snap' \in [Cores -> Seq(Nat \cup {NULL})]
      /\ pc'[c] = label /\ \A d \in Cores \ {c} : pc'[d] = pc[d] /\ snap'[d] = snap[d]
  BY <1>2, <1>4, <1>5, LeaveFrame
<1>7. more => pdcp_pkd_ptr \in Pkgs
  BY <1>1, Names DEF Pkgs
<1>8. /\ pkg' \in [Cores -> PkgOrNone] /\ pkg'[c] = (IF more THEN pdcp_pkd_ptr ELSE NULL)
      /\ \A d \in Cores \ {c} : pkg'[d] = pkg[d]
  BY <1>2, <1>7 DEF RlcInv, Types, PkgOrNone
<1>9. pdcp_pkd_ptr' \in 0..NumPkgs
  BY <1>1, <1>2, Names
<1>10. Types'
  BY <1>2, <1>6, <1>8, <1>9 DEF RlcInv, Types
<1>11. \A d \in Cores : HoldsExact(d)'
  <2>1. HoldsExact(c)'
    BY <1>2, <1>3, <1>4, <1>6, <1>7, <1>8, Names DEF HoldsExact, HoldsNode, HoldsPkg, ProducerLabels
  <2>2. \A d \in Cores \ {c} : HoldsExact(d)'
    BY <1>2, <1>6, <1>8 DEF RlcInv, HoldsExact
  <2>3. QED
    BY <2>1, <2>2
<1>12. ListsWellFormed' /\ PlacesExact' /\ NumbersExact'
  BY <1>2 DEF RlcInv, ListsWellFormed, PlacesExact, NumbersExact
<1>13. \A g \in Pages : Unsent(g)' <=> Unsent(g)
  BY <1>2, <1>3, <1>6, Names DEF Unsent, Cores
<1>14. PkgsExact'
  <2>1. CASE ~more
    <3>1. \A d \in Producers : pkg'[d] = pkg[d]
      BY <1>3, <1>8, <2>1 DEF Cores
    <3>2. QED
      BY <1>2, <1>13, <2>1, <3>1, PkgsKept
  <2>2. CASE more
    <3> DEFINE k == pdcp_pkd_ptr
    <3>1. k \in Pkgs /\ k \in Nat /\ pdcp_pkd_ptr' = k + 1 /\ pkg'[c] = k /\ k # NULL
      BY <1>1, <1>2, <1>7, <1>8, <2>2, Names
    <3>2. tgt[k] = NULL /\ (\A d \in Producers : pkg[d] # k) /\ (\A g \in Pages : Unsent(g) => heap[g].pkg # k)
      BY <3>1 DEF RlcInv, PkgsExact
    <3>3. \A j \in Pkgs : j \in Nat /\ (j < k + 1 <=> j < k \/ j = k)
      BY <3>1, Names
    <3>4. \A d \in Producers : pkg'[d] = IF d = c THEN k ELSE pkg[d]
      BY <1>8, <3>1 DEF Cores
    <3>5. \A d \in Producers : pkg[d] \in Pkgs \cup {NULL}
      BY DEF RlcInv, Types, PkgOrNone, Cores
    <3> HIDE DEF k
    <3>6. \A g \in Pages : Unsent(g)' =>
            /\ heap'[g].pkg \in Pkgs /\ heap'[g].pkg < k + 1 /\ tgt'[heap'[g].pkg] = NULL
            /\ \A h \in Pages : Unsent(h)' /\ heap'[h].pkg = heap'[g].pkg => h = g
      BY <1>2, <1>13, <3>3 DEF RlcInv, PkgsExact, k
    <3>7. \A d \in Producers : pkg'[d] # NULL =>
            /\ pkg'[d] < k + 1 /\ tgt'[pkg'[d]] = NULL
            /\ \A e \in Producers : pkg'[e] = pkg'[d] => e = d
            /\ \A g \in Pages : Unsent(g)' => heap'[g].pkg # pkg'[d]
      <4>1. ASSUME NEW d \in Producers, pkg'[d] # NULL, d = c
            PROVE  /\ pkg'[d] < k + 1 /\ tgt'[pkg'[d]] = NULL
                   /\ \A e \in Producers : pkg'[e] = pkg'[d] => e = d
                   /\ \A g \in Pages : Unsent(g)' => heap'[g].pkg # pkg'[d]
        BY <1>2, <1>13, <3>1, <3>2, <3>3, <3>4, <4>1
      <4>2. ASSUME NEW d \in Producers, pkg'[d] # NULL, d # c
            PROVE  /\ pkg'[d] < k + 1 /\ tgt'[pkg'[d]] = NULL
                   /\ \A e \in Producers : pkg'[e] = pkg'[d] => e = d
                   /\ \A g \in Pages : Unsent(g)' => heap'[g].pkg # pkg'[d]
        <5>1. pkg'[d] = pkg[d] /\ pkg[d] # NULL /\ pkg[d] \in Pkgs /\ pkg[d] # k
          BY <3>2, <3>4, <3>5, <4>2
        <5>2. /\ pkg[d] < k /\ tgt[pkg[d]] = NULL
              /\ \A e \in Producers : pkg[e] = pkg[d] => e = d
              /\ \A g \in Pages : Unsent(g) => heap[g].pkg # pkg[d]
          BY <5>1 DEF RlcInv, PkgsExact, k
        <5>3. pkg[d] < k + 1
          BY <3>3, <5>1, <5>2
        <5>4. QED
          BY <1>2, <1>13, <3>4, <5>1, <5>2, <5>3
      <4>3. QED
        BY <4>1, <4>2
    <3>8. \A j \in Pkgs : tgt'[j] # NULL => j < k + 1
      BY <1>2, <3>3 DEF RlcInv, PkgsExact, k
    <3>9. \A j \in Pkgs : j < k + 1 =>
            tgt'[j] # NULL \/ (\E d \in Producers : pkg'[d] = j) \/ \E g \in Pages : Unsent(g)' /\ heap'[g].pkg = j
      <4>1. ASSUME NEW j \in Pkgs, j < k
            PROVE  tgt[j] # NULL \/ (\E d \in Producers : pkg'[d] = j) \/ \E g \in Pages : Unsent(g) /\ heap[g].pkg = j
        <5>1. CASE \E d \in Producers : pkg[d] = j
          <6>1. PICK d \in Producers : pkg[d] = j
            BY <5>1
          <6>2. d # c
            BY <1>3, <6>1, Names
          <6>3. QED
            BY <3>4, <6>1, <6>2
        <5>2. QED
          BY <4>1, <5>1 DEF RlcInv, PkgsExact, k
      <4>2. \E d \in Producers : pkg'[d] = k
        BY <1>3, <3>1
      <4>3. QED
        BY <1>2, <1>13, <3>3, <4>1, <4>2
    <3>10. QED
      BY <3>1, <3>6, <3>7, <3>8, <3>9 DEF PkgsExact
  <2>3. QED
    BY <2>1, <2>2
<1>15. QED
  BY <1>6, <1>10, <1>11, <1>12, <1>14 DEF RlcInv

LEMMA NumberInv == ASSUME RlcInv, NEW c \in Cores, Number(c) PROVE RlcInv'
<1> DEFINE g == node[c]
           k == heap[g].pkg
<1>1. /\ pc[c] = "number" /\ tgt' = [tgt EXCEPT ![k] = vtNext] /\ vtNext' = vtNext + 1
      /\ pc' = [pc EXCEPT ![c] = "sent"]
      /\ UNCHANGED <<lock, pdcp_pkd_ptr, alloc_offset, free_list, heap, lists, snap, node, pkg, order>>
  BY DEF Number, Goto, shared, locals
<1>2. c \in Consumers /\ g \in Pages /\ g # NULL
  BY <1>1, Names DEF RlcInv, HoldsExact, HoldsNode, Types, Links, ProducerLabels
<1>3. Unsent(g)
  BY <1>1, <1>2 DEF Unsent
<1>4. k \in Pkgs /\ k < pdcp_pkd_ptr /\ tgt[k] = NULL /\ vtNext \in Nat /\ vtNext # NULL
  BY <1>2, <1>3, Names DEF RlcInv, PkgsExact, Types
<1>5. pc'[c] = "sent" /\ pc' \in [Cores -> Labels] /\ \A d \in Cores \ {c} : pc'[d] = pc[d]
  BY <1>1 DEF RlcInv, Types, Labels, ConsumerLabels
<1>6. tgt' \in [Pkgs -> Nat \cup {NULL}] /\ \A j \in Pkgs : tgt'[j] = IF j = k THEN vtNext ELSE tgt[j]
  BY <1>1, <1>4 DEF RlcInv, Types
<1>7. Types'
  BY <1>1, <1>4, <1>5, <1>6 DEF RlcInv, Types
<1>8. MutualExclusion'
  <2>1. \A l \in Locks : \A d \in Cores : pc'[d] \in Inside(l) => d # c /\ pc[d] \in Inside(l)
    BY <1>5, InsideOne
  <2>2. QED
    BY <1>1, <2>1 DEF RlcInv, MutualExclusion
<1>9. ASSUME NEW d \in Cores PROVE SnapExact(d)' /\ HoldsExact(d)'
  <2>1. CASE d = c
    BY <1>1, <1>2, <1>5, <2>1, Names DEF RlcInv, SnapExact, HoldsExact, HoldsNode, HoldsPkg, ConsumerLabels
  <2>2. CASE d # c
    BY <1>1, <1>5, <2>2 DEF RlcInv, SnapExact, HoldsExact
  <2>3. QED
    BY <2>1, <2>2
<1>10. ListsWellFormed' /\ PlacesExact'
  BY <1>1 DEF RlcInv, ListsWellFormed, PlacesExact
<1>11. \A h \in Pages : Unsent(h)' <=> Unsent(h) /\ h # g
  <2>1. ~Elem(g, order["list"]) /\ \A d \in Cores : node[d] = g => d = c
    BY <1>2 DEF RlcInv, PlacesExact, Orders
  <2>2. QED
    BY <1>1, <1>5, <2>1 DEF Unsent, Cores
<1> HIDE DEF g, k
<1>12. \A h \in Pages : Unsent(h)' => heap[h].pkg # k
  BY <1>2, <1>3, <1>11 DEF RlcInv, PkgsExact, k
<1>13. PkgsExact'
  <2>1. \A d \in Producers : pkg[d] # NULL => pkg[d] \in Pkgs /\ pkg[d] # k
    BY <1>2, <1>3 DEF RlcInv, PkgsExact, Types, PkgOrNone, Cores, k
  <2>2. \A h \in Pages : Unsent(h)' =>
          /\ heap[h].pkg \in Pkgs /\ heap[h].pkg < pdcp_pkd_ptr /\ tgt'[heap[h].pkg] = NULL
          /\ \A f \in Pages : Unsent(f)' /\ heap[f].pkg = heap[h].pkg => f = h
    BY <1>6, <1>11, <1>12 DEF RlcInv, PkgsExact
  <2>3. \A d \in Producers : pkg[d] # NULL =>
          /\ pkg[d] < pdcp_pkd_ptr /\ tgt'[pkg[d]] = NULL
          /\ \A e \in Producers : pkg[e] = pkg[d] => e = d
          /\ \A h \in Pages : Unsent(h)' => heap[h].pkg # pkg[d]
    BY <1>6, <1>11, <2>1 DEF RlcInv, PkgsExact
  <2>4. \A j \in Pkgs : tgt'[j] # NULL => j < pdcp_pkd_ptr
    BY <1>4, <1>6 DEF RlcInv, PkgsExact
  <2>5. \A j \in Pkgs : j < pdcp_pkd_ptr =>
          tgt'[j] # NULL \/ (\E d \in Producers : pkg[d] = j) \/ \E h \in Pages : Unsent(h)' /\ heap[h].pkg = j
    <3>1. ASSUME NEW j \in Pkgs, j < pdcp_pkd_ptr
          PROVE  tgt'[j] # NULL \/ (\E d \in Producers : pkg[d] = j) \/ \E h \in Pages : Unsent(h)' /\ heap[h].pkg = j
      <4>1. CASE j = k
        BY <1>4, <1>6, <4>1
      <4>2. CASE j # k
        <5>1. tgt'[j] = tgt[j]
          BY <1>6, <4>2
        <5>2. \A h \in Pages : Unsent(h) /\ heap[h].pkg = j => Unsent(h)' /\ h \in Pages
          BY <1>11, <4>2 DEF k
        <5>3. tgt[j] # NULL \/ (\E d \in Producers : pkg[d] = j) \/ \E h \in Pages : Unsent(h) /\ heap[h].pkg = j
          BY <3>1 DEF RlcInv, PkgsExact
        <5>4. QED
          BY <5>1, <5>2, <5>3
      <4>3. QED
        BY <4>1, <4>2
    <3>2. QED
      BY <3>1
  <2>6. QED
    BY <1>1, <2>2, <2>3, <2>4, <2>5 DEF PkgsExact
<1>14. NumbersExact'
  <2> DEFINE v == vtNext + 1
  <2>0. vtNext' = v /\ v - 1 = vtNext /\ \A sn \in Nat : sn < v <=> sn < vtNext \/ sn = vtNext
    BY <1>1, <1>4
  <2> HIDE DEF v
  <2>1. \A j \in Pkgs : tgt[j] # NULL => tgt[j] \in Nat /\ tgt[j] < vtNext /\ tgt[j] # vtNext
    BY <1>4 DEF RlcInv, NumbersExact, Types
  <2>2. \A j \in Pkgs : tgt'[j] # NULL => tgt'[j] < v /\ \A i \in Pkgs : tgt'[i] = tgt'[j] => i = j
    BY <1>4, <1>6, <2>0, <2>1 DEF RlcInv, NumbersExact
  <2>3. ASSUME NEW sn \in 0..(v - 1) PROVE \E j \in Pkgs : tgt'[j] = sn
    <3>1. CASE sn = vtNext
      BY <1>4, <1>6, <3>1
    <3>2. CASE sn # vtNext
      <4>1. sn \in 0..(vtNext - 1) /\ sn # NULL
        BY <1>4, <2>0, <3>2, Names
      <4>2. PICK j \in Pkgs : tgt[j] = sn
        BY <4>1 DEF RlcInv, NumbersExact
      <4>3. j # k
        BY <1>4, <4>1, <4>2
      <4>4. QED
        BY <1>6, <4>2, <4>3
    <3>3. QED
      BY <3>1, <3>2
  <2>4. QED
    BY <2>0, <2>2, <2>3 DEF NumbersExact
<1>15. QED
  BY <1>7, <1>8, <1>9, <1>10, <1>13, <1>14 DEF RlcInv

(* mm_alloc out of memory: only the lock is released.                      *)
LEMMA AllocNone ==
  ASSUME RlcInv, NEW c \in Cores, Alloc(c), ~(alloc_offset < NumPages), free_list = NULL PROVE RlcInv'
<1>1. pc[c] = "alloc2" /\ snap[c][1] = alloc_offset /\ snap[c][2] = NULL
  BY DEF Alloc, RlcInv, SnapExact
<1>2. c \in Producers /\ node[c] = NULL
  BY <1>1, Names DEF RlcInv, HoldsExact, ConsumerLabels, HoldsNode
<1>3. /\ Goto(c, "alloc") /\ SpinUnlock(c, "mm")
      /\ UNCHANGED <<pdcp_pkd_ptr, alloc_offset, free_list, heap, lists, vtNext, tgt, node, pkg, order>>
  <2>1. node' = [node EXCEPT ![c] = NULL]
    BY <1>1 DEF Alloc
  <2>2. node' = node
    BY <1>2, <2>1 DEF RlcInv, Types
  <2>3. QED
    BY <1>1, <2>2 DEF Alloc, stats
<1>4. "alloc" \in Labels /\ "mm" \in Locks /\ pc[c] \in Inside("mm")
  BY <1>1, InsideOne DEF Labels, ProducerLabels
<1>5. /\ MutualExclusion' /\ \A d \in Cores : SnapExact(d)'
      /\ lock' \in [Locks -> {0, 1}] /\ pc' \in [Cores -> Labels] /\ snap' \in [Cores -> Seq(Nat \cup {NULL})]
      /\ pc'[c] = "alloc" /\ \A d \in Cores \ {c} : pc'[d] = pc[d] /\ snap'[d] = snap[d]
  BY <1>3, <1>4, LeaveFrame
<1>6. Types'
  BY <1>3, <1>5 DEF RlcInv, Types
<1>7. OthersRest(c)
  BY <1>3, <1>5 DEF OthersRest
<1>8. HoldsExact(c)'
  BY <1>1, <1>2, <1>3, <1>5, Names DEF RlcInv, HoldsExact, HoldsNode, HoldsPkg, ProducerLabels
<1>9. UNCHANGED <<shared, order, vtNext, tgt, node, pkg>>
  BY <1>3 DEF shared
<1>10. QED
  BY <1>1, <1>5, <1>6, <1>7, <1>8, <1>9, FrameInv

(* What an allocation does to the free list and the pool; p is the page.   *)
AllocGets(c, p) ==
  /\ \A l \in {"list", "sent_list"} : order'[l] = order[l]
  /\ order' \in [Orders -> Seq(Pages)] /\ Once(order'["free"])
  /\ \A g \in Pages : Elem(g, order'["free"]) <=> Elem(g, order["free"]) /\ g # p
  /\ ~Elem(p, order["list"]) /\ ~Elem(p, order["sent_list"]) /\ \A d \in Cores : node[d] # p
  /\ Freed(free_list, heap, order["free"])'
  /\ \A g \in Pages : g <= alloc_offset' <=> g <= alloc_offset \/ g = p
  /\ alloc_offset' \in 0..NumPages /\ free_list' \in Links
  /\ heap' = [heap EXCEPT ![p] = [prev |-> NULL, next |-> NULL, pkg |-> pkg[c]]]
  /\ node' = [node EXCEPT ![c] = p]
  /\ Goto(c, "push") /\ SpinUnlock(c, "mm")
  /\ UNCHANGED <<pdcp_pkd_ptr, lists, vtNext, tgt, pkg>>

LEMMA AllocFresh ==
  ASSUME RlcInv, NEW c \in Cores, Alloc(c), alloc_offset < NumPages
  PROVE  alloc_offset + 1 \in Pages /\ AllocGets(c, alloc_offset + 1)
<1>1. pc[c] = "alloc2" /\ snap[c][1] = alloc_offset
  BY DEF Alloc, RlcInv, SnapExact
<1>2. alloc_offset \in Nat /\ alloc_offset + 1 \in Pages
  BY Names DEF RlcInv, Types, Pages
<1>3. PICK p \in Pages : p = alloc_offset + 1
  BY <1>2
<1>4. p # NULL /\ \A g \in Pages : g \in Nat /\ (g <= p <=> g <= alloc_offset \/ g = p)
  BY <1>2, <1>3, Names
<1>5. ~(p <= alloc_offset)
  BY <1>2, <1>3
<1>6. /\ alloc_offset' = p /\ UNCHANGED <<free_list, order>>
      /\ heap' = [heap EXCEPT ![p] = [prev |-> NULL, next |-> NULL, pkg |-> pkg[c]]]
      /\ node' = [node EXCEPT ![c] = p]
      /\ Goto(c, "push") /\ SpinUnlock(c, "mm")
      /\ UNCHANGED <<pdcp_pkd_ptr, lists, vtNext, tgt, pkg>>
  BY <1>1, <1>3, <1>4 DEF Alloc, stats
<1>7. (\A l \in Orders : ~Elem(p, order[l])) /\ (\A d \in Cores : node[d] # p)
  BY <1>5 DEF RlcInv, PlacesExact
<1>8. \A g \in Pages : Elem(g, order["free"]) => heap'[g].prev = heap[g].prev
  BY <1>6, <1>7 DEF Orders, RlcInv, Types, Heaps
<1>9. Freed(free_list, heap, order["free"])'
  BY <1>6, <1>8, FreedKept
<1>10. p \in 0..NumPages
  BY <1>4, Names
<1>11. AllocGets(c, p)
  BY <1>4, <1>6, <1>7, <1>9, <1>10 DEF AllocGets, RlcInv, Types, PlacesExact, Orders
<1>12. QED
  BY <1>3, <1>11

LEMMA AllocFreed ==
  ASSUME RlcInv, NEW c \in Cores, Alloc(c), ~(alloc_offset < NumPages), free_list # NULL
  PROVE  free_list \in Pages /\ AllocGets(c, free_list)
<1> DEFINE s == order["free"]
<1>1. pc[c] = "alloc2" /\ snap[c][1] = alloc_offset /\ snap[c][2] = free_list
  BY DEF Alloc, RlcInv, SnapExact
<1>2. /\ alloc_offset' = alloc_offset /\ free_list' = heap[free_list].prev
      /\ heap' = [heap EXCEPT ![free_list] = [prev |-> NULL, next |-> NULL, pkg |-> pkg[c]]]
      /\ order' = [order EXCEPT !["free"] = Tail(@)]
      /\ node' = [node EXCEPT ![c] = free_list]
      /\ Goto(c, "push") /\ SpinUnlock(c, "mm")
      /\ UNCHANGED <<pdcp_pkd_ptr, lists, vtNext, tgt, pkg>>
  BY <1>1 DEF Alloc, stats
<1>3. s \in Seq(Pages) /\ Freed(free_list, heap, s) /\ Once(s)
  BY DEF RlcInv, Types, ListsWellFormed, PlacesExact, Orders
<1>4. s # << >> /\ free_list = s[1]
  BY <1>3 DEF Freed
<1>5. PICK p \in Pages : p = free_list
  BY DEF RlcInv, Types, Links
<1>6. \A i \in 1..Len(s) : heap[s[i]].prev = IF i < Len(s) THEN s[i + 1] ELSE NULL
  BY <1>3 DEF Freed
<1>7. PICK r : r = Tail(s)
  OBVIOUS
<1>8. /\ r \in Seq(Pages) /\ Len(r) = Len(s) - 1 /\ Elem(p, s) /\ Once(r)
      /\ \A i \in 1..Len(r) : r[i] = s[i + 1] /\ i + 1 \in 1..Len(s)
      /\ \A g : Elem(g, r) <=> Elem(g, s) /\ g # p
  BY <1>3, <1>4, <1>5, <1>7, TailElems
<1>9. order' = [order EXCEPT !["free"] = r] /\ order'["free"] = r
  BY <1>2, <1>7 DEF RlcInv, Types, Orders
<1>10. heap' = [heap EXCEPT ![p] = [prev |-> NULL, next |-> NULL, pkg |-> pkg[c]]]
  BY <1>2, <1>5
<1>11. \A g \in Pages : g # p => heap'[g] = heap[g]
  BY <1>10 DEF RlcInv, Types, Heaps
<1>12. Len(s) \in Nat /\ Len(s) > 0 /\ Len(r) \in Nat /\ (r = << >> <=> Len(r) = 0)
  <2>1. Len(s) \in Nat /\ (s = << >> <=> Len(s) = 0)
    BY <1>3, SeqFacts
  <2>2. Len(r) \in Nat /\ (r = << >> <=> Len(r) = 0)
    BY <1>8, SeqFacts
  <2> HIDE DEF s
  <2>3. QED
    BY <1>4, <2>1, <2>2
<1>13. free_list' = IF r = << >> THEN NULL ELSE r[1]
  <2>1. free_list' = IF 1 < Len(s) THEN s[2] ELSE NULL
    BY <1>2, <1>4, <1>5, <1>6, <1>12
  <2>2. 1 < Len(s) <=> Len(r) # 0
    BY <1>8, <1>12
  <2>3. Len(r) # 0 => r[1] = s[2]
    BY <1>8, <1>12
  <2>4. QED
    BY <1>12, <2>1, <2>2, <2>3
<1>14. ASSUME NEW i \in 1..Len(r) PROVE heap'[r[i]].prev = IF i < Len(r) THEN r[i + 1] ELSE NULL
  <2>1. r[i] = s[i + 1] /\ i + 1 \in 1..Len(s) /\ r[i] \in Pages /\ r[i] # p
    <3>1. Elem(r[i], r) /\ r[i] \in Pages
      BY <1>8, SeqFacts DEF Elem
    <3>2. QED
      BY <1>8, <3>1
  <2>2. heap'[r[i]].prev = IF i + 1 < Len(s) THEN s[i + 1 + 1] ELSE NULL
    BY <1>6, <1>11, <2>1
  <2>3. i + 1 < Len(s) <=> i < Len(r)
    BY <1>8, <1>12
  <2>4. i < Len(r) => r[i + 1] = s[i + 1 + 1]
    <3>1. i < Len(r) => i + 1 \in 1..Len(r)
      BY <1>12
    <3>2. QED
      BY <1>8, <3>1
  <2>5. QED
    BY <2>2, <2>3, <2>4
<1>15. Freed(free_list, heap, order["free"])'
  BY <1>9, <1>13, <1>14 DEF Freed
<1>16. free_list' \in Links
  BY <1>2, <1>5 DEF RlcInv, Types, Heaps
<1>17. ~Elem(p, order["list"]) /\ ~Elem(p, order["sent_list"]) /\ (\A d \in Cores : node[d] # p) /\ p <= alloc_offset
  <2>1. \A l \in Orders : Elem(p, order[l]) => l = "free"
    BY <1>8 DEF RlcInv, PlacesExact, Orders
  <2>2. \A d \in Cores : node[d] # p
    BY <1>8, Names DEF RlcInv, PlacesExact, Orders
  <2>3. p <= alloc_offset
    BY <1>8 DEF RlcInv, PlacesExact, Orders
  <2>4. QED
    BY <2>1, <2>2, <2>3 DEF Orders
<1>18. order' \in [Orders -> Seq(Pages)] /\ \A l \in {"list", "sent_list"} : order'[l] = order[l]
  BY <1>8, <1>9 DEF RlcInv, Types, Orders
<1>19. alloc_offset \in 0..NumPages
  BY DEF RlcInv, Types
<1> HIDE DEF s
<1>20. AllocGets(c, p)
  BY <1>2, <1>5, <1>8, <1>9, <1>10, <1>15, <1>16, <1>17, <1>18, <1>19 DEF AllocGets, s
<1>21. QED
  BY <1>5, <1>20

LEMMA AllocInv == ASSUME RlcInv, NEW c \in Cores, Alloc(c) PROVE RlcInv'
<1>1. CASE ~(alloc_offset < NumPages) /\ free_list = NULL
  BY <1>1, AllocNone
<1>2. ASSUME NEW p \in Pages, AllocGets(c, p) PROVE RlcInv'
  <2>1. pc[c] = "alloc2" /\ c \in Producers /\ node[c] = NULL /\ pkg[c] \in Pkgs
    BY Names DEF Alloc, RlcInv, HoldsExact, ConsumerLabels, HoldsNode, HoldsPkg, Types, PkgOrNone
  <2>2. /\ heap' = [heap EXCEPT ![p] = [prev |-> NULL, next |-> NULL, pkg |-> pkg[c]]]
        /\ node' = [node EXCEPT ![c] = p] /\ Goto(c, "push") /\ SpinUnlock(c, "mm")
        /\ UNCHANGED <<pdcp_pkd_ptr, lists, vtNext, tgt, pkg>>
        /\ \A l \in {"list", "sent_list"} : order'[l] = order[l]
    BY <1>2 DEF AllocGets
  <2>3. "push" \in Labels /\ "mm" \in Locks /\ pc[c] \in Inside("mm") /\ p # NULL
    BY <2>1, InsideOne, Names DEF Labels, ProducerLabels
  <2>4. /\ MutualExclusion' /\ \A d \in Cores : SnapExact(d)'
        /\ lock' \in [Locks -> {0, 1}] /\ pc' \in [Cores -> Labels] /\ snap' \in [Cores -> Seq(Nat \cup {NULL})]
        /\ pc'[c] = "push" /\ \A d \in Cores \ {c} : pc'[d] = pc[d] /\ snap'[d] = snap[d]
    BY <2>2, <2>3, LeaveFrame
  <2>5. /\ heap' \in Heaps /\ heap'[p] = [prev |-> NULL, next |-> NULL, pkg |-> pkg[c]]
        /\ \A g \in Pages : g # p => heap'[g] = heap[g]
    BY <2>1, <2>2 DEF RlcInv, Types, Heaps, Links, PkgOrNone
  <2>6. node' \in [Cores -> Links] /\ node'[c] = p /\ \A d \in Cores \ {c} : node'[d] = node[d]
    BY <2>2 DEF RlcInv, Types, Links
  <2>7. Types'
    BY <1>2, <2>2, <2>4, <2>5, <2>6 DEF RlcInv, Types, AllocGets
  <2>8. \A d \in Cores : node[d] # p
    BY <1>2 DEF AllocGets
  <2>9. \A d \in Cores : HoldsExact(d)'
    <3>1. HoldsExact(c)'
      BY <2>1, <2>2, <2>3, <2>4, <2>5, <2>6, Names DEF HoldsExact, HoldsNode, HoldsPkg, ProducerLabels
    <3>2. ASSUME NEW d \in Cores \ {c} PROVE HoldsExact(d)'
      <4>1. UNCHANGED <<pc[d], node[d], pkg[d]>> /\ HoldsExact(d) /\ (node[d] \in Pages => heap'[node[d]] = heap[node[d]])
        BY <2>2, <2>4, <2>5, <2>6, <2>8 DEF RlcInv
      <4>2. node[d] # NULL => node[d] \in Pages
        BY DEF RlcInv, Types, Links
      <4>3. QED
        BY <4>1, <4>2 DEF HoldsExact, HoldsNode
    <3>3. QED
      BY <3>1, <3>2
  <2>10. ListsWellFormed'
    <3>1. ASSUME NEW l \in {"list", "sent_list"} PROVE WellFormed(lists[l], heap, order[l])'
      <4>1. ~Elem(p, order[l])
        BY <1>2 DEF AllocGets
      <4>2. \A g \in Pages : Elem(g, order[l]) => heap'[g].next = heap[g].next /\ heap'[g].prev = heap[g].prev
        BY <2>5, <4>1
      <4>3. QED
        BY <2>2, <4>2, WellFormedKept
    <3>2. QED
      BY <1>2, <3>1 DEF ListsWellFormed, AllocGets
  <2>11. PlacesExact'
    <3>1. \A l \in Orders : Once(order'[l])
      BY <1>2 DEF AllocGets, RlcInv, PlacesExact, Orders
    <3>2. \A l \in Orders : \A g \in Pages : Elem(g, order'[l]) <=> Elem(g, order[l]) /\ g # p
      BY <1>2 DEF AllocGets, Orders
    <3>3. \A g \in Pages : \A l, k \in Orders : Elem(g, order'[l]) /\ Elem(g, order'[k]) => l = k
      BY <3>2 DEF RlcInv, PlacesExact
    <3>4. ASSUME NEW d \in Cores, node'[d] # NULL
          PROVE  (\A l \in Orders : ~Elem(node'[d], order'[l])) /\ \A e \in Cores : node'[e] = node'[d] => e = d
      <4>1. CASE d = c
        BY <2>6, <2>8, <3>2, <4>1
      <4>2. CASE d # c
        <5>1. node'[d] = node[d] /\ node[d] \in Pages
          BY <2>6, <3>4, <4>2 DEF RlcInv, Types, Links
        <5>2. (\A l \in Orders : ~Elem(node[d], order[l])) /\ \A e \in Cores : node[e] = node[d] => e = d
          BY <3>4, <5>1 DEF RlcInv, PlacesExact
        <5>3. QED
          BY <2>6, <2>8, <3>2, <5>1, <5>2
      <4>3. QED
        BY <4>1, <4>2
    <3>5. ASSUME NEW g \in Pages
          PROVE  g <= alloc_offset' <=> (\E l \in Orders : Elem(g, order'[l])) \/ \E d \in Cores : node'[d] = g
      <4>1. g <= alloc_offset' <=> g <= alloc_offset \/ g = p
        BY <1>2 DEF AllocGets
      <4>2. CASE g = p
        BY <2>6, <4>1, <4>2
      <4>3. CASE g # p
        <5>1. g <= alloc_offset <=> (\E l \in Orders : Elem(g, order[l])) \/ \E d \in Cores : node[d] = g
          BY DEF RlcInv, PlacesExact
        <5>2. (\E d \in Cores : node'[d] = g) <=> (\E d \in Cores : node[d] = g)
          BY <2>1, <2>6, <4>3, Names
        <5>3. QED
          BY <3>2, <4>1, <4>3, <5>1, <5>2
      <4>4. QED
        BY <4>2, <4>3
    <3>6. QED
      BY <3>1, <3>3, <3>4, <3>5 DEF PlacesExact
  <2>12. PkgsExact'
    <3>1. \A g \in Pages : Unsent(g)' <=> Unsent(g)
      BY <2>1, <2>2, <2>4, <2>6, Names DEF Unsent, Cores
    <3>2. ~Unsent(p)
      BY <1>2 DEF AllocGets, Unsent, Cores
    <3>3. QED
      BY <2>2, <2>5, <3>1, <3>2, PkgsKept
  <2>13. NumbersExact'
    BY <2>2, NumbersKept
  <2>14. QED
    BY <2>4, <2>7, <2>9, <2>10, <2>11, <2>12, <2>13 DEF RlcInv
<1>3. CASE alloc_offset < NumPages
  BY <1>2, <1>3, AllocFresh
<1>4. CASE ~(alloc_offset < NumPages) /\ free_list # NULL
  BY <1>2, <1>4, AllocFreed
<1>5. QED
  BY <1>1, <1>3, <1>4

LEMMA FreeInv == ASSUME RlcInv, NEW c \in Cores, Free(c) PROVE RlcInv'
<1> DEFINE s == order["free"]
           label == IF ack[c].i + 1 < 2 THEN "ack_pop" ELSE "store_ack"
<1>1. pc[c] = "free2" /\ snap[c][1] = free_list
  BY DEF Free, RlcInv, SnapExact
<1>2. c \in Consumers /\ node[c] \in Pages /\ node[c] # NULL
  BY <1>1, Names DEF RlcInv, HoldsExact, ProducerLabels, HoldsNode, Types, Links
<1>3. PICK n \in Pages : n = node[c]
  BY <1>2
<1>4. PICK r : r = <<n>> \o s
  OBVIOUS
<1>5. /\ heap' = [heap EXCEPT ![n].prev = free_list]
      /\ free_list' = n
      /\ order' = [order EXCEPT !["free"] = r]
      /\ node' = [node EXCEPT ![c] = NULL]
      /\ Goto(c, label) /\ SpinUnlock(c, "mm")
      /\ UNCHANGED <<pdcp_pkd_ptr, alloc_offset, lists, vtNext, tgt, pkg>>
  BY <1>1, <1>3, <1>4 DEF Free, AckNext, stats
<1>6. s \in Seq(Pages) /\ Freed(free_list, heap, s) /\ Once(s)
  BY DEF RlcInv, Types, ListsWellFormed, PlacesExact, Orders
<1>7. (\A l \in Orders : ~Elem(n, order[l])) /\ (\A d \in Cores : node[d] = n => d = c)
  BY <1>2, <1>3 DEF RlcInv, PlacesExact
<1>8. /\ r \in Seq(Pages) /\ Len(r) = Len(s) + 1 /\ r # << >> /\ r[1] = n
      /\ \A i \in 1..Len(s) : r[i + 1] = s[i]
      /\ \A g : Elem(g, r) <=> Elem(g, s) \/ g = n
      /\ Once(r)
  BY <1>4, <1>6, <1>7, ConsElems DEF Orders
<1>9. /\ order' \in [Orders -> Seq(Pages)] /\ order'["free"] = r
      /\ \A l \in {"list", "sent_list"} : order'[l] = order[l]
  BY <1>5, <1>8 DEF RlcInv, Types, Orders
<1>10. /\ heap' \in Heaps /\ heap'[n].prev = free_list /\ heap'[n].pkg = heap[n].pkg
       /\ \A g \in Pages : heap'[g].pkg = heap[g].pkg /\ (g # n => heap'[g] = heap[g])
  BY <1>5 DEF RlcInv, Types, Heaps
<1>11. node' \in [Cores -> Links] /\ node'[c] = NULL /\ \A d \in Cores \ {c} : node'[d] = node[d]
  BY <1>5 DEF RlcInv, Types, Links
<1>12. label \in {"ack_pop", "store_ack"} /\ label \in Labels /\ "mm" \in Locks /\ pc[c] \in Inside("mm")
  BY <1>1, InsideOne DEF Labels, ConsumerLabels
<1> HIDE DEF label, s
<1>13. /\ MutualExclusion' /\ \A d \in Cores : SnapExact(d)'
       /\ lock' \in [Locks -> {0, 1}] /\ pc' \in [Cores -> Labels] /\ snap' \in [Cores -> Seq(Nat \cup {NULL})]
       /\ pc'[c] = label /\ \A d \in Cores \ {c} : pc'[d] = pc[d] /\ snap'[d] = snap[d]
  BY <1>5, <1>12, LeaveFrame
<1>14. Types'
  BY <1>5, <1>9, <1>10, <1>11, <1>13 DEF RlcInv, Types, Links
<1>15. \A d \in Cores : HoldsExact(d)'
  <2>1. HoldsExact(c)'
    BY <1>1, <1>2, <1>5, <1>11, <1>12, <1>13, Names
       DEF RlcInv, HoldsExact, HoldsNode, HoldsPkg, ProducerLabels, ConsumerLabels
  <2>2. ASSUME NEW d \in Cores \ {c} PROVE HoldsExact(d)'
    <3>1. UNCHANGED <<pc[d], node[d], pkg[d]>> /\ HoldsExact(d)
      BY <1>5, <1>11, <1>13 DEF RlcInv
    <3>2. node[d] # NULL => heap'[node[d]].pkg = heap[node[d]].pkg
      BY <1>10 DEF RlcInv, Types, Links
    <3>3. QED
      BY <3>1, <3>2 DEF HoldsExact, HoldsNode
  <2>3. QED
    BY <2>1, <2>2
<1>16. ListsWellFormed'
  <2>1. ASSUME NEW l \in {"list", "sent_list"} PROVE WellFormed(lists[l], heap, order[l])'
    <3>1. \A g \in Pages : Elem(g, order[l]) => heap'[g].next = heap[g].next /\ heap'[g].prev = heap[g].prev
      BY <1>7, <1>10 DEF Orders
    <3>2. QED
      BY <1>5, <1>9, <3>1, WellFormedKept
  <2>2. Len(s) \in Nat /\ (s = << >> <=> Len(s) = 0) /\ \A i \in 1..Len(s) : s[i] \in Pages /\ s[i] # n
    BY <1>6, <1>7, SeqFacts DEF Elem, Orders, s
  <2>3. free_list = (IF s = << >> THEN NULL ELSE s[1])
        /\ \A i \in 1..Len(s) : heap[s[i]].prev = IF i < Len(s) THEN s[i + 1] ELSE NULL
    BY <1>6 DEF Freed
  <2>4. ASSUME NEW j \in 1..Len(r) PROVE heap'[r[j]].prev = IF j < Len(r) THEN r[j + 1] ELSE NULL
    <3>1. CASE j = 1
      <4>1. Len(s) # 0 => 1 \in 1..Len(s) /\ 1 < Len(r)
        BY <1>8, <2>2
      <4>2. Len(s) # 0 => r[1 + 1] = s[1]
        BY <1>8, <4>1
      <4>3. Len(s) = 0 => ~(1 < Len(r))
        BY <1>8
      <4>4. heap'[r[1]].prev = IF Len(s) = 0 THEN NULL ELSE s[1]
        BY <1>8, <1>10, <2>2, <2>3
      <4>5. QED
        BY <3>1, <4>1, <4>2, <4>3, <4>4
    <3>2. CASE j # 1
      <4>1. PICK i \in 1..Len(s) : j = i + 1 /\ (j < Len(r) <=> i < Len(s)) /\ (i < Len(s) => i + 1 \in 1..Len(s))
        <5>1. j - 1 \in 1..Len(s) /\ j = j - 1 + 1 /\ (j < Len(r) <=> j - 1 < Len(s))
              /\ (j - 1 < Len(s) => j - 1 + 1 \in 1..Len(s))
          BY <1>8, <2>2, <3>2
        <5>2. QED
          BY <5>1
      <4>2. heap'[r[j]].prev = IF i < Len(s) THEN s[i + 1] ELSE NULL
        BY <1>8, <1>10, <2>2, <2>3, <4>1
      <4>3. i < Len(s) => r[j + 1] = s[i + 1]
        BY <1>8, <4>1
      <4>4. QED
        BY <4>1, <4>2, <4>3
    <3>3. QED
      BY <3>1, <3>2
  <2>5. Freed(free_list, heap, order["free"])'
    BY <1>5, <1>8, <1>9, <2>4 DEF Freed
  <2>6. QED
    BY <2>1, <2>5 DEF ListsWellFormed
<1>17. PlacesExact'
  <2>1. \A l \in Orders : Once(order'[l])
    BY <1>8, <1>9 DEF RlcInv, PlacesExact, Orders
  <2>2. \A l \in Orders : \A g : Elem(g, order'[l]) <=> Elem(g, order[l]) \/ (l = "free" /\ g = n)
    BY <1>8, <1>9 DEF Orders, s
  <2>3. \A g \in Pages : \A l, k \in Orders : Elem(g, order'[l]) /\ Elem(g, order'[k]) => l = k
    <3>1. ASSUME NEW g \in Pages, NEW l \in Orders, NEW k \in Orders, Elem(g, order'[l]), Elem(g, order'[k]) PROVE l = k
      <4>1. CASE g = n
        BY <1>7, <2>2, <3>1, <4>1
      <4>2. CASE g # n
        BY <2>2, <3>1, <4>2 DEF RlcInv, PlacesExact
      <4>3. QED
        BY <4>1, <4>2
    <3>2. QED
      BY <3>1
  <2>4. ASSUME NEW d \in Cores, node'[d] # NULL
        PROVE  (\A l \in Orders : ~Elem(node'[d], order'[l])) /\ \A e \in Cores : node'[e] = node'[d] => e = d
    <3>1. d # c /\ node'[d] = node[d] /\ node[d] # n
      BY <1>7, <1>11, <2>4
    <3>2. (\A l \in Orders : ~Elem(node[d], order[l])) /\ \A e \in Cores : node[e] = node[d] => e = d
      BY <2>4, <3>1 DEF RlcInv, PlacesExact
    <3>3. \A l \in Orders : ~Elem(node[d], order'[l])
      BY <2>2, <3>1, <3>2
    <3>4. \A e \in Cores : node'[e] = node[d] => e = d
      BY <1>11, <2>4, <3>1, <3>2
    <3>5. QED
      BY <3>1, <3>3, <3>4
  <2>5. ASSUME NEW g \in Pages
        PROVE  g <= alloc_offset <=> (\E l \in Orders : Elem(g, order'[l])) \/ \E d \in Cores : node'[d] = g
    <3>1. g <= alloc_offset <=> (\E l \in Orders : Elem(g, order[l])) \/ \E d \in Cores : node[d] = g
      BY DEF RlcInv, PlacesExact
    <3>2. CASE g = n
      BY <1>3, <2>2, <3>1, <3>2 DEF Orders
    <3>3. CASE g # n
      <4>1. (\E d \in Cores : node'[d] = g) <=> (\E d \in Cores : node[d] = g)
        BY <1>3, <1>11, <3>3, Names
      <4>2. QED
        BY <2>2, <3>1, <3>3, <4>1
    <3>4. QED
      BY <3>2, <3>3
  <2>6. QED
    BY <1>5, <2>1, <2>3, <2>4, <2>5 DEF PlacesExact
<1>18. PkgsExact'
  <2>1. \A g \in Pages : Unsent(g)' <=> Unsent(g)
    BY <1>1, <1>9, <1>11, <1>12, <1>13 DEF Unsent, Cores
  <2>2. QED
    BY <1>5, <1>10, <2>1, PkgsKept
<1>19. NumbersExact'
  BY <1>5, NumbersKept
<1>20. QED
  BY <1>13, <1>14, <1>15, <1>16, <1>17, <1>18, <1>19 DEF RlcInv
------------------------------------------------------------------------------
(* A hart appends its page n to the list l.                                *)
LEMMA PushedBack ==
  ASSUME RlcInv, NEW c \in Cores, NEW l \in {"list", "sent_list"}, NEW n \in Pages, n = node[c],
         pc[c] \in Inside(l), snap[c][1] = lists[l].tail, PushBack(c, l),
         NEW label \in Labels, Goto(c, label), label \notin HoldsNode, label \notin HoldsPkg,
         label \notin {"receive2", "alloc2", "free2", "push2", "pop2", "sent2", "ack_pop2", "push"},
         c \in Producers => label \in ProducerLabels, c \in Consumers => label \in ConsumerLabels,
         node' = [node EXCEPT ![c] = NULL], pkg' = [pkg EXCEPT ![c] = NULL],
         UNCHANGED <<pdcp_pkd_ptr, alloc_offset, free_list, vtNext, tgt>>
  PROVE  /\ Types' /\ MutualExclusion' /\ (\A d \in Cores : SnapExact(d)') /\ (\A d \in Cores : HoldsExact(d)')
         /\ ListsWellFormed' /\ PlacesExact' /\ NumbersExact'
         /\ \A k \in Orders : \A g : Elem(g, order'[k]) <=> Elem(g, order[k]) \/ (k = l /\ g = n)
         /\ \A g \in Pages : heap'[g].pkg = heap[g].pkg
         /\ pc'[c] = label /\ pkg'[c] = NULL /\ node'[c] = NULL
         /\ \A d \in Cores \ {c} : pc'[d] = pc[d] /\ node'[d] = node[d] /\ pkg'[d] = pkg[d]
<1> DEFINE s == order[l]
           h == lists[l]
<1>1. /\ heap' = PushHeap(heap, h.tail, n)
      /\ lists' = [lists EXCEPT ![l] = PushList(h, h.tail, n)]
      /\ order' = [order EXCEPT ![l] = Append(s, n)] /\ SpinUnlock(c, l)
  BY DEF PushBack
<1>2. heap \in Heaps /\ h \in Headers /\ s \in Seq(Pages) /\ WellFormed(h, heap, s) /\ Once(s) /\ l \in Orders
  BY DEF RlcInv, Types, ListsWellFormed, PlacesExact, Orders
<1>3. n # NULL /\ (\A k \in Orders : ~Elem(n, order[k])) /\ (\A d \in Cores : node[d] = n => d = c)
  BY Names DEF RlcInv, PlacesExact
<1>4. PICK r : r = Append(s, n)
  OBVIOUS
<1>5. r \in Seq(Pages) /\ Once(r) /\ \A g : Elem(g, r) <=> Elem(g, s) \/ g = n
  BY <1>2, <1>3, <1>4, AppendElems
<1>6. /\ heap' \in Heaps /\ PushList(h, h.tail, n) \in Headers /\ WellFormed(PushList(h, h.tail, n), heap', r)
      /\ \A g \in Pages : heap'[g].pkg = heap[g].pkg
      /\ \A g \in Pages : g # n /\ ~Elem(g, s) => heap'[g] = heap[g]
  BY <1>1, <1>2, <1>3, <1>4, PushFacts
<1>7. PICK q : q = PushList(h, h.tail, n)
  OBVIOUS
<1>8. /\ lists' \in [{"list", "sent_list"} -> Headers] /\ lists'[l] = q
      /\ \A k \in {"list", "sent_list"} \ {l} : lists'[k] = lists[k]
  BY <1>1, <1>6, <1>7 DEF RlcInv, Types
<1>9. /\ order' \in [Orders -> Seq(Pages)] /\ order'[l] = r
      /\ \A k \in Orders \ {l} : order'[k] = order[k]
  BY <1>1, <1>2, <1>4, <1>5 DEF RlcInv, Types
<1>10. /\ node' \in [Cores -> Links] /\ node'[c] = NULL /\ pkg' \in [Cores -> PkgOrNone] /\ pkg'[c] = NULL
       /\ \A d \in Cores \ {c} : node'[d] = node[d] /\ pkg'[d] = pkg[d]
  BY DEF RlcInv, Types, Links, PkgOrNone
<1>11. /\ MutualExclusion' /\ \A d \in Cores : SnapExact(d)'
       /\ lock' \in [Locks -> {0, 1}] /\ pc' \in [Cores -> Labels] /\ snap' \in [Cores -> Seq(Nat \cup {NULL})]
       /\ pc'[c] = label /\ \A d \in Cores \ {c} : pc'[d] = pc[d] /\ snap'[d] = snap[d]
  <2>1. l \in Locks /\ l # "pdcp" /\ l # "mm"
    BY InsideOne
  <2>2. /\ l # "list" => lists'["list"] = lists["list"]
        /\ l # "sent_list" => lists'["sent_list"] = lists["sent_list"]
    BY <1>8
  <2>3. QED
    BY <1>1, <2>1, <2>2, LeaveFrame
<1> HIDE DEF s, h
<1>12. Types'
  BY <1>6, <1>8, <1>9, <1>10, <1>11 DEF RlcInv, Types
<1>13. ASSUME NEW d \in Cores PROVE HoldsExact(d)'
  <2>1. CASE d = c
    BY <1>10, <1>11, <2>1 DEF HoldsExact, HoldsNode
  <2>2. CASE d # c
    <3>1. UNCHANGED <<pc[d], node[d], pkg[d]>> /\ HoldsExact(d)
      BY <1>10, <1>11, <2>2 DEF RlcInv
    <3>2. node[d] # NULL => heap'[node[d]].pkg = heap[node[d]].pkg
      BY <1>6 DEF RlcInv, Types, Links
    <3>3. QED
      BY <3>1, <3>2 DEF HoldsExact, HoldsNode
  <2>3. QED
    BY <2>1, <2>2
<1>14. ListsWellFormed'
  <2>1. WellFormed(lists[l], heap, order[l])'
    BY <1>6, <1>7, <1>8, <1>9
  <2>2. ASSUME NEW k \in {"list", "sent_list"} \ {l} PROVE WellFormed(lists[k], heap, order[k])'
    <3>1. \A g \in Pages : Elem(g, order[k]) => ~Elem(g, s)
      BY <1>2 DEF RlcInv, PlacesExact, Orders, s
    <3>2. \A g \in Pages : Elem(g, order[k]) => heap'[g].next = heap[g].next /\ heap'[g].prev = heap[g].prev
      BY <1>3, <1>6, <3>1 DEF Orders
    <3>3. lists'[k] = lists[k] /\ order'[k] = order[k]
      BY <1>8, <1>9 DEF Orders
    <3>4. QED
      BY <3>2, <3>3, WellFormedKept
  <2>3. Freed(free_list, heap, order["free"])'
    <3>1. \A g \in Pages : Elem(g, order["free"]) => ~Elem(g, s)
      BY <1>2 DEF RlcInv, PlacesExact, Orders, s
    <3>2. \A g \in Pages : Elem(g, order["free"]) => heap'[g].prev = heap[g].prev
      BY <1>3, <1>6, <3>1 DEF Orders
    <3>3. order'["free"] = order["free"]
      BY <1>9 DEF Orders
    <3>4. QED
      BY <3>2, <3>3, FreedKept
  <2>4. QED
    BY <2>1, <2>2, <2>3 DEF ListsWellFormed
<1>15. \A k \in Orders : \A g : Elem(g, order'[k]) <=> Elem(g, order[k]) \/ (k = l /\ g = n)
  BY <1>5, <1>9 DEF s
<1>16. PlacesExact'
  <2>1. \A k \in Orders : Once(order'[k])
    BY <1>5, <1>9 DEF RlcInv, PlacesExact
  <2>2. ASSUME NEW g \in Pages, NEW k \in Orders, NEW j \in Orders, Elem(g, order'[k]), Elem(g, order'[j]) PROVE k = j
    <3>1. CASE g = n
      BY <1>3, <1>15, <2>2, <3>1
    <3>2. CASE g # n
      BY <1>15, <2>2, <3>2 DEF RlcInv, PlacesExact
    <3>3. QED
      BY <3>1, <3>2
  <2>3. ASSUME NEW d \in Cores, node'[d] # NULL
        PROVE  (\A k \in Orders : ~Elem(node'[d], order'[k])) /\ \A e \in Cores : node'[e] = node'[d] => e = d
    <3>1. d # c /\ node'[d] = node[d] /\ node[d] # n
      BY <1>3, <1>10, <2>3
    <3>2. (\A k \in Orders : ~Elem(node[d], order[k])) /\ \A e \in Cores : node[e] = node[d] => e = d
      BY <2>3, <3>1 DEF RlcInv, PlacesExact
    <3>3. \A k \in Orders : ~Elem(node[d], order'[k])
      BY <1>15, <3>1, <3>2
    <3>4. \A e \in Cores : node'[e] = node[d] => e = d
      BY <1>10, <2>3, <3>1, <3>2
    <3>5. QED
      BY <3>1, <3>3, <3>4
  <2>4. ASSUME NEW g \in Pages
        PROVE  g <= alloc_offset <=> (\E k \in Orders : Elem(g, order'[k])) \/ \E d \in Cores : node'[d] = g
    <3>1. g <= alloc_offset <=> (\E k \in Orders : Elem(g, order[k])) \/ \E d \in Cores : node[d] = g
      BY DEF RlcInv, PlacesExact
    <3>2. CASE g = n
      BY <1>2, <1>15, <3>1, <3>2
    <3>3. CASE g # n
      <4>1. (\E d \in Cores : node'[d] = g) <=> (\E d \in Cores : node[d] = g)
        BY <1>10, <3>3, Names
      <4>2. QED
        BY <1>15, <3>1, <3>3, <4>1
    <3>4. QED
      BY <3>2, <3>3
  <2>5. QED
    BY <2>1, <2>2, <2>3, <2>4 DEF PlacesExact
<1>17. NumbersExact'
  BY NumbersKept
<1>18. QED
  BY <1>6, <1>10, <1>11, <1>12, <1>13, <1>14, <1>15, <1>16, <1>17

LEMMA SentInv == ASSUME RlcInv, NEW c \in Cores, Sent(c) PROVE RlcInv'
<1>1. pc[c] = "sent2" /\ snap[c][1] = lists["sent_list"].tail
  BY DEF Sent, RlcInv, SnapExact
<1>2. c \in Consumers /\ c \notin Producers /\ node[c] \in Pages /\ pkg[c] = NULL
  BY <1>1, Names DEF RlcInv, HoldsExact, ProducerLabels, HoldsNode, HoldsPkg, Types, Links
<1>3. /\ PushBack(c, "sent_list") /\ node' = [node EXCEPT ![c] = NULL] /\ Goto(c, "check_ack")
      /\ UNCHANGED <<pdcp_pkd_ptr, alloc_offset, free_list, vtNext, tgt, pkg>>
  BY DEF Sent, stats
<1>4. pkg' = [pkg EXCEPT ![c] = NULL]
  BY <1>2, <1>3 DEF RlcInv, Types
<1>5. pc[c] \in Inside("sent_list")
  BY <1>1, InsideOne
<1>6. "check_ack" \in Labels /\ "check_ack" \in ConsumerLabels /\ "check_ack" \notin HoldsNode /\ "check_ack" \notin HoldsPkg
  BY DEF Labels, ConsumerLabels, HoldsNode, HoldsPkg
<1>7. /\ Types' /\ MutualExclusion' /\ (\A d \in Cores : SnapExact(d)') /\ (\A d \in Cores : HoldsExact(d)')
      /\ ListsWellFormed' /\ PlacesExact' /\ NumbersExact'
      /\ \A k \in Orders : \A g : Elem(g, order'[k]) <=> Elem(g, order[k]) \/ (k = "sent_list" /\ g = node[c])
      /\ \A g \in Pages : heap'[g].pkg = heap[g].pkg
      /\ pc'[c] = "check_ack" /\ pkg'[c] = NULL /\ node'[c] = NULL
      /\ \A d \in Cores \ {c} : pc'[d] = pc[d] /\ node'[d] = node[d] /\ pkg'[d] = pkg[d]
  BY <1>1, <1>2, <1>3, <1>4, <1>5, <1>6, PushedBack
<1>8. \A g \in Pages : Unsent(g)' <=> Unsent(g)
  BY <1>1, <1>7 DEF Unsent, Orders, Cores
<1>9. PkgsExact'
  BY <1>3, <1>7, <1>8, PkgsKept
<1>10. QED
  BY <1>7, <1>9 DEF RlcInv

(* The producer's package becomes the package of a listed page.            *)
LEMMA PushInv == ASSUME RlcInv, NEW c \in Cores, Push(c) PROVE RlcInv'
<1>1. pc[c] = "push2" /\ snap[c][1] = lists["list"].tail
  BY DEF Push, RlcInv, SnapExact
<1>2. c \in Producers /\ c \notin Consumers /\ node[c] \in Pages /\ pkg[c] \in Pkgs /\ pkg[c] # NULL /\ heap[node[c]].pkg = pkg[c]
  BY <1>1, Names DEF RlcInv, HoldsExact, ConsumerLabels, HoldsNode, HoldsPkg, Types, Links, PkgOrNone
<1>3. /\ PushBack(c, "list") /\ node' = [node EXCEPT ![c] = NULL] /\ pkg' = [pkg EXCEPT ![c] = NULL]
      /\ Goto(c, "receive") /\ UNCHANGED <<pdcp_pkd_ptr, alloc_offset, free_list, vtNext, tgt>>
  BY DEF Push, stats
<1>4. pc[c] \in Inside("list")
  BY <1>1, InsideOne
<1>5. "receive" \in Labels /\ "receive" \in ProducerLabels /\ "receive" \notin HoldsNode /\ "receive" \notin HoldsPkg
  BY DEF Labels, ProducerLabels, HoldsNode, HoldsPkg
<1>6. PICK n \in Pages, k \in Pkgs : n = node[c] /\ k = pkg[c]
  BY <1>2
<1>7. /\ Types' /\ MutualExclusion' /\ (\A d \in Cores : SnapExact(d)') /\ (\A d \in Cores : HoldsExact(d)')
      /\ ListsWellFormed' /\ PlacesExact' /\ NumbersExact'
      /\ \A j \in Orders : \A g : Elem(g, order'[j]) <=> Elem(g, order[j]) \/ (j = "list" /\ g = n)
      /\ \A g \in Pages : heap'[g].pkg = heap[g].pkg
      /\ pc'[c] = "receive" /\ pkg'[c] = NULL /\ node'[c] = NULL
      /\ \A d \in Cores \ {c} : pc'[d] = pc[d] /\ node'[d] = node[d] /\ pkg'[d] = pkg[d]
  BY <1>1, <1>2, <1>3, <1>4, <1>5, <1>6, PushedBack
<1>8. \A g \in Pages : Unsent(g)' <=> Unsent(g) \/ g = n
  BY <1>1, <1>2, <1>7 DEF Unsent, Orders, Cores
<1>9. /\ k < pdcp_pkd_ptr /\ tgt[k] = NULL /\ heap[n].pkg = k /\ k # NULL
      /\ \A d \in Producers : pkg[d] = k => d = c
      /\ \A g \in Pages : Unsent(g) => heap[g].pkg # k
  BY <1>2, <1>6 DEF RlcInv, PkgsExact
<1>10. PkgsExact'
  <2>1. ASSUME NEW g \in Pages, Unsent(g)'
        PROVE  /\ heap[g].pkg \in Pkgs /\ heap[g].pkg < pdcp_pkd_ptr /\ tgt[heap[g].pkg] = NULL
               /\ \A h \in Pages : Unsent(h)' /\ heap[h].pkg = heap[g].pkg => h = g
    <3>1. CASE g = n
      BY <1>8, <1>9, <3>1
    <3>2. CASE g # n
      <4>1. Unsent(g) /\ heap[g].pkg # k
        BY <1>8, <1>9, <2>1, <3>2
      <4>2. QED
        BY <1>8, <1>9, <4>1 DEF RlcInv, PkgsExact
    <3>3. QED
      BY <3>1, <3>2
  <2>2. ASSUME NEW d \in Producers, pkg'[d] # NULL
        PROVE  /\ pkg'[d] < pdcp_pkd_ptr /\ tgt[pkg'[d]] = NULL
               /\ \A e \in Producers : pkg'[e] = pkg'[d] => e = d
               /\ \A g \in Pages : Unsent(g)' => heap[g].pkg # pkg'[d]
    <3>1. d # c /\ pkg'[d] = pkg[d] /\ pkg[d] # NULL /\ pkg[d] # k
      BY <1>7, <1>9, <2>2 DEF Cores
    <3>2. /\ pkg[d] < pdcp_pkd_ptr /\ tgt[pkg[d]] = NULL
          /\ \A e \in Producers : pkg[e] = pkg[d] => e = d
          /\ \A g \in Pages : Unsent(g) => heap[g].pkg # pkg[d]
      BY <3>1 DEF RlcInv, PkgsExact
    <3>3. \A e \in Producers : pkg'[e] = pkg[d] => e = d
      BY <1>7, <3>1, <3>2 DEF Cores
    <3>4. \A g \in Pages : Unsent(g)' => heap[g].pkg # pkg[d]
      BY <1>8, <1>9, <3>1, <3>2
    <3>5. QED
      BY <3>1, <3>2, <3>3, <3>4
  <2>3. \A j \in Pkgs : tgt[j] # NULL => j < pdcp_pkd_ptr
    BY DEF RlcInv, PkgsExact
  <2>4. ASSUME NEW j \in Pkgs, j < pdcp_pkd_ptr
        PROVE  tgt[j] # NULL \/ (\E d \in Producers : pkg'[d] = j) \/ \E g \in Pages : Unsent(g)' /\ heap[g].pkg = j
    <3>1. CASE j = k
      BY <1>8, <1>9, <3>1
    <3>2. CASE j # k
      <4>1. tgt[j] # NULL \/ (\E d \in Producers : pkg[d] = j) \/ \E g \in Pages : Unsent(g) /\ heap[g].pkg = j
        BY <2>4 DEF RlcInv, PkgsExact
      <4>2. (\E d \in Producers : pkg[d] = j) => \E d \in Producers : pkg'[d] = j
        BY <1>6, <1>7, <3>2 DEF Cores
      <4>3. QED
        BY <1>8, <4>1, <4>2
    <3>3. QED
      BY <3>1, <3>2
  <2>5. QED
    BY <1>3, <1>7, <2>1, <2>2, <2>3, <2>4 DEF PkgsExact
<1>11. QED
  BY <1>7, <1>10 DEF RlcInv
------------------------------------------------------------------------------
(* A hart finds the list l empty.                                          *)
LEMMA PoppedNone ==
  ASSUME RlcInv, NEW c \in Consumers, NEW l \in {"list", "sent_list"},
         pc[c] \in Inside(l), snap[c][1] = NULL, PopFront(c, l), node[c] = NULL, pkg[c] = NULL,
         NEW label \in Labels, Goto(c, label), label \notin HoldsNode, label \notin HoldsPkg, label \in ConsumerLabels,
         label \notin {"receive2", "alloc2", "free2", "push2", "pop2", "sent2", "ack_pop2", "push"},
         UNCHANGED <<pdcp_pkd_ptr, alloc_offset, free_list, vtNext, tgt, pkg>>
  PROVE  RlcInv'
<1>1. c \in Cores /\ c \notin Producers /\ l \in Locks /\ pc[c] # "number" /\ label # "number"
  BY InsideOne, Names DEF Cores, HoldsNode
<1>2. UNCHANGED <<heap, lists, order>> /\ SpinUnlock(c, l) /\ node' = [node EXCEPT ![c] = NULL]
  BY DEF PopFront
<1>3. node' = node
  BY <1>1, <1>2 DEF RlcInv, Types
<1>4. /\ MutualExclusion' /\ \A d \in Cores : SnapExact(d)'
      /\ lock' \in [Locks -> {0, 1}] /\ pc' \in [Cores -> Labels] /\ snap' \in [Cores -> Seq(Nat \cup {NULL})]
      /\ pc'[c] = label /\ \A d \in Cores \ {c} : pc'[d] = pc[d] /\ snap'[d] = snap[d]
  BY <1>1, <1>2, LeaveFrame
<1>5. Types'
  BY <1>2, <1>3, <1>4 DEF RlcInv, Types
<1>6. OthersRest(c) /\ UNCHANGED <<shared, order, vtNext, tgt, node, pkg>>
  BY <1>2, <1>3, <1>4 DEF OthersRest, shared
<1>7. HoldsExact(c)'
  BY <1>1, <1>3, <1>4 DEF HoldsExact
<1>8. QED
  BY <1>1, <1>4, <1>5, <1>6, <1>7, FrameInv

(* A hart takes the first page n of the list l.                            *)
LEMMA PoppedFront ==
  ASSUME RlcInv, NEW c \in Consumers, NEW l \in {"list", "sent_list"},
         pc[c] \in Inside(l), snap[c][1] = lists[l].head, lists[l].head # NULL,
         PopFront(c, l), node[c] = NULL, pkg[c] = NULL,
         NEW label \in {"number", "free"}, Goto(c, label),
         UNCHANGED <<pdcp_pkd_ptr, alloc_offset, free_list, vtNext, tgt, pkg>>
  PROVE  \E n \in Pages :
         /\ Types' /\ MutualExclusion' /\ (\A d \in Cores : SnapExact(d)') /\ (\A d \in Cores : HoldsExact(d)')
         /\ ListsWellFormed' /\ PlacesExact' /\ NumbersExact' /\ Elem(n, order[l])
         /\ \A k \in Orders : \A g : Elem(g, order'[k]) <=> Elem(g, order[k]) /\ ~(k = l /\ g = n)
         /\ \A g \in Pages : heap'[g].pkg = heap[g].pkg
         /\ pc'[c] = label /\ node'[c] = n
         /\ \A d \in Cores \ {c} : pc'[d] = pc[d] /\ node'[d] = node[d]
<1> DEFINE s == order[l]
           h == lists[l]
<1>1. heap \in Heaps /\ h \in Headers /\ s \in Seq(Pages) /\ WellFormed(h, heap, s) /\ Once(s) /\ l \in Orders
  BY DEF RlcInv, Types, ListsWellFormed, PlacesExact, Orders
<1>2. s # << >> /\ h.head = s[1]
  BY <1>1 DEF WellFormed
<1>3. /\ heap' = PopHeap(heap, s[1])
      /\ lists' = [lists EXCEPT ![l] = PopList(h, heap, s[1])]
      /\ order' = [order EXCEPT ![l] = Tail(s)]
      /\ node' = [node EXCEPT ![c] = s[1]] /\ SpinUnlock(c, l)
  BY <1>2 DEF PopFront
<1>4. PICK r : r = Tail(s)
  OBVIOUS
<1>5. PICK n : n = s[1]
  OBVIOUS
<1>6. /\ r \in Seq(Pages) /\ Once(r) /\ n \in Pages /\ Elem(n, s)
      /\ \A g : Elem(g, r) <=> Elem(g, s) /\ g # n
  BY <1>1, <1>2, <1>4, <1>5, TailElems
<1>7. /\ heap' \in Heaps /\ PopList(h, heap, n) \in Headers /\ WellFormed(PopList(h, heap, n), heap', r)
      /\ \A g \in Pages : heap'[g].pkg = heap[g].pkg
      /\ \A g \in Pages : ~Elem(g, s) => heap'[g] = heap[g]
  BY <1>1, <1>2, <1>3, <1>4, <1>5, PopFacts
<1>8. PICK q : q = PopList(h, heap, n)
  OBVIOUS
<1>9. /\ lists' \in [{"list", "sent_list"} -> Headers] /\ lists'[l] = q
      /\ \A k \in {"list", "sent_list"} \ {l} : lists'[k] = lists[k]
  BY <1>3, <1>5, <1>7, <1>8 DEF RlcInv, Types
<1>10. /\ order' \in [Orders -> Seq(Pages)] /\ order'[l] = r
       /\ \A k \in Orders \ {l} : order'[k] = order[k]
  BY <1>1, <1>3, <1>4, <1>6 DEF RlcInv, Types
<1>11. c \in Cores /\ c \notin Producers /\ n # NULL
  BY <1>6, Names DEF Cores
<1>12. node' \in [Cores -> Links] /\ node'[c] = n /\ \A d \in Cores \ {c} : node'[d] = node[d]
  BY <1>3, <1>5, <1>6, <1>11 DEF RlcInv, Types, Links
<1>13. (\A d \in Cores : node[d] # n) /\ (\A k \in Orders : Elem(n, order[k]) => k = l) /\ n <= alloc_offset
  <2>1. \A d \in Cores : node[d] # n
    BY <1>1, <1>6, <1>11 DEF RlcInv, PlacesExact
  <2>2. QED
    BY <1>1, <1>6, <2>1 DEF RlcInv, PlacesExact
<1>14. /\ MutualExclusion' /\ \A d \in Cores : SnapExact(d)'
       /\ lock' \in [Locks -> {0, 1}] /\ pc' \in [Cores -> Labels] /\ snap' \in [Cores -> Seq(Nat \cup {NULL})]
       /\ pc'[c] = label /\ \A d \in Cores \ {c} : pc'[d] = pc[d] /\ snap'[d] = snap[d]
  <2>1. l \in Locks /\ l # "pdcp" /\ l # "mm" /\ label \in Labels
    BY InsideOne DEF Labels, ConsumerLabels
  <2>2. /\ l # "list" => lists'["list"] = lists["list"]
        /\ l # "sent_list" => lists'["sent_list"] = lists["sent_list"]
    BY <1>9
  <2>3. QED
    BY <1>3, <1>11, <2>1, <2>2, LeaveFrame
<1> HIDE DEF s, h
<1>15. Types'
  BY <1>7, <1>9, <1>10, <1>12, <1>14 DEF RlcInv, Types
<1>16. ASSUME NEW d \in Cores PROVE HoldsExact(d)'
  <2>1. CASE d = c
    BY <1>11, <1>12, <1>14, <2>1 DEF HoldsExact, HoldsNode, HoldsPkg, ConsumerLabels
  <2>2. CASE d # c
    <3>1. UNCHANGED <<pc[d], node[d], pkg[d]>> /\ HoldsExact(d)
      BY <1>12, <1>14, <2>2 DEF RlcInv
    <3>2. node[d] # NULL => heap'[node[d]].pkg = heap[node[d]].pkg
      BY <1>7 DEF RlcInv, Types, Links
    <3>3. QED
      BY <3>1, <3>2 DEF HoldsExact, HoldsNode
  <2>3. QED
    BY <2>1, <2>2
<1>17. ListsWellFormed'
  <2>1. WellFormed(lists[l], heap, order[l])'
    BY <1>7, <1>8, <1>9, <1>10
  <2>2. ASSUME NEW k \in {"list", "sent_list"} \ {l} PROVE WellFormed(lists[k], heap, order[k])'
    <3>1. \A g \in Pages : Elem(g, order[k]) => ~Elem(g, s)
      BY <1>1 DEF RlcInv, PlacesExact, Orders, s
    <3>2. \A g \in Pages : Elem(g, order[k]) => heap'[g].next = heap[g].next /\ heap'[g].prev = heap[g].prev
      BY <1>7, <3>1
    <3>3. lists'[k] = lists[k] /\ order'[k] = order[k]
      BY <1>9, <1>10 DEF Orders
    <3>4. QED
      BY <3>2, <3>3, WellFormedKept
  <2>3. Freed(free_list, heap, order["free"])'
    <3>1. \A g \in Pages : Elem(g, order["free"]) => ~Elem(g, s)
      BY <1>1 DEF RlcInv, PlacesExact, Orders, s
    <3>2. \A g \in Pages : Elem(g, order["free"]) => heap'[g].prev = heap[g].prev
      BY <1>7, <3>1
    <3>3. order'["free"] = order["free"]
      BY <1>10 DEF Orders
    <3>4. QED
      BY <3>2, <3>3, FreedKept
  <2>4. QED
    BY <2>1, <2>2, <2>3 DEF ListsWellFormed
<1>18. \A k \in Orders : \A g : Elem(g, order'[k]) <=> Elem(g, order[k]) /\ ~(k = l /\ g = n)
  BY <1>6, <1>10 DEF s
<1>19. PlacesExact'
  <2>1. \A k \in Orders : Once(order'[k])
    BY <1>6, <1>10 DEF RlcInv, PlacesExact
  <2>2. \A g \in Pages : \A k, j \in Orders : Elem(g, order'[k]) /\ Elem(g, order'[j]) => k = j
    BY <1>18 DEF RlcInv, PlacesExact
  <2>3. ASSUME NEW d \in Cores, node'[d] # NULL
        PROVE  (\A k \in Orders : ~Elem(node'[d], order'[k])) /\ \A e \in Cores : node'[e] = node'[d] => e = d
    <3>1. CASE d = c
      BY <1>12, <1>13, <1>18, <3>1
    <3>2. CASE d # c
      <4>1. node'[d] = node[d] /\ node[d] # NULL /\ node[d] # n
        BY <1>12, <1>13, <2>3, <3>2
      <4>2. (\A k \in Orders : ~Elem(node[d], order[k])) /\ \A e \in Cores : node[e] = node[d] => e = d
        BY <4>1 DEF RlcInv, PlacesExact
      <4>3. QED
        BY <1>12, <1>18, <4>1, <4>2
    <3>3. QED
      BY <3>1, <3>2
  <2>4. ASSUME NEW g \in Pages
        PROVE  g <= alloc_offset <=> (\E k \in Orders : Elem(g, order'[k])) \/ \E d \in Cores : node'[d] = g
    <3>1. g <= alloc_offset <=> (\E k \in Orders : Elem(g, order[k])) \/ \E d \in Cores : node[d] = g
      BY DEF RlcInv, PlacesExact
    <3>2. CASE g = n
      BY <1>11, <1>12, <1>13, <3>2
    <3>3. CASE g # n
      <4>1. (\E d \in Cores : node'[d] = g) <=> (\E d \in Cores : node[d] = g)
        BY <1>12, <3>3, Names
      <4>2. QED
        BY <1>18, <3>1, <3>3, <4>1
    <3>4. QED
      BY <3>2, <3>3
  <2>5. QED
    BY <2>1, <2>2, <2>3, <2>4 DEF PlacesExact
<1>20. NumbersExact'
  BY NumbersKept
<1>21. Elem(n, order[l])
  BY <1>6 DEF s
<1>22. QED
  BY <1>6, <1>7, <1>12, <1>14, <1>15, <1>16, <1>17, <1>18, <1>19, <1>20, <1>21

LEMMA PopInv == ASSUME RlcInv, NEW c \in Consumers, Pop(c) PROVE RlcInv'
<1>1. pc[c] = "pop2" /\ snap[c][1] = lists["list"].head /\ c \in Cores /\ c \notin Producers
  BY Names DEF Pop, RlcInv, SnapExact, Cores
<1>2. node[c] = NULL /\ pkg[c] = NULL
  BY <1>1 DEF RlcInv, HoldsExact, HoldsNode, HoldsPkg
<1>3. /\ PopFront(c, "list") /\ Goto(c, IF snap[c][1] = NULL THEN "check_done" ELSE "number")
      /\ UNCHANGED <<pdcp_pkd_ptr, alloc_offset, free_list, vtNext, tgt, pkg>>
  BY DEF Pop, stats
<1>4. pc[c] \in Inside("list")
  BY <1>1, InsideOne
<1>5. CASE snap[c][1] = NULL
  <2>1. "check_done" \in Labels /\ "check_done" \in ConsumerLabels /\ "check_done" \notin HoldsNode
        /\ "check_done" \notin HoldsPkg
    BY DEF Labels, ConsumerLabels, HoldsNode, HoldsPkg
  <2>2. Goto(c, "check_done")
    BY <1>3, <1>5
  <2>3. QED
    BY <1>2, <1>3, <1>4, <1>5, <2>1, <2>2, PoppedNone
<1>6. CASE snap[c][1] # NULL
  <2>1. Goto(c, "number") /\ lists["list"].head # NULL
    BY <1>1, <1>3, <1>6
  <2>2. PICK n \in Pages :
          /\ Types' /\ MutualExclusion' /\ (\A d \in Cores : SnapExact(d)') /\ (\A d \in Cores : HoldsExact(d)')
          /\ ListsWellFormed' /\ PlacesExact' /\ NumbersExact' /\ Elem(n, order["list"])
          /\ \A k \in Orders : \A g : Elem(g, order'[k]) <=> Elem(g, order[k]) /\ ~(k = "list" /\ g = n)
          /\ \A g \in Pages : heap'[g].pkg = heap[g].pkg
          /\ pc'[c] = "number" /\ node'[c] = n
          /\ \A d \in Cores \ {c} : pc'[d] = pc[d] /\ node'[d] = node[d]
    BY <1>1, <1>2, <1>3, <1>4, <2>1, PoppedFront
  <2>3. \A g \in Pages : Unsent(g)' <=> Unsent(g)
    BY <1>1, <2>2 DEF Unsent, Orders, Cores
  <2>4. PkgsExact'
    BY <1>3, <2>2, <2>3, PkgsKept
  <2>5. QED
    BY <2>2, <2>4 DEF RlcInv
<1>7. QED
  BY <1>5, <1>6

LEMMA AckPopInv == ASSUME RlcInv, NEW c \in Consumers, AckPop(c) PROVE RlcInv'
<1>1. pc[c] = "ack_pop2" /\ snap[c][1] = lists["sent_list"].head /\ c \in Cores /\ c \notin Producers
  BY Names DEF AckPop, RlcInv, SnapExact, Cores
<1>2. node[c] = NULL /\ pkg[c] = NULL
  BY <1>1 DEF RlcInv, HoldsExact, HoldsNode, HoldsPkg
<1>3. /\ PopFront(c, "sent_list") /\ UNCHANGED <<pdcp_pkd_ptr, alloc_offset, free_list, vtNext, tgt, pkg>>
  BY DEF AckPop, stats
<1>4. pc[c] \in Inside("sent_list")
  BY <1>1, InsideOne
<1>5. CASE snap[c][1] = NULL
  <2>1. PICK label \in {"ack_pop", "store_ack"} : Goto(c, label)
    BY <1>5 DEF AckPop, AckNext
  <2>2. label \in Labels /\ label \in ConsumerLabels /\ label \notin HoldsNode /\ label \notin HoldsPkg
    BY <2>1 DEF Labels, ConsumerLabels, HoldsNode, HoldsPkg
  <2>3. QED
    BY <1>2, <1>3, <1>4, <1>5, <2>1, <2>2, PoppedNone
<1>6. CASE snap[c][1] # NULL
  <2>1. Goto(c, "free") /\ lists["sent_list"].head # NULL
    BY <1>1, <1>6 DEF AckPop
  <2>2. PICK n \in Pages :
          /\ Types' /\ MutualExclusion' /\ (\A d \in Cores : SnapExact(d)') /\ (\A d \in Cores : HoldsExact(d)')
          /\ ListsWellFormed' /\ PlacesExact' /\ NumbersExact' /\ Elem(n, order["sent_list"])
          /\ \A k \in Orders : \A g : Elem(g, order'[k]) <=> Elem(g, order[k]) /\ ~(k = "sent_list" /\ g = n)
          /\ \A g \in Pages : heap'[g].pkg = heap[g].pkg
          /\ pc'[c] = "free" /\ node'[c] = n
          /\ \A d \in Cores \ {c} : pc'[d] = pc[d] /\ node'[d] = node[d]
    BY <1>1, <1>2, <1>3, <1>4, <2>1, PoppedFront
  <2>3. \A g \in Pages : Unsent(g)' <=> Unsent(g)
    BY <1>1, <2>2 DEF Unsent, Orders, Cores
  <2>4. PkgsExact'
    BY <1>3, <2>2, <2>3, PkgsKept
  <2>5. QED
    BY <2>2, <2>4 DEF RlcInv
<1>7. QED
  BY <1>5, <1>6

LEMMA RlcNext == RlcInv /\ [Next]_vars => RlcInv'
<1> SUFFICES ASSUME RlcInv, [Next]_vars PROVE RlcInv'
  OBVIOUS
<1>1. CASE UNCHANGED vars
  BY <1>1 DEF vars, shared, stats, locals, RlcInv, Types, MutualExclusion, SnapExact, HoldsExact,
              ListsWellFormed, PlacesExact, PkgsExact, Unsent, NumbersExact
<1>2. ASSUME NEW c \in Producers, Producer(c) PROVE RlcInv'
  <2>1. c \in Cores
    BY DEF Cores
  <2>2. QED
    BY <1>2, <2>1, EntersInv, ReceiveInv, AllocInv, PushInv, QuietsInv DEF Producer
<1>3. ASSUME NEW c \in Consumers, Consumer(c) PROVE RlcInv'
  <2>1. c \in Cores
    BY DEF Cores
  <2>2. QED
    BY <1>3, <2>1, EntersInv, PopInv, NumberInv, SentInv, AckPopInv, FreeInv, QuietsInv DEF Consumer
<1>4. QED
  BY <1>1, <1>2, <1>3 DEF Next, Finished

LEMMA RlcAlways == Spec => []RlcInv
BY RlcInit, RlcNext, PTL DEF Spec
------------------------------------------------------------------------------
(* Four sets that share no element, as the properties state it.            *)
LEMMA FourPlaces ==
  ASSUME NEW A, NEW B, NEW C, NEW D
  PROVE  LET places == <<A, B, C, D>> IN
         /\ UNION {places[i] : i \in 1..4} = A \cup B \cup C \cup D
         /\ (A \cap B = {} /\ A \cap C = {} /\ A \cap D = {} /\ B \cap C = {} /\ B \cap D = {} /\ C \cap D = {})
              => \A i, j \in 1..4 : i # j => places[i] \cap places[j] = {}
<1> DEFINE places == <<A, B, C, D>>
<1>1. places[1] = A /\ places[2] = B /\ places[3] = C /\ places[4] = D
  OBVIOUS
<1> HIDE DEF places
<1>2. \A i \in 1..4 : i = 1 \/ i = 2 \/ i = 3 \/ i = 4
  OBVIOUS
<1>3. 1 \in 1..4 /\ 2 \in 1..4 /\ 3 \in 1..4 /\ 4 \in 1..4
  OBVIOUS
<1>4. \A x : x \in UNION {places[i] : i \in 1..4} <=> \E i \in 1..4 : x \in places[i]
  OBVIOUS
<1>5. UNION {places[i] : i \in 1..4} = A \cup B \cup C \cup D
  BY <1>1, <1>2, <1>3, <1>4
<1>6. ASSUME A \cap B = {} /\ A \cap C = {} /\ A \cap D = {} /\ B \cap C = {} /\ B \cap D = {} /\ C \cap D = {}
      PROVE  \A i, j \in 1..4 : i # j => places[i] \cap places[j] = {}
  BY <1>1, <1>2, <1>6
<1>7. QED
  BY <1>5, <1>6 DEF places

(* Both lists and the free list keep their links, ends, counters and order *)
(* through every interleaving of the critical sections.                    *)
THEOREM ListsCorrect == Spec => []ListsWellFormed
<1>1. RlcInv => ListsWellFormed
  BY DEF RlcInv
<1>2. QED
  BY <1>1, RlcAlways, PTL

(* A page carved from the pool is in one list, in the free list or with    *)
(* one hart, and only there: mm_alloc and mm_free lose or double no page.  *)
THEOREM NoPageLost == Spec => []PagesConserved
<1>1. RlcInv => PagesConserved
  <2> SUFFICES ASSUME RlcInv PROVE PagesConserved
    OBVIOUS
  <2>1. order \in [Orders -> Seq(Pages)] /\ node \in [Cores -> Links] /\ alloc_offset \in 0..NumPages
    BY DEF RlcInv, Types
  <2>2. ASSUME NEW l \in Orders PROVE \A g : g \in Listed(l) <=> g \in Pages /\ Elem(g, order[l])
    BY <2>1, SeqFacts DEF Listed, Elem
  <2>3. \A g : g \in Held <=> g \in Pages /\ \E c \in Cores : node[c] = g
    BY <2>1, Names DEF Held, Links
  <2>4. \A g : g \in Carved <=> g \in Pages /\ g <= alloc_offset
    BY <2>1, Names DEF Carved, Pages
  <2>5. "list" \in Orders /\ "sent_list" \in Orders /\ "free" \in Orders
    BY DEF Orders
  <2>6. Listed("list") \cup Listed("sent_list") \cup Listed("free") \cup Held = Carved
    BY <2>2, <2>3, <2>4, <2>5 DEF RlcInv, PlacesExact, Orders
  <2>7. \A l, k \in Orders : l # k => Listed(l) \cap Listed(k) = {}
    BY <2>2 DEF RlcInv, PlacesExact
  <2>8. \A l \in Orders : Listed(l) \cap Held = {}
    BY <2>2, <2>3, Names DEF RlcInv, PlacesExact
  <2>9. \A l \in {"list", "sent_list", "free"} : \A i, j \in 1..Len(order[l]) : order[l][i] = order[l][j] => i = j
    BY <2>5 DEF RlcInv, PlacesExact, Once
  <2>10. \A c, d \in Cores : c # d /\ node[c] = node[d] => node[c] = NULL
    BY DEF RlcInv, PlacesExact
  <2>11. PICK A, B, C, D : A = Listed("list") /\ B = Listed("sent_list") /\ C = Listed("free") /\ D = Held
    OBVIOUS
  <2>12. A \cap B = {} /\ A \cap C = {} /\ A \cap D = {} /\ B \cap C = {} /\ B \cap D = {} /\ C \cap D = {}
    BY <2>5, <2>7, <2>8, <2>11
  <2>13. /\ UNION {<<A, B, C, D>>[i] : i \in 1..4} = A \cup B \cup C \cup D
         /\ \A i, j \in 1..4 : i # j => <<A, B, C, D>>[i] \cap <<A, B, C, D>>[j] = {}
    BY <2>12, FourPlaces
  <2>14. QED
    BY <2>6, <2>9, <2>10, <2>11, <2>13 DEF PagesConserved
<1>2. QED
  BY <1>1, RlcAlways, PTL

(* The headers' numbers are 0 .. vtNext - 1, each used once, by however    *)
(* many consumers: the atomic fetch_add gives none twice and skips none.   *)
THEOREM NumbersOnce == Spec => []SequenceNumbers
<1>1. RlcInv => SequenceNumbers
  <2> SUFFICES ASSUME RlcInv PROVE SequenceNumbers
    OBVIOUS
  <2>1. \A k \in Pkgs : tgt[k] # NULL => tgt[k] \in 0..(vtNext - 1)
    <3>1. vtNext \in Nat /\ \A k \in Pkgs : tgt[k] # NULL => tgt[k] \in Nat /\ tgt[k] < vtNext
      BY DEF RlcInv, Types, NumbersExact
    <3>2. QED
      BY <3>1
  <2>2. \A sn \in 0..(vtNext - 1) : sn # NULL /\ \E k \in Pkgs : tgt[k] = sn
    BY Names DEF RlcInv, NumbersExact
  <2>3. \A j, k \in Pkgs : j # k /\ tgt[j] = tgt[k] => tgt[j] = NULL
    BY DEF RlcInv, NumbersExact
  <2>4. {tgt[k] : k \in Pkgs} \ {NULL} = 0..(vtNext - 1)
    BY <2>1, <2>2
  <2>5. QED
    BY <2>3, <2>4 DEF SequenceNumbers
<1>2. QED
  BY <1>1, RlcAlways, PTL

(* The packages of a list of distinct pages with distinct packages.        *)
LEMMA PkgCount ==
  ASSUME NEW s \in Seq(Pages), NEW H \in Heaps,
         \A i, j \in 1..Len(s) : H[s[i]].pkg = H[s[j]].pkg => i = j
  PROVE  Cardinality({H[s[i]].pkg : i \in 1..Len(s)}) = Len(s)
<1> DEFINE m == Len(s)
           f == [i \in 1..m |-> H[s[i]].pkg]
           T == {H[s[i]].pkg : i \in 1..m}
<1>1. m \in Nat
  BY SeqFacts
<1> HIDE DEF m
<1>2. f \in [1..m -> T] /\ (\A i, j \in 1..m : f[i] = f[j] => i = j) /\ \A t \in T : \E i \in 1..m : f[i] = t
  BY DEF m
<1> HIDE DEF f, T
<1>3. f \in Bijection(1..m, T)
  BY <1>2, Fun_IsBij
<1>4. ExistsBijection(1..m, T)
  BY <1>3 DEF ExistsBijection
<1>5. IsFiniteSet(1..m) /\ Cardinality(1..m) = m
  <2>1. 1 \in Int /\ m \in Int /\ (IF 1 > m THEN 0 ELSE m - 1 + 1) = m
    BY <1>1
  <2>2. QED
    BY <2>1, FS_Interval
<1>6. Cardinality(T) = m
  BY <1>4, <1>5, FS_Bijection
<1>7. QED
  BY <1>6 DEF T, m

(* A claimed package is with its producer, on the to-send list, with the   *)
(* consumer that took it, or transmitted, and in one of these places only. *)
THEOREM NoPackageLost == Spec => []PackagesConserved
<1>1. RlcInv => PackagesConserved
  <2> SUFFICES ASSUME RlcInv PROVE PackagesConserved
    OBVIOUS
  <2> DEFINE A == {pkg[c] : c \in Producers} \ {NULL}
             B == PkgOf(Listed("list"))
             takers == {node[c] : c \in {d \in Consumers : pc[d] = "number"}}
             C == PkgOf(takers)
             D == {k \in Pkgs : tgt[k] # NULL}
             s == order["list"]
  <2>1. /\ s \in Seq(Pages) /\ heap \in Heaps /\ node \in [Cores -> Links] /\ pkg \in [Cores -> PkgOrNone]
        /\ pdcp_pkd_ptr \in 0..NumPkgs /\ WellFormed(lists["list"], heap, s) /\ Once(s)
    BY DEF RlcInv, Types, Orders, ListsWellFormed, PlacesExact
  <2>2. \A g : g \in Listed("list") <=> g \in Pages /\ Elem(g, s)
    BY <2>1, SeqFacts DEF Listed, Elem
  <2>3. \A g : g \in takers <=> g \in Pages /\ \E c \in Consumers : pc[c] = "number" /\ node[c] = g
    <3>1. \A c \in Consumers : pc[c] = "number" => node[c] \in Pages
      BY <2>1 DEF RlcInv, HoldsExact, HoldsNode, Links, Cores
    <3>2. QED
      BY <3>1
  <2>4. \A g \in Pages : Unsent(g) <=> g \in Listed("list") \/ g \in takers
    BY <2>2, <2>3 DEF Unsent
  <2>5. \A g : ~(g \in Listed("list") /\ g \in takers)
    BY <2>2, <2>3, Names DEF RlcInv, PlacesExact, Orders, Cores
  <2>6. \A k : k \in B <=> \E g \in Pages : g \in Listed("list") /\ heap[g].pkg = k
    BY <2>2 DEF PkgOf
  <2>7. \A k : k \in C <=> \E g \in Pages : g \in takers /\ heap[g].pkg = k
    BY <2>3 DEF PkgOf
  <2>8. \A k : k \in A <=> k \in Pkgs /\ \E c \in Producers : pkg[c] = k
    BY <2>1, Names DEF PkgOrNone, Cores
  <2>9. \A k : k \in 0..(pdcp_pkd_ptr - 1) <=> k \in Pkgs /\ k < pdcp_pkd_ptr
    BY <2>1, Names DEF Pkgs
  <2> HIDE DEF A, B, C, takers
  <2>10. \A g \in Pages : g \in Listed("list") \/ g \in takers =>
           /\ heap[g].pkg \in Pkgs /\ heap[g].pkg < pdcp_pkd_ptr /\ tgt[heap[g].pkg] = NULL
           /\ \A h \in Pages : (h \in Listed("list") \/ h \in takers) /\ heap[h].pkg = heap[g].pkg => h = g
    BY <2>4 DEF RlcInv, PkgsExact
  <2>11. \A c \in Producers : pkg[c] # NULL =>
           /\ pkg[c] < pdcp_pkd_ptr /\ tgt[pkg[c]] = NULL
           /\ \A d \in Producers : pkg[d] = pkg[c] => d = c
           /\ \A g \in Pages : g \in Listed("list") \/ g \in takers => heap[g].pkg # pkg[c]
    BY <2>4 DEF RlcInv, PkgsExact
  <2>12. \A k : k \in A \cup B \cup C \cup D => k \in Pkgs /\ k < pdcp_pkd_ptr
    <3>1. \A k \in A : k \in Pkgs /\ k < pdcp_pkd_ptr
      BY <2>8, <2>11, Names
    <3>2. \A k \in D : k \in Pkgs /\ k < pdcp_pkd_ptr
      BY DEF RlcInv, PkgsExact
    <3>3. QED
      BY <2>6, <2>7, <2>10, <3>1, <3>2
  <2>13. \A k \in Pkgs : k < pdcp_pkd_ptr => k \in A \cup B \cup C \cup D
    <3>1. ASSUME NEW k \in Pkgs, k < pdcp_pkd_ptr PROVE k \in A \cup B \cup C \cup D
      <4>1. tgt[k] # NULL \/ (\E c \in Producers : pkg[c] = k) \/ \E g \in Pages : Unsent(g) /\ heap[g].pkg = k
        BY <3>1 DEF RlcInv, PkgsExact
      <4>2. QED
        BY <2>4, <2>6, <2>7, <2>8, <4>1
    <3>2. QED
      BY <3>1
  <2>14. A \cup B \cup C \cup D = 0..(pdcp_pkd_ptr - 1)
    BY <2>9, <2>12, <2>13
  <2>15. A \cap B = {} /\ A \cap C = {} /\ A \cap D = {}
    BY <2>6, <2>7, <2>8, <2>11, Names
  <2>16. B \cap C = {} /\ B \cap D = {} /\ C \cap D = {}
    BY <2>5, <2>6, <2>7, <2>10
  <2>17. Cardinality(B) = lists["list"].sduNum
    <3>1. ASSUME NEW i \in 1..Len(s), NEW j \in 1..Len(s), heap[s[i]].pkg = heap[s[j]].pkg PROVE i = j
      <4>1. s[i] \in Pages /\ s[j] \in Pages /\ s[i] \in Listed("list") /\ s[j] \in Listed("list")
        BY <2>1, <2>2, SeqFacts DEF Elem
      <4>2. s[i] = s[j]
        BY <2>10, <3>1, <4>1
      <4>3. QED
        BY <2>1, <4>2 DEF Once
    <3>2. Cardinality({heap[s[i]].pkg : i \in 1..Len(s)}) = Len(s)
      BY <2>1, <3>1, PkgCount
    <3>3. B = {heap[s[i]].pkg : i \in 1..Len(s)}
      BY DEF B, PkgOf, Listed
    <3>4. lists["list"].sduNum = Len(s)
      BY <2>1 DEF WellFormed
    <3>5. QED
      BY <3>2, <3>3, <3>4
  <2>18. \A c, d \in Producers : c # d /\ pkg[c] = pkg[d] => pkg[c] = NULL
    BY <2>11
  <2> HIDE DEF D, s
  <2>19. /\ UNION {<<A, B, C, D>>[i] : i \in 1..4} = 0..(pdcp_pkd_ptr - 1)
         /\ \A i, j \in 1..4 : i # j => <<A, B, C, D>>[i] \cap <<A, B, C, D>>[j] = {}
    BY <2>14, <2>15, <2>16, FourPlaces
  <2>20. QED
    BY <2>17, <2>18, <2>19 DEF PackagesConserved, A, B, C, D, takers
<1>2. QED
  BY <1>1, RlcAlways, PTL
==============================================================================
