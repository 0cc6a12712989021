---------------------------- MODULE McsLockProofs ----------------------------
(***************************************************************************)
(* Proofs about the MCS lock, for any harts, locks, slots and programs.    *)
(***************************************************************************)
EXTENDS McsLock, SequenceTheorems, TLAPS

Slots == [in_use : BOOLEAN, lock : Locks \cup {NULL}, next : Nodes \cup {NULL}, locked : BOOLEAN]

Labels == {"idle", "bind", "trybind", "swap", "trycas", "lock", "link", "wait", "cas", "linkage", "handoff"}

Types ==
  /\ tail \in [Locks -> Nodes \cup {NULL}]
  /\ bindings \in [Nodes -> Slots]
  /\ order \in [Locks -> Seq(Nodes)]
  /\ pc \in [Harts -> Labels]
  /\ cur \in [Harts -> Locks \cup {NULL}]
  /\ me \in [Harts -> Nodes \cup {NULL}]
  /\ pred \in [Harts -> Nodes \cup {NULL}]
  /\ succ \in [Harts -> Nodes \cup {NULL}]

(* A node that is not the first of its queue spins behind the one before.  *)
WaitsBehind(n, p) ==
  /\ me[n[1]] = n /\ pred[n[1]] = p
  /\ pc[n[1]] = "lock" \/ (pc[n[1]] \in {"link", "wait"} /\ bindings[n].locked)

(* The first node's hart has the lock, or finds that out when it looks     *)
(* next; it may be in a call for another lock.                             *)
HasLock(n) ==
  ~bindings[n].locked /\ (me[n[1]] = n => pc[n[1]] \in {"wait", "cas", "linkage", "handoff"})

(* A queue, its tail and its links. *)
QueueShape(l) ==
  /\ tail[l] = IF order[l] = << >> THEN NULL ELSE order[l][Len(order[l])]
  /\ \A i \in 1..Len(order[l]) :
       /\ bindings[order[l][i]].in_use /\ bindings[order[l][i]].lock = l
       /\ \A j \in 1..Len(order[l]) : order[l][j] = order[l][i] => j = i
       /\ IF i = 1 THEN HasLock(order[l][i]) ELSE WaitsBehind(order[l][i], order[l][i - 1])
       /\ bindings[order[l][i]].next =
            IF i < Len(order[l]) /\ pc[order[l][i + 1][1]] = "wait" THEN order[l][i + 1] ELSE NULL

Queued(n, l) == \E i \in 1..Len(order[l]) : order[l][i] = n

(* A slot that was bound, but whose node is not in a queue yet. *)
Pending(n) ==
  /\ me[n[1]] = n /\ pc[n[1]] \in {"swap", "trycas"} /\ bindings[n].lock = cur[n[1]]
  /\ bindings[n].next = NULL /\ ~bindings[n].locked

SlotsExact ==
  \A n \in Nodes : bindings[n].in_use =>
    /\ bindings[n].lock \in Locks
    /\ Pending(n) \/ Queued(n, bindings[n].lock)
    /\ \A m \in Nodes : bindings[m].in_use /\ m[1] = n[1] /\ bindings[m].lock = bindings[n].lock => m = n

(* What a call's locals are, at each of its accesses. *)
LocalsExact(h) ==
  /\ pc[h] \in {"idle", "bind", "trybind"} => me[h] = NULL
  /\ me[h] # NULL => me[h][1] = h /\ bindings[me[h]].in_use /\ cur[h] \in Locks /\ bindings[me[h]].lock = cur[h]
  /\ pc[h] \in {"bind", "trybind"} => cur[h] \in Locks /\ \A n \in Bound(h) : bindings[n].lock < cur[h]
  /\ pc[h] \in {"swap", "trycas"} => me[h] # NULL /\ ~Queued(me[h], cur[h])
  /\ pc[h] \in {"lock", "link", "wait"} => me[h] # NULL /\ Queued(me[h], cur[h])
  /\ pc[h] \in {"lock", "link"} => order[cur[h]][1] # me[h]
  /\ pc[h] \in {"cas", "linkage", "handoff"} => me[h] # NULL /\ order[cur[h]] # << >> /\ order[cur[h]][1] = me[h]
  /\ pc[h] = "handoff" => succ[h] # NULL /\ succ[h] = bindings[me[h]].next

McsInv == Types /\ SlotsExact /\ (\A l \in Locks : QueueShape(l)) /\ (\A h \in Harts : LocalsExact(h))
------------------------------------------------------------------------------
LEMMA Names ==
  /\ NULL \notin Locks /\ NULL \notin Nodes
  /\ \A n \in Nodes : n[1] \in Harts
  /\ \A l \in Locks : l \in Nat
<1>1. \A n \in Nodes : n \in Nat \X Nat /\ n[1] \in Harts
  BY McsAssumption DEF Nodes, Harts
<1>2. QED
  BY <1>1, McsAssumption DEF Locks

LEMMA McsInit == Init => McsInv
<1> SUFFICES ASSUME Init PROVE McsInv
  OBVIOUS
<1>1. FreeSlot \in Slots
  BY DEF FreeSlot, Slots
<1>2. Types
  BY <1>1 DEF Init, Types, Labels
<1>3. SlotsExact
  BY DEF Init, SlotsExact, FreeSlot
<1>4. \A l \in Locks : order[l] = << >> /\ tail[l] = NULL /\ Len(order[l]) = 0
  BY DEF Init
<1>5. \A l \in Locks : QueueShape(l)
  BY <1>4 DEF QueueShape
<1>6. \A h \in Harts : LocalsExact(h)
  BY DEF Init, LocalsExact
<1>7. QED
  BY <1>2, <1>3, <1>5, <1>6 DEF McsInv

(* A node is in the queue of the lock that it is bound to, and in no other.*)
LEMMA QueuedBound ==
  ASSUME McsInv, NEW l \in Locks, NEW n, Queued(n, l)
  PROVE  n \in Nodes /\ bindings[n].in_use /\ bindings[n].lock = l
BY DEF McsInv, Types, Queued, QueueShape

(* A node that is not in the queue of its lock yet is in no queue.        *)
LEMMA PendingNotQueued == ASSUME McsInv, NEW n \in Nodes, Pending(n), NEW l \in Locks PROVE ~Queued(n, l)
<1>1. n[1] \in Harts /\ me[n[1]] = n /\ pc[n[1]] \in {"swap", "trycas"} /\ bindings[n].lock = cur[n[1]]
  BY Names DEF Pending
<1>2. ~Queued(n, cur[n[1]])
  BY <1>1 DEF McsInv, LocalsExact
<1>3. QED
  BY <1>1, <1>2, QueuedBound

(* Of a hart's nodes in queues all are first, but the one it waits with.   *)
LEMMA QueuedWaits ==
  ASSUME McsInv, NEW l \in Locks, NEW i \in 1..Len(order[l]), i # 1
  PROVE  /\ WaitsBehind(order[l][i], order[l][i - 1]) /\ i - 1 \in 1..Len(order[l])
         /\ order[l][i] \in Nodes /\ order[l][i - 1] \in Nodes
<1>1. Len(order[l]) \in Nat /\ i - 1 \in 1..Len(order[l])
  BY DEF McsInv, Types
<1>2. order[l][i] \in Nodes /\ order[l][i - 1] \in Nodes
  BY <1>1 DEF McsInv, Types
<1>3. QED
  BY <1>1, <1>2 DEF McsInv, QueueShape

(* What a step of hart h leaves alone.                                      *)
OthersRest(h) ==
  \A g \in Harts \ {h} :
    /\ pc'[g] = pc[g] /\ cur'[g] = cur[g] /\ me'[g] = me[g] /\ pred'[g] = pred[g] /\ succ'[g] = succ[g]

(* A queue keeps its shape in a step that changes none of its nodes, if    *)
(* the hart that steps does not wait in it.                                *)
LEMMA QueueKept ==
  ASSUME McsInv, NEW l \in Locks, NEW h \in Harts,
         order'[l] = order[l], tail'[l] = tail[l],
         \A n \in Nodes : Queued(n, l) => bindings'[n] = bindings[n],
         OthersRest(h),
         \A i \in 1..Len(order[l]) : i # 1 => me[h] # order[l][i],
         order[l] # << >> /\ me'[h] = order[l][1] => pc'[h] \in {"wait", "cas", "linkage", "handoff"}
  PROVE  QueueShape(l)'
<1> DEFINE q == order[l]
<1>1. Len(q) \in Nat /\ \A i \in 1..Len(q) : q[i] \in Nodes /\ q[i][1] \in Harts /\ Queued(q[i], l)
  BY Names DEF McsInv, Types, Queued
<1>2. \A i \in 1..Len(q) : q # << >> /\ (i # 1 => me[h] # q[i])
  BY <1>1
<1>3. \A i \in 1..Len(q) : bindings'[q[i]] = bindings[q[i]]
  BY <1>1
<1>4. \A i \in 1..Len(q) : i # 1 => q[i][1] # h
  BY <1>2, QueuedWaits DEF WaitsBehind
<1>5. QueueShape(l)
  BY DEF McsInv
<1>6. ASSUME NEW i \in 1..Len(q)
      PROVE  IF i = 1
             THEN /\ ~bindings'[q[i]].locked
                  /\ me'[q[i][1]] = q[i] => pc'[q[i][1]] \in {"wait", "cas", "linkage", "handoff"}
             ELSE /\ me'[q[i][1]] = q[i] /\ pred'[q[i][1]] = q[i - 1]
                  /\ \/ pc'[q[i][1]] = "lock"
                     \/ pc'[q[i][1]] \in {"link", "wait"} /\ bindings'[q[i]].locked
  <2>1. CASE i # 1
    <3>1. WaitsBehind(q[i], q[i - 1])
      BY <2>1, QueuedWaits
    <3>2. q[i][1] \in Harts \ {h} /\ bindings'[q[i]] = bindings[q[i]]
      BY <1>1, <1>3, <1>4, <2>1
    <3>3. QED
      BY <2>1, <3>1, <3>2 DEF WaitsBehind, OthersRest
  <2>2. CASE i = 1 /\ q[i][1] = h
    BY <1>2, <1>3, <1>5, <2>2 DEF HasLock, QueueShape
  <2>3. CASE i = 1 /\ q[i][1] # h
    BY <1>1, <1>3, <1>5, <2>3 DEF HasLock, QueueShape, OthersRest
  <2>4. QED
    BY <2>1, <2>2, <2>3
<1>7. ASSUME NEW i \in 1..Len(q), i < Len(q)
      PROVE  pc'[q[i + 1][1]] = pc[q[i + 1][1]]
  <2>1. i + 1 \in 1..Len(q) /\ i + 1 # 1
    BY <1>1, <1>7
  <2>2. QED
    BY <1>1, <1>4, <2>1 DEF OthersRest
<1> HIDE DEF q
<1>8. \A i \in 1..Len(q) :
        /\ bindings'[q[i]].in_use /\ bindings'[q[i]].lock = l
        /\ \A j \in 1..Len(q) : q[j] = q[i] => j = i
        /\ bindings'[q[i]].next = IF i < Len(q) /\ pc'[q[i + 1][1]] = "wait" THEN q[i + 1] ELSE NULL
  <2>1. \A i \in 1..Len(q) : bindings[q[i]].in_use /\ bindings[q[i]].lock = l
    BY <1>5 DEF QueueShape, q
  <2>2. \A i \in 1..Len(q) : \A j \in 1..Len(q) : q[j] = q[i] => j = i
    BY <1>5 DEF QueueShape, q
  <2>3. \A i \in 1..Len(q) : bindings[q[i]].next = IF i < Len(q) /\ pc[q[i + 1][1]] = "wait" THEN q[i + 1] ELSE NULL
    BY <1>5 DEF QueueShape, q
  <2>4. ASSUME NEW i \in 1..Len(q)
        PROVE  bindings'[q[i]].next = IF i < Len(q) /\ pc'[q[i + 1][1]] = "wait" THEN q[i + 1] ELSE NULL
    BY <1>3, <1>7, <2>3
  <2>5. QED
    BY <1>3, <2>1, <2>2, <2>4
<1>9. tail'[l] = IF q = << >> THEN NULL ELSE q[Len(q)]
  BY <1>5 DEF QueueShape, q
<1>10. order'[l] = q
  BY DEF q
<1>11. QED
  BY <1>6, <1>8, <1>9, <1>10 DEF QueueShape, HasLock, WaitsBehind

(* The queues of other locks than the one of the call.                     *)
LEMMA OtherQueues ==
  ASSUME McsInv, NEW h \in Harts, me[h] # NULL, NEW l \in Locks, l # cur[h],
         order'[l] = order[l], tail'[l] = tail[l], OthersRest(h),
         \A n \in Nodes : Queued(n, cur[h]) \/ n = me[h] \/ bindings'[n] = bindings[n],
         me'[h] \in {NULL, me[h]}
  PROVE  QueueShape(l)'
<1>1. cur[h] \in Locks /\ bindings[me[h]].lock = cur[h]
  BY DEF McsInv, LocalsExact
<1>2. ~Queued(me[h], l) /\ ~Queued(me'[h], l)
  BY <1>1, QueuedBound, Names
<1>3. \A n \in Nodes : Queued(n, l) => bindings'[n] = bindings[n]
  BY <1>1, <1>2, QueuedBound
<1>4. Len(order[l]) \in Nat /\ \A i \in 1..Len(order[l]) : me[h] # order[l][i] /\ me'[h] # order[l][i]
  BY <1>2 DEF Queued, McsInv, Types
<1>5. order[l] # << >> => 1 \in 1..Len(order[l])
  BY DEF McsInv, Types
<1>6. QED
  BY <1>3, <1>4, <1>5, QueueKept

(* The locals of the harts that rest.                                      *)
LEMMA LocalsKept ==
  ASSUME McsInv, NEW h \in Harts, OthersRest(h), NEW g \in Harts \ {h},
         \A n \in Nodes : n[1] = g =>
           (bindings'[n].in_use <=> bindings[n].in_use) /\ bindings'[n].lock = bindings[n].lock,
         pc[g] = "handoff" => bindings'[me[g]].next = bindings[me[g]].next,
         cur[g] \in Locks /\ me[g] # NULL => (Queued(me[g], cur[g])' <=> Queued(me[g], cur[g])),
         pc[g] \in {"lock", "link"} => order'[cur[g]][1] # me[g],
         pc[g] \in {"cas", "linkage", "handoff"} => order'[cur[g]] # << >> /\ order'[cur[g]][1] = me[g]
  PROVE  LocalsExact(g)'
<1>1. LocalsExact(g) /\ (me[g] # NULL => me[g] \in Nodes)
  BY DEF McsInv, Types
<1>2. UNCHANGED <<pc[g], cur[g], me[g], succ[g]>>
  BY DEF OthersRest
<1>3. \A n \in Nodes : n \in Bound(g)' => n \in Bound(g) /\ bindings'[n].lock = bindings[n].lock
  BY DEF Bound
<1>4. \A n \in Bound(g)' : n \in Nodes
  BY DEF Bound
<1>5. me[g] # NULL => /\ me[g][1] = g /\ bindings'[me[g]].in_use /\ cur[g] \in Locks
                      /\ bindings'[me[g]].lock = cur[g]
  BY <1>1 DEF LocalsExact
<1>6. pc[g] \in {"bind", "trybind"} => cur[g] \in Locks /\ \A n \in Bound(g)' : bindings'[n].lock < cur[g]
  BY <1>1, <1>3, <1>4 DEF LocalsExact
<1>7. /\ pc[g] \in {"swap", "trycas"} => me[g] # NULL /\ ~Queued(me[g], cur[g])'
      /\ pc[g] \in {"lock", "link", "wait"} => me[g] # NULL /\ Queued(me[g], cur[g])'
  BY <1>1, <1>5 DEF LocalsExact
<1>8. pc[g] \in {"cas", "linkage", "handoff"} => me[g] # NULL
  BY <1>1 DEF LocalsExact
<1>9. pc[g] = "handoff" => succ[g] # NULL /\ succ[g] = bindings'[me[g]].next
  BY <1>1 DEF LocalsExact
<1>10. pc[g] \in {"idle", "bind", "trybind"} => me[g] = NULL
  BY <1>1 DEF LocalsExact
<1>11. QED
  BY <1>2, <1>5, <1>6, <1>7, <1>8, <1>9, <1>10 DEF LocalsExact

(* The slots after a step that binds none.                                 *)
LEMMA SlotsKept ==
  ASSUME McsInv, NEW h \in Harts, OthersRest(h),
         \A n \in Nodes : bindings'[n].in_use => bindings[n].in_use /\ bindings'[n].lock = bindings[n].lock,
         \A n \in Nodes, l \in Locks : bindings'[n].in_use /\ Queued(n, l) => Queued(n, l)',
         \A n \in Nodes : n[1] # h /\ Pending(n) =>
           bindings'[n].next = bindings[n].next /\ (bindings'[n].locked <=> bindings[n].locked),
         \A n \in Nodes : n[1] = h /\ bindings'[n].in_use /\ Pending(n) =>
           Pending(n)' \/ Queued(n, bindings[n].lock)'
  PROVE  SlotsExact'
<1>1. SlotsExact
  BY DEF McsInv
<1>2. ASSUME NEW n \in Nodes, bindings'[n].in_use
      PROVE  bindings'[n].lock \in Locks /\ (Pending(n)' \/ Queued(n, bindings[n].lock)')
  <2>1. bindings[n].in_use /\ bindings'[n].lock = bindings[n].lock /\ bindings[n].lock \in Locks
        /\ (Pending(n) \/ Queued(n, bindings[n].lock))
    BY <1>1, <1>2 DEF SlotsExact
  <2>2. CASE Queued(n, bindings[n].lock)
    <3>1. \A l \in Locks : l = bindings'[n].lock /\ Queued(n, l)' => Queued(n, bindings[n].lock)'
      BY DEF Queued
    <3>2. QED
      BY <1>2, <2>1, <2>2, <3>1
  <2>3. CASE Pending(n) /\ n[1] = h
    BY <1>2, <2>1, <2>3
  <2>4. CASE Pending(n) /\ n[1] # h
    <3>1. n[1] \in Harts \ {h}
      BY <2>4, Names
    <3>2. QED
      BY <1>2, <2>1, <2>4, <3>1 DEF Pending, OthersRest
  <2>5. QED
    BY <2>1, <2>2, <2>3, <2>4
<1>3. \A n, m \in Nodes : bindings'[n].in_use /\ bindings'[m].in_use /\ m[1] = n[1]
        /\ bindings'[m].lock = bindings'[n].lock => m = n
  BY <1>1 DEF SlotsExact
<1>4. QED
  BY <1>2, <1>3 DEF SlotsExact
------------------------------------------------------------------------------
LEMMA ReturnRests ==
  ASSUME Types, NEW h \in Harts, Return(h)
  PROVE  /\ OthersRest(h) /\ pc' \in [Harts -> Labels] /\ pc'[h] = "idle"
         /\ cur' \in [Harts -> Locks \cup {NULL}] /\ me' \in [Harts -> Nodes \cup {NULL}]
         /\ pred' \in [Harts -> Nodes \cup {NULL}] /\ succ' \in [Harts -> Nodes \cup {NULL}]
         /\ me'[h] = NULL /\ LocalsExact(h)'
<1>1. /\ OthersRest(h) /\ pc' \in [Harts -> Labels] /\ pc'[h] = "idle"
      /\ cur' \in [Harts -> Locks \cup {NULL}] /\ me' \in [Harts -> Nodes \cup {NULL}]
      /\ pred' \in [Harts -> Nodes \cup {NULL}] /\ succ' \in [Harts -> Nodes \cup {NULL}]
      /\ me'[h] = NULL
  BY DEF Return, Goto, OthersRest, Types, Labels
<1>2. LocalsExact(h)'
  BY <1>1 DEF LocalsExact
<1>3. QED
  BY <1>1, <1>2

(* A step that changes no node and no queue, of a hart that has no node    *)
(* pending and waits in no queue.                                          *)
LEMMA QuietStep ==
  ASSUME McsInv, Types', NEW h \in Harts, OthersRest(h), UNCHANGED <<tail, bindings, order>>,
         pc[h] \notin {"swap", "trycas"}, LocalsExact(h)',
         \A l \in Locks : /\ \A i \in 1..Len(order[l]) : i # 1 => me[h] # order[l][i]
                          /\ order[l] # << >> /\ me'[h] = order[l][1]
                               => pc'[h] \in {"wait", "cas", "linkage", "handoff"}
  PROVE  McsInv'
<1>1. \A l \in Locks : QueueShape(l)'
  BY QueueKept
<1>2. \A n, l : Queued(n, l)' <=> Queued(n, l)
  BY DEF Queued
<1>3. SlotsExact'
  BY <1>2, SlotsKept DEF Pending
<1>4. ASSUME NEW g \in Harts \ {h} PROVE LocalsExact(g)'
  <2>1. /\ pc[g] \in {"lock", "link"} => order'[cur[g]][1] # me[g]
        /\ pc[g] \in {"cas", "linkage", "handoff"} => order'[cur[g]] # << >> /\ order'[cur[g]][1] = me[g]
    BY DEF McsInv, LocalsExact
  <2>2. Queued(me[g], cur[g])' <=> Queued(me[g], cur[g])
    BY DEF Queued, OthersRest
  <2>3. QED
    BY <2>1, <2>2, LocalsKept
<1>5. QED
  BY <1>1, <1>3, <1>4 DEF McsInv

LEMMA CallInv ==
  ASSUME McsInv, NEW h \in Harts, NEW l \in Locks, NEW label \in {"bind", "trybind"}, Call(h, l, label)
  PROVE  McsInv'
<1>1. OthersRest(h) /\ UNCHANGED <<tail, bindings, order>> /\ Types'
  BY DEF Call, Goto, OthersRest, McsInv, Types, Labels
<1>2. me[h] = NULL /\ me'[h] = NULL /\ pc[h] = "idle" /\ pc'[h] = label /\ cur'[h] = l
  BY DEF Call, Goto, McsInv, Types, LocalsExact
<1>3. \A n \in Bound(h)' : bindings'[n].lock < l
  BY <1>1 DEF Call, Bound
<1>4. LocalsExact(h)'
  BY <1>2, <1>3 DEF LocalsExact
<1>5. \A k \in Locks : \A i \in 1..Len(order[k]) : order[k][i] # NULL
  BY Names DEF McsInv, Types
<1>6. \A k \in Locks : order[k] # << >> => order[k][1] # NULL
  BY Names DEF McsInv, Types
<1>7. QED
  BY <1>1, <1>2, <1>4, <1>5, <1>6, QuietStep

(* The first node of the queue of a hart's lock, and its node's position.  *)
LEMMA OwnPosition ==
  ASSUME McsInv, NEW h \in Harts, NEW l \in Locks, NEW i \in 1..Len(order[l]), i # 1,
         pc[h] \notin {"lock", "link", "wait"} \/ (pc[h] = "wait" /\ ~bindings[me[h]].locked)
  PROVE  me[h] # order[l][i]
<1>1. WaitsBehind(order[l][i], order[l][i - 1]) /\ order[l][i] # NULL
  BY QueuedWaits, Names
<1>2. me[h] # NULL => me[h][1] = h
  BY DEF McsInv, LocalsExact
<1>3. SUFFICES ASSUME me[h] = order[l][i] PROVE FALSE
  OBVIOUS
<1>4. order[l][i][1] = h
  BY <1>1, <1>2, <1>3
<1>5. pc[h] = "lock" \/ (pc[h] \in {"link", "wait"} /\ bindings[me[h]].locked)
  BY <1>1, <1>3, <1>4 DEF WaitsBehind
<1>6. QED
  BY <1>5

LEMMA NoNullQueued ==
  ASSUME Types, NEW l \in Locks
  PROVE  /\ \A i \in 1..Len(order[l]) : order[l][i] # NULL /\ order[l][i] \in Nodes
         /\ order[l] # << >> => order[l][1] # NULL /\ 1 \in 1..Len(order[l])
         /\ Len(order[l]) \in Nat
BY Names DEF Types

LEMMA WaitInv == ASSUME McsInv, NEW h \in Harts, Wait(h) PROVE McsInv'
<1>1. pc[h] = "wait" /\ ~bindings[me[h]].locked /\ Return(h) /\ UNCHANGED <<tail, bindings, order>>
  BY DEF Wait
<1>2. OthersRest(h) /\ me'[h] = NULL /\ LocalsExact(h)'
  BY <1>1, ReturnRests DEF McsInv
<1>3. Types'
  BY <1>1, ReturnRests DEF McsInv, Types
<1>4. \A l \in Locks : \A i \in 1..Len(order[l]) : i # 1 => me[h] # order[l][i]
  BY <1>1, OwnPosition
<1>5. \A l \in Locks : order[l] # << >> => me'[h] # order[l][1]
  BY <1>2, NoNullQueued DEF McsInv
<1>6. QED
  BY <1>1, <1>2, <1>3, <1>4, <1>5, QuietStep

LEMMA ReleaseInv == ASSUME McsInv, NEW h \in Harts, NEW l \in Locks, Release(h, l) PROVE McsInv'
<1>1. PICK n \in Bound(h) : /\ bindings[n].lock = l /\ me' = [me EXCEPT ![h] = n]
                            /\ succ' = [succ EXCEPT ![h] = bindings[n].next]
                            /\ Goto(h, IF bindings[n].next = NULL THEN "cas" ELSE "handoff")
  BY DEF Release
<1>2. n \in Nodes /\ n[1] = h /\ bindings[n].in_use /\ n # NULL
  BY Names DEF Bound
<1>3. pc[h] = "idle" /\ me[h] = NULL /\ cur' = [cur EXCEPT ![h] = l] /\ UNCHANGED <<tail, bindings, order, pred>>
  BY DEF Release, McsInv, LocalsExact
<1>4. /\ pc'[h] = (IF bindings[n].next = NULL THEN "cas" ELSE "handoff")
      /\ cur'[h] = l /\ me'[h] = n /\ succ'[h] = bindings[n].next
  BY <1>1, <1>3 DEF Goto, McsInv, Types
<1>5. OthersRest(h)
  BY <1>1, <1>3 DEF Goto, OthersRest, McsInv, Types
<1>6. Types'
  <2>1. bindings[n].next \in Nodes \cup {NULL}
    BY <1>2 DEF McsInv, Types, Slots
  <2>2. QED
    BY <1>1, <1>2, <1>3, <2>1 DEF Goto, McsInv, Types, Labels
<1>7. order[l] # << >> /\ order[l][1] = n
  <2>1. Queued(n, l)
    BY <1>1, <1>2, <1>3 DEF McsInv, SlotsExact, Pending
  <2>2. PICK i \in 1..Len(order[l]) : order[l][i] = n
    BY <2>1 DEF Queued
  <2>3. i = 1
    BY <1>2, <1>3, <2>2, QueuedWaits DEF WaitsBehind
  <2>4. QED
    BY <2>2, <2>3, NoNullQueued DEF McsInv
<1>8. LocalsExact(h)'
  BY <1>1, <1>2, <1>3, <1>4, <1>7 DEF LocalsExact
<1>9. \A k \in Locks : \A i \in 1..Len(order[k]) : order[k][i] # me[h]
  BY <1>3, NoNullQueued DEF McsInv
<1>10. QED
  BY <1>3, <1>4, <1>5, <1>6, <1>8, <1>9, QuietStep

LEMMA LinkageInv == ASSUME McsInv, NEW h \in Harts, Linkage(h) PROVE McsInv'
<1>1. /\ pc[h] = "linkage" /\ bindings[me[h]].next # NULL
      /\ UNCHANGED <<tail, bindings, cur, me, pred, order>>
      /\ succ' = [succ EXCEPT ![h] = bindings[me[h]].next] /\ Goto(h, "handoff")
  BY DEF Linkage
<1>2. me[h] \in Nodes /\ LocalsExact(h) /\ bindings[me[h]].next \in Nodes \cup {NULL}
  BY <1>1 DEF McsInv, LocalsExact, Types, Slots
<1>3. OthersRest(h) /\ Types' /\ pc'[h] = "handoff" /\ succ'[h] = bindings[me[h]].next
  BY <1>1, <1>2 DEF Goto, OthersRest, McsInv, Types, Labels
<1>4. LocalsExact(h)'
  BY <1>1, <1>2, <1>3 DEF LocalsExact
<1>5. \A l \in Locks : \A i \in 1..Len(order[l]) : i # 1 => me[h] # order[l][i]
  BY <1>1, OwnPosition
<1>6. QED
  BY <1>1, <1>3, <1>4, <1>5, QuietStep

LEMMA CasLostInv == ASSUME McsInv, NEW h \in Harts, Cas(h), tail[cur[h]] # me[h] PROVE McsInv'
<1>1. pc[h] = "cas" /\ Goto(h, "linkage") /\ UNCHANGED <<tail, bindings, locals, order>>
  BY DEF Cas
<1>2. me[h] \in Nodes /\ LocalsExact(h)
  BY <1>1 DEF McsInv, LocalsExact, Types
<1>3. OthersRest(h) /\ Types' /\ pc'[h] = "linkage" /\ UNCHANGED <<me, cur, pred, succ>>
  BY <1>1, <1>2 DEF Goto, OthersRest, McsInv, Types, Labels, locals
<1>4. LocalsExact(h)'
  BY <1>1, <1>2, <1>3 DEF LocalsExact
<1>5. \A l \in Locks : \A i \in 1..Len(order[l]) : i # 1 => me[h] # order[l][i]
  BY <1>1, OwnPosition
<1>6. QED
  BY <1>1, <1>3, <1>4, <1>5, QuietStep
------------------------------------------------------------------------------
(* A step that binds, unbinds or writes to nodes of no queue, but leaves   *)
(* the queues alone: what it must show for the other harts.                *)
LEMMA OthersLocals ==
  ASSUME McsInv, NEW h \in Harts, OthersRest(h), order' = order,
         \A n \in Nodes : n[1] # h => bindings'[n] = bindings[n],
         NEW g \in Harts \ {h}
  PROVE  LocalsExact(g)'
<1>1. /\ pc[g] \in {"lock", "link"} => order'[cur[g]][1] # me[g]
      /\ pc[g] \in {"cas", "linkage", "handoff"} => order'[cur[g]] # << >> /\ order'[cur[g]][1] = me[g]
  BY DEF McsInv, LocalsExact
<1>2. Queued(me[g], cur[g])' <=> Queued(me[g], cur[g])
  BY DEF Queued, OthersRest
<1>3. pc[g] = "handoff" => me[g] \in Nodes /\ me[g][1] # h
  BY DEF McsInv, Types, LocalsExact
<1>4. QED
  BY <1>1, <1>2, <1>3, LocalsKept

LEMMA BindInv == ASSUME McsInv, NEW h \in Harts, Bind(h) PROVE McsInv'
<1>1. PICK i \in FreeSlots(h) :
        /\ bindings' = [bindings EXCEPT ![<<h, i>>] =
                          [in_use |-> TRUE, lock |-> cur[h], next |-> NULL, locked |-> FALSE]]
        /\ me' = [me EXCEPT ![h] = <<h, i>>]
  BY DEF Bind
<1> DEFINE n == <<h, i>>
<1>2. n \in Nodes /\ n[1] = h /\ ~bindings[n].in_use /\ n # NULL
  <2>1. i \in 0..(MCS_TLS_SLOTS - 1) /\ ~bindings[n].in_use
    BY <1>1, McsAssumption DEF FreeSlots, Harts
  <2>2. QED
    BY <2>1, Names DEF Nodes
<1>3. /\ pc[h] \in {"bind", "trybind"} /\ UNCHANGED <<tail, cur, pred, succ, order>>
      /\ Goto(h, IF pc[h] = "bind" THEN "swap" ELSE "trycas")
  BY DEF Bind
<1>4. me[h] = NULL /\ cur[h] \in Locks /\ \A m \in Bound(h) : bindings[m].lock < cur[h]
  BY <1>3 DEF McsInv, LocalsExact
<1> HIDE DEF n
<1>5. /\ bindings' = [bindings EXCEPT ![n] = [in_use |-> TRUE, lock |-> cur[h], next |-> NULL, locked |-> FALSE]]
      /\ me' = [me EXCEPT ![h] = n]
  BY <1>1 DEF n
<1>6. Types'
  <2>1. [in_use |-> TRUE, lock |-> cur[h], next |-> NULL, locked |-> FALSE] \in Slots
    BY <1>4 DEF Slots
  <2>2. bindings' \in [Nodes -> Slots]
    BY <1>5, <2>1 DEF McsInv, Types
  <2>3. QED
    BY <1>2, <1>3, <1>5, <2>2 DEF McsInv, Types, Goto, Labels
<1>7. OthersRest(h) /\ me'[h] = n /\ pc'[h] \in {"swap", "trycas"} /\ cur'[h] = cur[h]
  BY <1>2, <1>3, <1>5 DEF OthersRest, Goto, McsInv, Types
<1>8. /\ \A m \in Nodes : m # n => bindings'[m] = bindings[m]
      /\ bindings'[n].in_use /\ bindings'[n].lock = cur[h] /\ bindings'[n].next = NULL /\ ~bindings'[n].locked
  BY <1>2, <1>5 DEF McsInv, Types
<1>9. \A l \in Locks : ~Queued(n, l) /\ ~Queued(n, l)'
  BY <1>2, <1>3, QueuedBound DEF Queued
<1>10. ASSUME NEW l \in Locks PROVE QueueShape(l)'
  <2>1. \A m \in Nodes : Queued(m, l) => bindings'[m] = bindings[m]
    BY <1>8, <1>9
  <2>2. \A j \in 1..Len(order[l]) : me[h] # order[l][j] /\ order[l][j] # n
    BY <1>4, <1>9, NoNullQueued DEF Queued, McsInv
  <2>3. order[l] # << >> => order[l][1] # n
    BY <2>2, NoNullQueued DEF McsInv
  <2>4. QED
    BY <1>3, <1>7, <2>1, <2>2, <2>3, QueueKept
<1>11. SlotsExact'
  <2>1. Pending(n)'
    BY <1>2, <1>7, <1>8 DEF Pending
  <2>2. ASSUME NEW m \in Nodes, m # n, bindings'[m].in_use
        PROVE  bindings'[m].lock \in Locks /\ (Pending(m)' \/ Queued(m, bindings[m].lock)')
    <3>1. bindings'[m] = bindings[m] /\ bindings[m].lock \in Locks /\ m[1] \in Harts
          /\ (Pending(m) \/ Queued(m, bindings[m].lock))
      BY <1>8, <2>2, Names DEF McsInv, SlotsExact
    <3>2. m[1] = h => ~Pending(m)
      BY <1>3 DEF Pending
    <3>3. Pending(m) => Pending(m)'
      BY <1>7, <3>1, <3>2 DEF Pending, OthersRest
    <3>4. Queued(m, bindings[m].lock) => Queued(m, bindings[m].lock)'
      BY <1>3, <3>1 DEF Queued
    <3>5. QED
      BY <3>1, <3>3, <3>4
  <2>3. \A m \in Nodes : m # n /\ m[1] = h /\ bindings[m].in_use => bindings[m].lock # cur[h]
    <3>1. ASSUME NEW m \in Nodes, m[1] = h, bindings[m].in_use PROVE bindings[m].lock # cur[h]
      <4>1. bindings[m].lock < cur[h] /\ bindings[m].lock \in Nat /\ cur[h] \in Nat
        BY <1>4, <3>1, Names DEF Bound, McsInv, SlotsExact
      <4>2. QED
        BY <4>1
    <3>2. QED
      BY <3>1
  <2>4. ASSUME NEW m \in Nodes, NEW k \in Nodes, bindings'[m].in_use, bindings'[k].in_use, k[1] = m[1],
               bindings'[k].lock = bindings'[m].lock
        PROVE  k = m
    <3>1. CASE m # n /\ k # n
      BY <1>8, <2>4, <3>1 DEF McsInv, SlotsExact
    <3>2. CASE m = n /\ k # n
      BY <1>2, <1>8, <2>3, <2>4, <3>2
    <3>3. CASE m # n /\ k = n
      BY <1>2, <1>8, <2>3, <2>4, <3>3
    <3>4. QED
      BY <3>1, <3>2, <3>3
  <2>5. QED
    BY <1>4, <1>8, <2>1, <2>2, <2>4 DEF SlotsExact
<1>12. LocalsExact(h)'
  BY <1>2, <1>4, <1>7, <1>8, <1>9 DEF LocalsExact
<1>13. \A g \in Harts \ {h} : LocalsExact(g)'
  BY <1>2, <1>3, <1>7, <1>8, OthersLocals
<1>14. QED
  BY <1>6, <1>10, <1>11, <1>12, <1>13 DEF McsInv

LEMMA TryFailsInv == ASSUME McsInv, NEW h \in Harts, TryCas(h), tail[cur[h]] # NULL PROVE McsInv'
<1>1. pc[h] = "trycas" /\ bindings' = [bindings EXCEPT ![me[h]] = FreeSlot] /\ Return(h) /\ UNCHANGED <<tail, order>>
  BY DEF TryCas, Unbind
<1>2. me[h] \in Nodes /\ me[h][1] = h /\ bindings[me[h]].lock = cur[h] /\ cur[h] \in Locks /\ ~Queued(me[h], cur[h])
  BY <1>1 DEF McsInv, LocalsExact, Types
<1>3. OthersRest(h) /\ me'[h] = NULL /\ LocalsExact(h)'
  BY <1>1, ReturnRests DEF McsInv
<1>4. Types'
  <2>1. FreeSlot \in Slots
    BY DEF FreeSlot, Slots
  <2>2. bindings' \in [Nodes -> Slots]
    BY <1>1, <2>1 DEF McsInv, Types
  <2>3. QED
    BY <1>1, <2>2, ReturnRests DEF McsInv, Types
<1>5. (\A m \in Nodes : m # me[h] => bindings'[m] = bindings[m]) /\ ~bindings'[me[h]].in_use
  BY <1>1, <1>2 DEF McsInv, Types, FreeSlot
<1>6. \A l \in Locks : ~Queued(me[h], l)
  BY <1>2, QueuedBound
<1>7. ASSUME NEW l \in Locks PROVE QueueShape(l)'
  <2>1. \A m \in Nodes : Queued(m, l) => bindings'[m] = bindings[m]
    BY <1>5, <1>6
  <2>2. \A j \in 1..Len(order[l]) : me[h] # order[l][j]
    BY <1>6 DEF Queued
  <2>3. order[l] # << >> => order[l][1] # me'[h]
    BY <1>3, NoNullQueued DEF McsInv
  <2>4. QED
    BY <1>1, <1>3, <2>1, <2>2, <2>3, QueueKept
<1>8. SlotsExact'
  <2>1. \A m \in Nodes : bindings'[m].in_use => m # me[h] /\ bindings'[m] = bindings[m]
    BY <1>5
  <2>2. \A m, l : Queued(m, l)' <=> Queued(m, l)
    BY <1>1 DEF Queued
  <2>3. \A m \in Nodes : m[1] # h => bindings'[m] = bindings[m]
    BY <1>2, <1>5
  <2>4. \A m \in Nodes : m[1] = h /\ bindings'[m].in_use => ~Pending(m)
    BY <2>1 DEF Pending
  <2>5. QED
    BY <1>3, <2>1, <2>2, <2>3, <2>4, SlotsKept
<1>9. \A g \in Harts \ {h} : LocalsExact(g)'
  BY <1>1, <1>2, <1>3, <1>5, OthersLocals
<1>10. QED
  BY <1>3, <1>4, <1>7, <1>8, <1>9 DEF McsInv
------------------------------------------------------------------------------
(* Where a hart waits: it is not first, and its predecessor comes before.  *)
LEMMA WaitingPosition ==
  ASSUME McsInv, NEW h \in Harts, pc[h] \in {"lock", "link"}
  PROVE  /\ cur[h] \in Locks /\ me[h] \in Nodes /\ me[h][1] = h
         /\ \E p \in 1..Len(order[cur[h]]) :
               p # 1 /\ order[cur[h]][p] = me[h] /\ pred[h] = order[cur[h]][p - 1]
               /\ p - 1 \in 1..Len(order[cur[h]]) /\ pred[h] \in Nodes
<1>1. cur[h] \in Locks /\ me[h] \in Nodes /\ me[h][1] = h /\ Queued(me[h], cur[h])
      /\ order[cur[h]][1] # me[h]
  BY DEF McsInv, LocalsExact, Types
<1>2. PICK p \in 1..Len(order[cur[h]]) : order[cur[h]][p] = me[h]
  BY <1>1 DEF Queued
<1>3. p # 1
  BY <1>1, <1>2
<1>4. WaitsBehind(me[h], order[cur[h]][p - 1]) /\ p - 1 \in 1..Len(order[cur[h]]) /\ order[cur[h]][p - 1] \in Nodes
  BY <1>1, <1>2, <1>3, QueuedWaits
<1>5. QED
  BY <1>1, <1>2, <1>3, <1>4 DEF WaitsBehind

(* The queue that a hart waits in, after a step that makes it wait with    *)
(* its node locked and, unless it is now in "link", linked.                *)
LEMMA WaiterQueue ==
  ASSUME McsInv, NEW h \in Harts, NEW l \in Locks, OthersRest(h), order' = order, tail' = tail,
         me'[h] = me[h], pred'[h] = pred[h], pc[h] \in {"lock", "link"},
         NEW p \in 1..Len(order[l]), p # 1, order[l][p] = me[h], me[h] \in Nodes, me[h][1] = h,
         pred[h] = order[l][p - 1], p - 1 \in 1..Len(order[l]), l = cur[h],
         \A n \in Nodes : /\ bindings'[n].in_use <=> bindings[n].in_use
                          /\ bindings'[n].lock = bindings[n].lock
                          /\ n # me[h] => (bindings'[n].locked <=> bindings[n].locked)
                          /\ n # pred[h] => bindings'[n].next = bindings[n].next,
         pc'[h] \in {"link", "wait"}, bindings'[me[h]].locked,
         bindings'[pred[h]].next = IF pc'[h] = "wait" THEN me[h] ELSE NULL
  PROVE  QueueShape(l)'
<1>1. Len(order[l]) \in Nat /\ \A i \in 1..Len(order[l]) : order[l][i] \in Nodes /\ order[l][i][1] \in Harts
  BY Names DEF McsInv, Types
<1>2. QueueShape(l)
  BY DEF McsInv
<1>3. ASSUME NEW i \in 1..Len(order[l]), i # 1, i # p
      PROVE  order[l][i][1] \in Harts \ {h} /\ order[l][i] # me[h]
  <2>1. order[l][i] # me[h]
    BY <1>2, <1>3 DEF QueueShape
  <2>2. WaitsBehind(order[l][i], order[l][i - 1])
    BY <1>3, QueuedWaits
  <2>3. QED
    BY <1>1, <2>1, <2>2 DEF WaitsBehind
<1>4. ASSUME NEW i \in 1..Len(order[l])
      PROVE  IF i = 1 THEN HasLock(order[l][i])' ELSE WaitsBehind(order[l][i], order[l][i - 1])'
  <2>1. CASE i = 1
    <3>1. order[l][i] # me[h] /\ HasLock(order[l][i])
      BY <1>2, <2>1 DEF QueueShape
    <3>2. QED
      BY <1>1, <2>1, <3>1 DEF HasLock, OthersRest
  <2>2. CASE i = p
    BY <2>2 DEF WaitsBehind
  <2>3. CASE i # 1 /\ i # p
    <3>1. WaitsBehind(order[l][i], order[l][i - 1]) /\ order[l][i] \in Nodes
      BY <2>3, QueuedWaits
    <3>2. order[l][i][1] \in Harts \ {h} /\ order[l][i] # me[h]
      BY <1>3, <2>3
    <3>3. QED
      BY <2>3, <3>1, <3>2 DEF WaitsBehind, OthersRest
  <2>4. QED
    BY <2>1, <2>2, <2>3
<1>5. ASSUME NEW i \in 1..Len(order[l])
      PROVE  bindings'[order[l][i]].next =
               IF i < Len(order[l]) /\ pc'[order[l][i + 1][1]] = "wait" THEN order[l][i + 1] ELSE NULL
  <2>1. CASE i = p - 1
    <3>1. i < Len(order[l]) /\ i + 1 = p
      BY <1>1, <2>1
    <3>2. QED
      BY <2>1, <3>1
  <2>2. CASE i # p - 1
    <3>1. order[l][i] # pred[h] /\ order[l][i] \in Nodes
      BY <1>1, <1>2, <2>2 DEF QueueShape
    <3>2. i < Len(order[l]) => pc'[order[l][i + 1][1]] = pc[order[l][i + 1][1]]
      <4>1. i < Len(order[l]) => i + 1 \in 1..Len(order[l]) /\ i + 1 # 1 /\ i + 1 # p
        BY <1>1, <2>2
      <4>2. QED
        BY <1>3, <4>1 DEF OthersRest
    <3>3. bindings[order[l][i]].next =
            IF i < Len(order[l]) /\ pc[order[l][i + 1][1]] = "wait" THEN order[l][i + 1] ELSE NULL
      BY <1>2 DEF QueueShape
    <3>4. bindings'[order[l][i]].next = bindings[order[l][i]].next
      BY <3>1
    <3>5. QED
      BY <3>2, <3>3, <3>4
  <2>3. QED
    BY <2>1, <2>2
<1>6. \A i \in 1..Len(order[l]) :
        /\ bindings'[order[l][i]].in_use /\ bindings'[order[l][i]].lock = l
        /\ \A j \in 1..Len(order[l]) : order[l][j] = order[l][i] => j = i
  <2>1. \A i \in 1..Len(order[l]) : bindings[order[l][i]].in_use /\ bindings[order[l][i]].lock = l
    BY <1>2 DEF QueueShape
  <2>2. \A i \in 1..Len(order[l]) : \A j \in 1..Len(order[l]) : order[l][j] = order[l][i] => j = i
    BY <1>2 DEF QueueShape
  <2>3. \A i \in 1..Len(order[l]) : bindings'[order[l][i]].in_use /\ bindings'[order[l][i]].lock = l
    BY <1>1, <2>1
  <2>4. QED
    BY <2>2, <2>3
<1>7. tail'[l] = IF order[l] = << >> THEN NULL ELSE order[l][Len(order[l])]
  BY <1>2 DEF QueueShape
<1>8. QED
  BY <1>4, <1>5, <1>6, <1>7 DEF QueueShape

(* The rest of the invariant, for the same steps.                          *)
LEMMA WaiterRest ==
  ASSUME McsInv, NEW h \in Harts, OthersRest(h), order' = order, pc[h] \in {"lock", "link"},
         \A n \in Nodes : /\ bindings'[n].in_use <=> bindings[n].in_use
                          /\ bindings'[n].lock = bindings[n].lock
                          /\ n # me[h] => (bindings'[n].locked <=> bindings[n].locked)
                          /\ n # me[h] /\ Pending(n) => bindings'[n].next = bindings[n].next,
         \A g \in Harts \ {h} : pc[g] = "handoff" => bindings'[me[g]].next = bindings[me[g]].next
  PROVE  SlotsExact' /\ \A g \in Harts \ {h} : LocalsExact(g)'
<1>1. \A n, l : Queued(n, l)' <=> Queued(n, l)
  BY DEF Queued
<1>2. me[h] # NULL => me[h][1] = h
  BY DEF McsInv, LocalsExact
<1>3. SlotsExact'
  <2>1. \A n \in Nodes : n[1] = h => ~Pending(n)
    BY DEF Pending
  <2>2. \A n \in Nodes : n[1] # h => n # me[h]
    BY <1>2, Names
  <2>3. QED
    BY <1>1, <2>1, <2>2, SlotsKept
<1>4. ASSUME NEW g \in Harts \ {h} PROVE LocalsExact(g)'
  <2>1. /\ pc[g] \in {"lock", "link"} => order'[cur[g]][1] # me[g]
        /\ pc[g] \in {"cas", "linkage", "handoff"} => order'[cur[g]] # << >> /\ order'[cur[g]][1] = me[g]
    BY DEF McsInv, LocalsExact
  <2>2. Queued(me[g], cur[g])' <=> Queued(me[g], cur[g])
    BY DEF Queued, OthersRest
  <2>3. QED
    BY <2>1, <2>2, LocalsKept
<1>5. QED
  BY <1>3, <1>4

LEMMA SetLockedInv == ASSUME McsInv, NEW h \in Harts, SetLocked(h) PROVE McsInv'
<1>1. /\ pc[h] = "lock" /\ bindings' = [bindings EXCEPT ![me[h]].locked = TRUE]
      /\ Goto(h, "link") /\ UNCHANGED <<tail, cur, me, pred, succ, order>>
  BY DEF SetLocked, locals
<1>2. cur[h] \in Locks /\ me[h] \in Nodes /\ me[h][1] = h
  BY <1>1, WaitingPosition
<1>3. PICK p \in 1..Len(order[cur[h]]) :
        p # 1 /\ order[cur[h]][p] = me[h] /\ pred[h] = order[cur[h]][p - 1]
        /\ p - 1 \in 1..Len(order[cur[h]]) /\ pred[h] \in Nodes
  BY <1>1, WaitingPosition
<1>4. OthersRest(h) /\ pc' \in [Harts -> Labels] /\ pc'[h] = "link"
  BY <1>1 DEF Goto, OthersRest, McsInv, Types, Labels
<1>5. /\ bindings' \in [Nodes -> Slots] /\ bindings'[me[h]].locked
      /\ \A n \in Nodes : /\ bindings'[n].in_use <=> bindings[n].in_use
                          /\ bindings'[n].lock = bindings[n].lock /\ bindings'[n].next = bindings[n].next
                          /\ n # me[h] => (bindings'[n].locked <=> bindings[n].locked)
  BY <1>1, <1>2 DEF McsInv, Types, Slots
<1>6. Types'
  BY <1>1, <1>4, <1>5 DEF McsInv, Types
<1>7. bindings[pred[h]].next = NULL
  <2>1. p - 1 < Len(order[cur[h]]) /\ p - 1 + 1 = p
    BY <1>3 DEF McsInv, Types
  <2>2. bindings[order[cur[h]][p - 1]].next =
          IF p - 1 < Len(order[cur[h]]) /\ pc[order[cur[h]][p - 1 + 1][1]] = "wait"
          THEN order[cur[h]][p - 1 + 1] ELSE NULL
    BY <1>2, <1>3 DEF McsInv, QueueShape
  <2>3. QED
    BY <1>1, <1>2, <1>3, <2>1, <2>2
<1>8. ASSUME NEW l \in Locks PROVE QueueShape(l)'
  <2>1. CASE l = cur[h]
    BY <1>1, <1>2, <1>3, <1>4, <1>5, <1>7, <2>1, WaiterQueue
  <2>2. CASE l # cur[h]
    BY <1>1, <1>2, <1>4, <2>2, OtherQueues, Names DEF McsInv, Types
  <2>3. QED
    BY <2>1, <2>2
<1>9. SlotsExact' /\ \A g \in Harts \ {h} : LocalsExact(g)'
  <2>1. \A g \in Harts \ {h} : pc[g] = "handoff" => me[g] \in Nodes
    BY DEF McsInv, Types, LocalsExact
  <2>2. QED
    BY <1>1, <1>4, <1>5, <2>1, WaiterRest
<1>10. LocalsExact(h)'
  BY <1>1, <1>2, <1>4, <1>5 DEF McsInv, LocalsExact, Queued
<1>11. QED
  BY <1>6, <1>8, <1>9, <1>10 DEF McsInv

LEMMA LinkInv == ASSUME McsInv, NEW h \in Harts, Link(h) PROVE McsInv'
<1>1. /\ pc[h] = "link" /\ bindings' = [bindings EXCEPT ![pred[h]].next = me[h]]
      /\ Goto(h, "wait") /\ UNCHANGED <<tail, cur, me, pred, succ, order>>
  BY DEF Link, locals
<1>2. cur[h] \in Locks /\ me[h] \in Nodes /\ me[h][1] = h
  BY <1>1, WaitingPosition
<1>3. PICK p \in 1..Len(order[cur[h]]) :
        p # 1 /\ order[cur[h]][p] = me[h] /\ pred[h] = order[cur[h]][p - 1]
        /\ p - 1 \in 1..Len(order[cur[h]]) /\ pred[h] \in Nodes
  BY <1>1, WaitingPosition
<1>4. OthersRest(h) /\ pc' \in [Harts -> Labels] /\ pc'[h] = "wait"
  BY <1>1 DEF Goto, OthersRest, McsInv, Types, Labels
<1>5. /\ bindings' \in [Nodes -> Slots] /\ bindings'[pred[h]].next = me[h]
      /\ \A n \in Nodes : /\ bindings'[n].in_use <=> bindings[n].in_use
                          /\ bindings'[n].lock = bindings[n].lock
                          /\ bindings'[n].locked <=> bindings[n].locked
                          /\ n # pred[h] => bindings'[n].next = bindings[n].next
  <2>1. bindings \in [Nodes -> Slots] /\ pred[h] \in Nodes /\ me[h] \in Nodes
    BY <1>2, <1>3 DEF McsInv, Types
  <2>2. [bindings[pred[h]] EXCEPT !.next = me[h]] \in Slots
    BY <2>1 DEF Slots
  <2>3. bindings' = [bindings EXCEPT ![pred[h]] = [bindings[pred[h]] EXCEPT !.next = me[h]]]
    BY <1>1
  <2>4. bindings' \in [Nodes -> Slots] /\ bindings'[pred[h]] = [bindings[pred[h]] EXCEPT !.next = me[h]]
    BY <2>1, <2>2, <2>3
  <2>5. \A n \in Nodes : n # pred[h] => bindings'[n] = bindings[n]
    BY <2>1, <2>3
  <2>6. bindings[pred[h]] \in Slots
    BY <2>1
  <2>7. QED
    BY <2>4, <2>5, <2>6 DEF Slots
<1>6. Types'
  BY <1>1, <1>4, <1>5 DEF McsInv, Types
<1>7. bindings[me[h]].locked /\ bindings[pred[h]].next = NULL
  <2>1. p - 1 < Len(order[cur[h]]) /\ p - 1 + 1 = p
    BY <1>3 DEF McsInv, Types
  <2>2. bindings[order[cur[h]][p - 1]].next =
          IF p - 1 < Len(order[cur[h]]) /\ pc[order[cur[h]][p - 1 + 1][1]] = "wait"
          THEN order[cur[h]][p - 1 + 1] ELSE NULL
    BY <1>2, <1>3 DEF McsInv, QueueShape
  <2>3. WaitsBehind(me[h], pred[h])
    BY <1>2, <1>3, QueuedWaits
  <2>4. QED
    BY <1>1, <1>2, <1>3, <2>1, <2>2, <2>3 DEF WaitsBehind
<1>8. ASSUME NEW l \in Locks PROVE QueueShape(l)'
  <2>1. CASE l = cur[h]
    <3>1. bindings'[me[h]].locked /\ bindings'[pred[h]].next = IF pc'[h] = "wait" THEN me[h] ELSE NULL
      BY <1>2, <1>4, <1>5, <1>7
    <3>2. \A n \in Nodes : /\ bindings'[n].in_use <=> bindings[n].in_use
                           /\ bindings'[n].lock = bindings[n].lock
                           /\ n # me[h] => (bindings'[n].locked <=> bindings[n].locked)
                           /\ n # pred[h] => bindings'[n].next = bindings[n].next
      BY <1>5
    <3>3. order' = order /\ tail' = tail /\ me'[h] = me[h] /\ pred'[h] = pred[h]
      BY <1>1
    <3>4. QED
      BY <1>1, <1>2, <1>3, <1>4, <2>1, <3>1, <3>2, <3>3, WaiterQueue
  <2>2. CASE l # cur[h]
    <3>1. Queued(pred[h], cur[h])
      BY <1>3 DEF Queued
    <3>2. \A n \in Nodes : Queued(n, cur[h]) \/ n = me[h] \/ bindings'[n] = bindings[n]
      BY <1>1, <3>1 DEF McsInv, Types
    <3>3. QED
      BY <1>1, <1>2, <1>4, <2>2, <3>2, OtherQueues, Names
  <2>3. QED
    BY <2>1, <2>2
<1>9. SlotsExact' /\ \A g \in Harts \ {h} : LocalsExact(g)'
  <2>1. \A g \in Harts \ {h} : pc[g] = "handoff" => bindings'[me[g]].next = bindings[me[g]].next
    <3>1. \A g \in Harts : pc[g] = "handoff" => me[g] \in Nodes /\ bindings[me[g]].next # NULL
      BY DEF McsInv, Types, LocalsExact
    <3>2. QED
      BY <1>5, <1>7, <3>1
  <2>2. \A n \in Nodes : Pending(n) => n # pred[h]
    BY <1>2, <1>3, PendingNotQueued DEF Queued
  <2>3. QED
    BY <1>1, <1>4, <1>5, <2>1, <2>2, WaiterRest
<1>10. LocalsExact(h)'
  BY <1>1, <1>2, <1>4, <1>5 DEF McsInv, LocalsExact, Queued
<1>11. QED
  BY <1>6, <1>8, <1>9, <1>10 DEF McsInv
------------------------------------------------------------------------------
LEMMA AppendFacts ==
  ASSUME NEW S, NEW q \in Seq(S), NEW n \in S
  PROVE  /\ Append(q, n) \in Seq(S) /\ Len(q) \in Nat /\ Len(Append(q, n)) = Len(q) + 1
         /\ Append(q, n) # << >> /\ Append(q, n)[Len(q) + 1] = n
         /\ \A i \in 1..Len(q) : Append(q, n)[i] = q[i]
         /\ q = << >> => Len(q) = 0
OBVIOUS

(* A hart's node joins the queue of its lock: the hart has the lock and    *)
(* returns, or it has a predecessor.                                       *)
LEMMA JoinInv ==
  ASSUME McsInv, Types', NEW h \in Harts, pc[h] \in {"swap", "trycas"}, OthersRest(h), bindings' = bindings,
         Joins(h), tail' = [tail EXCEPT ![cur[h]] = me[h]], LocalsExact(h)',
         me'[h] \in {NULL, me[h]},
         IF order[cur[h]] = << >> THEN me'[h] = NULL
         ELSE me'[h] = me[h] /\ pc'[h] = "lock" /\ pred'[h] = order[cur[h]][Len(order[cur[h]])]
  PROVE  McsInv'
<1>1. /\ me[h] \in Nodes /\ me[h][1] = h /\ cur[h] \in Locks /\ bindings[me[h]].in_use
      /\ bindings[me[h]].lock = cur[h] /\ ~Queued(me[h], cur[h]) /\ me[h] # NULL
  BY DEF McsInv, LocalsExact, Types
<1>2. bindings[me[h]].next = NULL /\ ~bindings[me[h]].locked
  BY <1>1 DEF McsInv, SlotsExact, Pending
<1>3. /\ order'[cur[h]] = Append(order[cur[h]], me[h]) /\ tail'[cur[h]] = me[h]
      /\ \A l \in Locks : l # cur[h] => order'[l] = order[l] /\ tail'[l] = tail[l]
  BY <1>1 DEF Joins, McsInv, Types
<1> DEFINE c == cur[h]
           q == order[c]
           r == order'[c]
<1>4. /\ Len(q) \in Nat /\ Len(r) = Len(q) + 1 /\ r # << >> /\ r[Len(q) + 1] = me[h]
      /\ \A i \in 1..Len(q) : r[i] = q[i]
      /\ q = << >> => Len(q) = 0
  BY <1>1, <1>3, AppendFacts DEF McsInv, Types
<1>5. \A i \in 1..Len(q) : q[i] \in Nodes /\ q[i] # me[h] /\ q[i][1] \in Harts /\ q[i] # NULL
  BY <1>1, Names DEF Queued, McsInv, Types
<1>6. QueueShape(c)
  BY <1>1 DEF McsInv
<1>7. ASSUME NEW i \in 1..Len(q), i # 1
      PROVE  q[i][1] \in Harts \ {h} /\ WaitsBehind(q[i], q[i - 1]) /\ i - 1 \in 1..Len(q)
  BY <1>1, <1>5, <1>7, QueuedWaits DEF WaitsBehind
<1>8. ASSUME NEW i \in 1..Len(r)
      PROVE  /\ bindings'[r[i]].in_use /\ bindings'[r[i]].lock = c
             /\ \A j \in 1..Len(r) : r[j] = r[i] => j = i
  <2>1. \A j \in 1..Len(r) : j \in 1..Len(q) \/ j = Len(q) + 1
    BY <1>4
  <2>2. \A j \in 1..Len(q) : bindings[q[j]].in_use /\ bindings[q[j]].lock = c
    BY <1>6 DEF QueueShape
  <2>3. \A j \in 1..Len(q) : \A k \in 1..Len(q) : q[k] = q[j] => k = j
    BY <1>6 DEF QueueShape
  <2> HIDE DEF q, r, c
  <2>4. QED
    BY <1>1, <1>4, <1>5, <2>1, <2>2, <2>3 DEF c
<1>9. ASSUME NEW i \in 1..Len(r)
      PROVE  IF i = 1
             THEN /\ ~bindings'[r[i]].locked
                  /\ me'[r[i][1]] = r[i] => pc'[r[i][1]] \in {"wait", "cas", "linkage", "handoff"}
             ELSE /\ me'[r[i][1]] = r[i] /\ pred'[r[i][1]] = r[i - 1]
                  /\ \/ pc'[r[i][1]] = "lock"
                     \/ pc'[r[i][1]] \in {"link", "wait"} /\ bindings'[r[i]].locked
  <2>1. CASE i \in 1..Len(q) /\ i = 1
    <3>1. HasLock(q[i]) /\ r[i] = q[i] /\ q[i] \in Nodes /\ q[i] # me[h] /\ q[i] # NULL
      BY <1>4, <1>5, <1>6, <2>1 DEF QueueShape
    <3>2. q[i][1] = h => me'[h] # q[i]
      BY <3>1
    <3>3. q[i][1] # h => q[i][1] \in Harts \ {h}
      BY <1>5, <2>1
    <3> HIDE DEF q, r, c
    <3>4. QED
      BY <2>1, <3>1, <3>2, <3>3 DEF HasLock, OthersRest
  <2>2. CASE i \in 1..Len(q) /\ i # 1
    <3>1. q[i][1] \in Harts \ {h} /\ WaitsBehind(q[i], q[i - 1]) /\ r[i] = q[i] /\ r[i - 1] = q[i - 1]
      BY <1>4, <1>7, <2>2
    <3> HIDE DEF q, r, c
    <3>2. QED
      BY <2>2, <3>1 DEF WaitsBehind, OthersRest
  <2>3. CASE i = Len(q) + 1 /\ Len(q) = 0
    <3>1. q = << >> /\ me'[h] = NULL
      BY <1>1, <2>3 DEF McsInv, Types
    <3> HIDE DEF q, r, c
    <3>2. QED
      BY <1>1, <1>2, <1>4, <2>3, <3>1
  <2>4. CASE i = Len(q) + 1 /\ Len(q) # 0
    <3>1. q # << >> /\ i - 1 = Len(q) /\ i # 1 /\ r[i - 1] = q[Len(q)]
      BY <1>4, <2>4
    <3> HIDE DEF r
    <3>2. QED
      BY <1>1, <1>4, <2>4, <3>1
  <2>5. QED
    BY <1>4, <2>1, <2>2, <2>3, <2>4
<1>10. ASSUME NEW i \in 1..Len(r)
       PROVE  bindings'[r[i]].next = IF i < Len(r) /\ pc'[r[i + 1][1]] = "wait" THEN r[i + 1] ELSE NULL
  <2>1. CASE i = Len(q) + 1
    <3> HIDE DEF q, r, c
    <3>1. QED
      BY <1>2, <1>4, <2>1
  <2>2. CASE i = Len(q) /\ i > 0
    <3>1. bindings[q[i]].next = NULL
      BY <1>4, <1>6, <2>2 DEF QueueShape
    <3>2. pc'[h] # "wait" /\ r[i + 1] = me[h] /\ r[i] = q[i]
      BY <1>4, <2>2
    <3> HIDE DEF q, r, c
    <3>3. QED
      BY <1>1, <3>1, <3>2
  <2>3. CASE i \in 1..Len(q) /\ i < Len(q)
    <3>1. bindings[q[i]].next = IF i < Len(q) /\ pc[q[i + 1][1]] = "wait" THEN q[i + 1] ELSE NULL
      BY <1>6, <2>3 DEF QueueShape
    <3>2. i + 1 \in 1..Len(q) /\ i + 1 # 1 /\ i < Len(r)
      BY <1>4, <2>3
    <3>3. pc'[q[i + 1][1]] = pc[q[i + 1][1]] /\ r[i] = q[i] /\ r[i + 1] = q[i + 1]
      BY <1>4, <1>7, <2>3, <3>2 DEF OthersRest
    <3> HIDE DEF q, r, c
    <3>4. QED
      BY <2>3, <3>1, <3>2, <3>3
  <2>4. QED
    BY <1>4, <2>1, <2>2, <2>3
<1>11. ASSUME NEW l \in Locks, l = c PROVE QueueShape(l)'
  <2>1. order'[l] = r /\ tail'[l] = r[Len(r)] /\ Len(r) \in Nat /\ r # << >> /\ l = c
    BY <1>3, <1>4, <1>11
  <2> HIDE DEF q, r, c
  <2>2. \A i \in 1..Len(r) : IF i = 1 THEN HasLock(order[l][i])' ELSE WaitsBehind(order[l][i], order[l][i - 1])'
    BY <1>9, <2>1 DEF HasLock, WaitsBehind
  <2>3. \A i \in 1..Len(r) : bindings'[r[i]].lock = l
    BY <1>8, <2>1
  <2>4. QED
    BY <1>8, <1>10, <2>1, <2>2, <2>3 DEF QueueShape
<1>12. \A l \in Locks : l # cur[h] => QueueShape(l)'
  BY <1>1, <1>3, OtherQueues
<1>13. \A l \in Locks : \A m : m # me[h] => (Queued(m, l)' <=> Queued(m, l))
  <2>1. ASSUME NEW m, m # me[h] PROVE (\E i \in 1..Len(r) : r[i] = m) <=> (\E i \in 1..Len(q) : q[i] = m)
    <3>1. \A i \in 1..Len(q) : i \in 1..Len(r)
      BY <1>4
    <3>2. \A i \in 1..Len(r) : i \in 1..Len(q) \/ i = Len(q) + 1
      BY <1>4
    <3> HIDE DEF q, r, c
    <3>3. QED
      BY <1>4, <2>1, <3>1, <3>2
  <2>2. ASSUME NEW l \in Locks, NEW m, m # me[h] PROVE Queued(m, l)' <=> Queued(m, l)
    <3>1. CASE l = c
      BY <2>1, <2>2, <3>1 DEF Queued
    <3>2. CASE l # c
      BY <1>3, <3>2 DEF Queued
    <3>3. QED
      BY <3>1, <3>2
  <2>3. QED
    BY <2>2
<1>14. \A n, l : n = me[h] /\ l = c => Queued(n, l)'
  <2>1. Len(q) + 1 \in 1..Len(r)
    BY <1>4
  <2>2. \E i \in 1..Len(r) : r[i] = me[h]
    BY <1>4, <2>1
  <2>3. QED
    BY <2>2 DEF Queued
<1>15. SlotsExact'
  <2>1. \A n, l : l \in Locks /\ Queued(n, l) => Queued(n, l)'
    BY <1>1, <1>13, QueuedBound
  <2>2. \A n : n = me[h] => Queued(n, bindings[n].lock)'
    BY <1>1, <1>14 DEF Queued
  <2>3. \A n \in Nodes : n[1] = h /\ Pending(n) => n = me[h]
    BY DEF Pending
  <2>4. QED
    BY <2>1, <2>2, <2>3, SlotsKept
<1>16. ASSUME NEW g \in Harts \ {h} PROVE LocalsExact(g)'
  <2>1. LocalsExact(g) /\ (me[g] # NULL => me[g] # me[h])
    BY <1>1 DEF McsInv, LocalsExact
  <2>2. cur[g] \in Locks /\ me[g] # NULL => (Queued(me[g], cur[g])' <=> Queued(me[g], cur[g]))
    <3>1. ASSUME cur[g] \in Locks, me[g] # NULL
          PROVE  \A m, l : m = me[g] /\ l = cur[g] => (Queued(m, l)' <=> Queued(m, l))
      BY <1>13, <2>1, <3>1
    <3>2. me'[g] = me[g] /\ cur'[g] = cur[g]
      BY DEF OthersRest
    <3>3. QED
      BY <3>1, <3>2 DEF Queued
  <2>3. cur[g] \in Locks /\ order[cur[g]] # << >> =>
          order'[cur[g]] # << >> /\ order'[cur[g]][1] = order[cur[g]][1]
    <3>1. CASE cur[g] = c
      <4>1. q # << >> => 1 \in 1..Len(q)
        BY <1>4, <1>1 DEF McsInv, Types
      <4>2. QED
        BY <1>4, <3>1, <4>1
    <3>2. CASE cur[g] # c
      BY <1>3, <3>2
    <3>3. QED
      BY <3>1, <3>2
  <2>4. pc[g] \in {"lock", "link"} => order[cur[g]] # << >> /\ cur[g] \in Locks /\ order[cur[g]][1] # me[g]
    <3>1. \A m, l : l \in Locks /\ Queued(m, l) => order[l] # << >>
      BY DEF Queued
    <3>2. QED
      BY <2>1, <3>1 DEF LocalsExact
  <2>5. pc[g] \in {"cas", "linkage", "handoff"} =>
          order[cur[g]] # << >> /\ cur[g] \in Locks /\ order[cur[g]][1] = me[g]
    BY <2>1 DEF LocalsExact
  <2>6. QED
    BY <2>2, <2>3, <2>4, <2>5, LocalsKept
<1>17. QED
  BY <1>11, <1>12, <1>15, <1>16 DEF McsInv

LEMMA EmptyQueue ==
  ASSUME McsInv, NEW l \in Locks
  PROVE  /\ tail[l] = NULL <=> order[l] = << >>
         /\ order[l] # << >> => Len(order[l]) \in 1..Len(order[l]) /\ tail[l] = order[l][Len(order[l])]
<1>1. order[l] # << >> => Len(order[l]) \in 1..Len(order[l])
  BY DEF McsInv, Types
<1>2. tail[l] = IF order[l] = << >> THEN NULL ELSE order[l][Len(order[l])]
  BY DEF McsInv, QueueShape
<1>3. \A i \in 1..Len(order[l]) : order[l][i] # NULL
  BY NoNullQueued DEF McsInv
<1>4. QED
  BY <1>1, <1>2, <1>3

LEMMA JoinTypes ==
  ASSUME Types, NEW h \in Harts, cur[h] \in Locks, me[h] \in Nodes, Joins(h)
  PROVE  /\ order' \in [Locks -> Seq(Nodes)]
         /\ order'[cur[h]] = Append(order[cur[h]], me[h])
         /\ \A l \in Locks : l # cur[h] => order'[l] = order[l]
<1>1. Append(order[cur[h]], me[h]) \in Seq(Nodes)
  BY AppendFacts DEF Types
<1>2. QED
  BY <1>1 DEF Joins, Types

LEMMA SwapInv == ASSUME McsInv, NEW h \in Harts, Swap(h) PROVE McsInv'
<1>1. /\ pc[h] = "swap" /\ tail' = [tail EXCEPT ![cur[h]] = me[h]] /\ Joins(h) /\ bindings' = bindings
  BY DEF Swap
<1>2. /\ me[h] \in Nodes /\ me[h][1] = h /\ cur[h] \in Locks /\ bindings[me[h]].in_use
      /\ bindings[me[h]].lock = cur[h] /\ ~Queued(me[h], cur[h]) /\ me[h] # NULL
  BY <1>1 DEF McsInv, LocalsExact, Types
<1>3. tail' \in [Locks -> Nodes \cup {NULL}] /\ order' \in [Locks -> Seq(Nodes)] /\ bindings' \in [Nodes -> Slots]
  BY <1>1, <1>2, JoinTypes DEF McsInv, Types
<1>4. CASE tail[cur[h]] = NULL
  <2>1. order[cur[h]] = << >>
    BY <1>2, <1>4, EmptyQueue
  <2>2. Return(h)
    BY <1>4 DEF Swap
  <2>3. OthersRest(h) /\ LocalsExact(h)' /\ me'[h] = NULL
    BY <2>2, ReturnRests DEF McsInv
  <2>4. Types'
    BY <1>3, <2>2, ReturnRests DEF McsInv, Types
  <2>5. QED
    BY <1>1, <2>1, <2>3, <2>4, JoinInv
<1>5. CASE tail[cur[h]] # NULL
  <2> DEFINE q == order[cur[h]]
  <2>1. q # << >> /\ Len(q) \in 1..Len(q) /\ tail[cur[h]] = q[Len(q)] /\ q \in Seq(Nodes)
    BY <1>2, <1>5, EmptyQueue DEF McsInv, Types
  <2>2. pred' = [pred EXCEPT ![h] = tail[cur[h]]] /\ Goto(h, "lock") /\ UNCHANGED <<cur, me, succ>>
    BY <1>5 DEF Swap
  <2>3. /\ OthersRest(h) /\ pc'[h] = "lock" /\ pred'[h] = tail[cur[h]]
        /\ pc' \in [Harts -> Labels] /\ pred' \in [Harts -> Nodes \cup {NULL}]
    BY <1>2, <2>2 DEF Goto, OthersRest, McsInv, Types, Labels
  <2>4. Types'
    BY <1>3, <2>2, <2>3 DEF McsInv, Types
  <2>5. LocalsExact(h)'
    <3>1. order'[cur[h]] = Append(q, me[h])
      BY <1>1, <1>2, JoinTypes DEF McsInv
    <3>2. /\ Len(q) \in Nat /\ Len(Append(q, me[h])) = Len(q) + 1 /\ Append(q, me[h])[Len(q) + 1] = me[h]
          /\ 1 \in 1..Len(q) /\ Append(q, me[h])[1] = q[1]
      BY <1>2, <2>1, AppendFacts
    <3>3. q[1] # me[h]
      BY <1>2, <3>2 DEF Queued
    <3>4. Len(q) + 1 \in 1..Len(Append(q, me[h]))
      BY <3>2
    <3> HIDE DEF q
    <3>5. order'[cur[h]][1] # me[h] /\ \E i \in 1..Len(order'[cur[h]]) : order'[cur[h]][i] = me[h]
      BY <3>1, <3>2, <3>3, <3>4
    <3>6. QED
      BY <1>1, <1>2, <2>2, <2>3, <3>5 DEF LocalsExact, Queued
  <2>6. QED
    BY <1>1, <2>1, <2>2, <2>3, <2>4, <2>5, JoinInv
<1>6. QED
  BY <1>4, <1>5

LEMMA TryTakesInv == ASSUME McsInv, NEW h \in Harts, TryCas(h), tail[cur[h]] = NULL PROVE McsInv'
<1>1. /\ pc[h] = "trycas" /\ tail' = [tail EXCEPT ![cur[h]] = me[h]] /\ Joins(h) /\ bindings' = bindings
      /\ Return(h)
  BY DEF TryCas
<1>2. me[h] \in Nodes /\ cur[h] \in Locks
  BY <1>1 DEF McsInv, LocalsExact, Types
<1>3. tail' \in [Locks -> Nodes \cup {NULL}] /\ order' \in [Locks -> Seq(Nodes)] /\ bindings' \in [Nodes -> Slots]
  BY <1>1, <1>2, JoinTypes DEF McsInv, Types
<1>4. order[cur[h]] = << >>
  BY <1>2, EmptyQueue
<1>5. OthersRest(h) /\ LocalsExact(h)' /\ me'[h] = NULL
  BY <1>1, ReturnRests DEF McsInv
<1>6. Types'
  BY <1>1, <1>3, ReturnRests DEF McsInv, Types
<1>7. QED
  BY <1>1, <1>4, <1>5, <1>6, JoinInv
------------------------------------------------------------------------------
LEMMA TailFacts ==
  ASSUME NEW S, NEW q \in Seq(S), q # << >>
  PROVE  /\ Tail(q) \in Seq(S) /\ Len(q) \in Nat /\ Len(q) > 0 /\ Len(Tail(q)) = Len(q) - 1
         /\ \A i \in 1..Len(Tail(q)) : Tail(q)[i] = q[i + 1] /\ i + 1 \in 1..Len(q)
         /\ (Tail(q) = << >>) <=> Len(q) = 1
<1>1. /\ Tail(q) \in Seq(S) /\ Len(q) \in Nat /\ Len(q) > 0 /\ Len(Tail(q)) = Len(q) - 1
      /\ \A i \in 1..Len(Tail(q)) : Tail(q)[i] = q[i + 1] /\ i + 1 \in 1..Len(q)
  OBVIOUS
<1>2. Tail(q) = << >> <=> Len(Tail(q)) = 0
  BY <1>1, EmptySeq
<1>3. Len(Tail(q)) = 0 <=> Len(q) = 1
  BY <1>1
<1>4. QED
  BY <1>1, <1>2, <1>3

(* The first node leaves its queue; a successor is told that it is first. *)
LEMMA LeaveInv ==
  ASSUME McsInv, Types', NEW h \in Harts, pc[h] \in {"cas", "handoff"}, Leaves(h), Return(h),
         \A n \in Nodes : n # me[h] =>
           /\ bindings'[n].in_use <=> bindings[n].in_use
           /\ bindings'[n].lock = bindings[n].lock /\ bindings'[n].next = bindings[n].next,
         \A n \in Nodes : n # me[h] /\ ~(Len(order[cur[h]]) > 1 /\ n = order[cur[h]][2])
                            => bindings'[n] = bindings[n],
         ~bindings'[me[h]].in_use,
         Len(order[cur[h]]) > 1 => /\ ~bindings'[order[cur[h]][2]].locked
                                   /\ pc[order[cur[h]][2][1]] = "wait",
         tail' = [tail EXCEPT ![cur[h]] = IF Len(order[cur[h]]) = 1 THEN NULL ELSE @]
  PROVE  McsInv'
<1> DEFINE c == cur[h]
           q == order[c]
           r == order'[c]
<1>1. /\ me[h] \in Nodes /\ me[h][1] = h /\ c \in Locks /\ q # << >> /\ q[1] = me[h] /\ me[h] # NULL
  BY DEF McsInv, LocalsExact, Types
<1>2. OthersRest(h) /\ LocalsExact(h)' /\ me'[h] = NULL
  BY ReturnRests DEF McsInv
<1>3. /\ r = Tail(q) /\ \A l \in Locks : l # c => order'[l] = order[l] /\ tail'[l] = tail[l]
      /\ tail'[c] = IF Len(q) = 1 THEN NULL ELSE tail[c]
  BY <1>1 DEF Leaves, McsInv, Types
<1>4. /\ Len(q) \in Nat /\ Len(q) > 0 /\ Len(r) = Len(q) - 1
      /\ \A i \in 1..Len(r) : r[i] = q[i + 1] /\ i + 1 \in 1..Len(q)
      /\ r = << >> <=> Len(q) = 1
  <2>1. q \in Seq(Nodes) /\ q # << >>
    BY <1>1 DEF McsInv, Types
  <2> HIDE DEF q, r
  <2>2. QED
    BY <1>3, <2>1, TailFacts
<1>5. QueueShape(c)
  BY <1>1 DEF McsInv
<1>6. \A i \in 1..Len(q) : q[i] \in Nodes /\ q[i][1] \in Harts /\ (q[i] = me[h] => i = 1)
  <2>1. \A i \in 1..Len(q) : \A j \in 1..Len(q) : q[j] = q[i] => j = i
    BY <1>5 DEF QueueShape
  <2>2. \A i \in 1..Len(q) : q[i] \in Nodes /\ q[i][1] \in Harts
    BY <1>1, Names DEF McsInv, Types
  <2> HIDE DEF q, r, c
  <2>3. QED
    BY <1>1, <1>4, <2>1, <2>2
<1>7. ASSUME NEW i \in 1..Len(q), i # 1
      PROVE  q[i][1] \in Harts \ {h} /\ WaitsBehind(q[i], q[i - 1]) /\ i - 1 \in 1..Len(q)
  <2>1. q[i] # me[h] /\ q[i][1] \in Harts
    BY <1>6, <1>7
  <2>2. QED
    BY <1>1, <1>7, <2>1, QueuedWaits DEF WaitsBehind
<1>8. ASSUME NEW i \in 1..Len(r)
      PROVE  /\ bindings'[r[i]].in_use /\ bindings'[r[i]].lock = c
             /\ \A j \in 1..Len(r) : r[j] = r[i] => j = i
  <2>1. \A j \in 1..Len(q) : bindings[q[j]].in_use /\ bindings[q[j]].lock = c
    BY <1>5 DEF QueueShape
  <2>2. \A j \in 1..Len(q) : \A k \in 1..Len(q) : q[k] = q[j] => k = j
    BY <1>5 DEF QueueShape
  <2>3. r[i] = q[i + 1] /\ i + 1 \in 1..Len(q) /\ i + 1 # 1
    BY <1>4
  <2>4. r[i] \in Nodes /\ r[i] # me[h]
    BY <1>6, <2>3
  <2>5. \A j \in 1..Len(r) : r[j] = q[j + 1] /\ j + 1 \in 1..Len(q)
    BY <1>4
  <2> HIDE DEF q, r, c
  <2>6. ASSUME NEW j \in 1..Len(r), r[j] = r[i] PROVE j = i
    <3>1. j + 1 = i + 1
      BY <2>2, <2>3, <2>5, <2>6
    <3>2. QED
      BY <1>4, <3>1
  <2>7. bindings'[r[i]].in_use /\ bindings'[r[i]].lock = c
    BY <2>1, <2>3, <2>4
  <2>8. QED
    BY <2>6, <2>7
<1>9. ASSUME NEW i \in 1..Len(r)
      PROVE  IF i = 1
             THEN /\ ~bindings'[r[i]].locked
                  /\ me'[r[i][1]] = r[i] => pc'[r[i][1]] \in {"wait", "cas", "linkage", "handoff"}
             ELSE /\ me'[r[i][1]] = r[i] /\ pred'[r[i][1]] = r[i - 1]
                  /\ \/ pc'[r[i][1]] = "lock"
                     \/ pc'[r[i][1]] \in {"link", "wait"} /\ bindings'[r[i]].locked
  <2>1. i + 1 \in 1..Len(q) /\ i + 1 # 1 /\ r[i] = q[i + 1]
    BY <1>4
  <2>2. q[i + 1][1] \in Harts \ {h} /\ WaitsBehind(q[i + 1], q[i])
    <3>1. i + 1 - 1 = i
      OBVIOUS
    <3>2. QED
      BY <1>7, <2>1, <3>1
  <2>3. CASE i = 1
    <3>1. Len(q) > 1 /\ i + 1 = 2
      BY <2>1, <2>3
    <3>2. ~bindings'[q[2]].locked /\ pc[q[2][1]] = "wait"
      BY <3>1
    <3> HIDE DEF q, r, c
    <3>3. QED
      BY <1>2, <2>1, <2>2, <2>3, <3>1, <3>2 DEF OthersRest
  <2>4. CASE i # 1
    <3>1. r[i - 1] = q[i]
      <4>1. i - 1 \in 1..Len(r) /\ i - 1 + 1 = i
        BY <1>4, <2>4
      <4>2. QED
        BY <1>4, <4>1
    <3>2. Len(q) > 1 => q[i + 1] # q[2]
      <4>1. Len(q) > 1 => 2 \in 1..Len(q)
        BY <1>4
      <4>2. \A j \in 1..Len(q) : \A k \in 1..Len(q) : q[k] = q[j] => k = j
        BY <1>5 DEF QueueShape
      <4>3. i + 1 # 2
        BY <2>4
      <4> HIDE DEF q, r, c
      <4>4. QED
        BY <2>1, <4>1, <4>2, <4>3
    <3>3. q[i + 1] \in Nodes /\ q[i + 1] # me[h]
      BY <1>6, <2>1
    <3>4. bindings'[q[i + 1]] = bindings[q[i + 1]]
      BY <3>2, <3>3
    <3> HIDE DEF q, r, c
    <3>5. QED
      BY <1>2, <2>1, <2>2, <2>4, <3>1, <3>4 DEF WaitsBehind, OthersRest
  <2>5. QED
    BY <2>3, <2>4
<1>10. ASSUME NEW i \in 1..Len(r)
       PROVE  bindings'[r[i]].next = IF i < Len(r) /\ pc'[r[i + 1][1]] = "wait" THEN r[i + 1] ELSE NULL
  <2>1. i + 1 \in 1..Len(q) /\ i + 1 # 1 /\ r[i] = q[i + 1] /\ (i < Len(r) <=> i + 1 < Len(q))
    BY <1>4
  <2>2. i < Len(r) => /\ i + 1 \in 1..Len(r) /\ i + 1 + 1 \in 1..Len(q) /\ i + 1 + 1 # 1
                      /\ r[i + 1] = q[i + 1 + 1]
    BY <1>4
  <2>3. i < Len(r) => pc'[r[i + 1][1]] = pc[r[i + 1][1]]
    BY <1>2, <1>7, <2>2 DEF OthersRest
  <2>4. bindings[q[i + 1]].next = IF i + 1 < Len(q) /\ pc[q[i + 1 + 1][1]] = "wait" THEN q[i + 1 + 1] ELSE NULL
    BY <1>5, <2>1 DEF QueueShape
  <2>5. bindings'[q[i + 1]].next = bindings[q[i + 1]].next
    BY <1>6, <2>1
  <2> HIDE DEF q, r, c
  <2>6. QED
    BY <2>1, <2>2, <2>3, <2>4, <2>5
<1>11. ASSUME NEW l \in Locks, l = c PROVE QueueShape(l)'
  <2>1. tail'[c] = IF r = << >> THEN NULL ELSE r[Len(r)]
    <3>1. tail[c] = q[Len(q)]
      BY <1>1, EmptyQueue
    <3>2. r # << >> => r[Len(r)] = q[Len(q)]
      <4>1. r # << >> => Len(r) \in 1..Len(r) /\ Len(r) + 1 = Len(q)
        BY <1>4
      <4>2. QED
        BY <1>4, <4>1
    <3> HIDE DEF q, r, c
    <3>3. QED
      BY <1>3, <1>4, <3>1, <3>2
  <2>2. order'[l] = r /\ tail'[l] = (IF r = << >> THEN NULL ELSE r[Len(r)])
    BY <1>11, <2>1
  <2> HIDE DEF q, r, c
  <2>3. \A i \in 1..Len(r) : IF i = 1 THEN HasLock(order[l][i])' ELSE WaitsBehind(order[l][i], order[l][i - 1])'
    BY <1>9, <2>2 DEF HasLock, WaitsBehind
  <2>4. \A i \in 1..Len(r) : bindings'[r[i]].lock = l
    BY <1>8, <1>11
  <2>5. QED
    BY <1>8, <1>10, <2>2, <2>3, <2>4 DEF QueueShape
<1>12. \A l \in Locks : l # cur[h] => QueueShape(l)'
  <2>1. Len(q) > 1 => Queued(q[2], c)
    BY <1>4 DEF Queued
  <2>2. \A n \in Nodes : Queued(n, cur[h]) \/ n = me[h] \/ bindings'[n] = bindings[n]
    BY <2>1
  <2>3. QED
    BY <1>1, <1>2, <1>3, <2>2, OtherQueues
<1>13. ASSUME NEW l \in Locks, NEW m, m # me[h] PROVE Queued(m, l)' <=> Queued(m, l)
  <2>1. (\E i \in 1..Len(r) : r[i] = m) <=> (\E i \in 1..Len(q) : q[i] = m)
    <3>1. ASSUME NEW i \in 1..Len(q), q[i] = m PROVE \E j \in 1..Len(r) : r[j] = m
      <4>1. i # 1
        BY <1>1, <1>13, <3>1
      <4>2. i - 1 \in 1..Len(r) /\ i - 1 + 1 = i
        BY <1>4, <4>1
      <4>3. r[i - 1] = m
        BY <1>4, <3>1, <4>2
      <4>4. QED
        BY <4>2, <4>3
    <3>2. ASSUME NEW i \in 1..Len(r), r[i] = m PROVE \E j \in 1..Len(q) : q[j] = m
      BY <1>4, <3>2
    <3>3. QED
      BY <3>1, <3>2
  <2>2. CASE l = c
    BY <2>1, <2>2 DEF Queued
  <2>3. CASE l # c
    BY <1>3, <2>3 DEF Queued
  <2>4. QED
    BY <2>2, <2>3
<1>14. SlotsExact'
  <2>1. \A n \in Nodes : bindings'[n].in_use =>
          n # me[h] /\ bindings[n].in_use /\ bindings'[n].lock = bindings[n].lock
    OBVIOUS
  <2>2. \A n \in Nodes, l \in Locks : bindings'[n].in_use /\ Queued(n, l) => Queued(n, l)'
    BY <1>13, <2>1
  <2>3. \A n \in Nodes : n[1] # h /\ Pending(n) => bindings'[n] = bindings[n]
    <3>1. \A n \in Nodes : Pending(n) => ~(Len(q) > 1 /\ n = q[2])
      <4>1. Len(q) > 1 => Queued(q[2], c)
        BY <1>4 DEF Queued
      <4>2. QED
        BY <1>1, <4>1, PendingNotQueued
    <3>2. QED
      BY <1>1, <3>1
  <2>4. \A n \in Nodes : n[1] = h => ~Pending(n)
    BY DEF Pending
  <2>5. QED
    BY <1>2, <2>1, <2>2, <2>3, <2>4, SlotsKept
<1>15. ASSUME NEW g \in Harts \ {h} PROVE LocalsExact(g)'
  <2>1. LocalsExact(g) /\ (me[g] # NULL => me[g] # me[h] /\ me[g] \in Nodes /\ me[g][1] = g)
    BY <1>1 DEF McsInv, LocalsExact, Types
  <2>2. \A n \in Nodes : n[1] = g => n # me[h]
    BY <1>1
  <2>3. cur[g] \in Locks /\ me[g] # NULL => (Queued(me[g], cur[g])' <=> Queued(me[g], cur[g]))
    <3>1. ASSUME cur[g] \in Locks, me[g] # NULL
          PROVE  \A m, l : m = me[g] /\ l = cur[g] => (Queued(m, l)' <=> Queued(m, l))
      BY <1>13, <2>1, <3>1
    <3>2. me'[g] = me[g] /\ cur'[g] = cur[g]
      BY <1>2 DEF OthersRest
    <3>3. QED
      BY <3>1, <3>2 DEF Queued
  <2>4. ASSUME pc[g] \in {"lock", "link"} PROVE order'[cur[g]][1] # me[g]
    <3>1. cur[g] \in Locks /\ Queued(me[g], cur[g]) /\ order[cur[g]][1] # me[g] /\ me[g] # NULL
      BY <2>1, <2>4 DEF LocalsExact
    <3>2. CASE cur[g] # c
      BY <1>3, <3>1, <3>2
    <3>3. CASE cur[g] = c
      <4>1. PICK i \in 1..Len(q) : q[i] = me[g]
        BY <3>1, <3>3 DEF Queued
      <4>2. i # 1
        BY <3>1, <3>3, <4>1
      <4>3. Len(q) > 1 /\ 1 \in 1..Len(r) /\ 1 + 1 = 2
        BY <1>4, <4>2
      <4>4. r[1] = q[2]
        BY <1>4, <4>3
      <4>5. q[2] # me[g]
        <5>1. pc[q[2][1]] = "wait"
          BY <4>3
        <5>2. QED
          BY <2>1, <2>4, <3>1, <5>1
      <4>6. QED
        BY <3>3, <4>4, <4>5
    <3>4. QED
      BY <3>2, <3>3
  <2>5. ASSUME pc[g] \in {"cas", "linkage", "handoff"}
        PROVE  order'[cur[g]] # << >> /\ order'[cur[g]][1] = me[g]
    <3>1. cur[g] \in Locks /\ order[cur[g]] # << >> /\ order[cur[g]][1] = me[g] /\ me[g] # me[h]
      BY <2>1, <2>5 DEF LocalsExact
    <3>2. cur[g] # c
      BY <1>1, <3>1
    <3>3. QED
      BY <1>3, <3>1, <3>2
  <2>6. pc[g] = "handoff" => bindings'[me[g]].next = bindings[me[g]].next
    BY <2>1 DEF LocalsExact
  <2>7. QED
    BY <1>2, <2>2, <2>3, <2>4, <2>5, <2>6, LocalsKept
<1>16. QED
  BY <1>2, <1>11, <1>12, <1>14, <1>15 DEF McsInv

LEMMA LeaveTypes ==
  ASSUME Types, NEW h \in Harts, cur[h] \in Locks, order[cur[h]] # << >>, Leaves(h), Return(h),
         bindings' \in [Nodes -> Slots], tail' \in [Locks -> Nodes \cup {NULL}]
  PROVE  Types'
<1>1. Tail(order[cur[h]]) \in Seq(Nodes)
  BY TailFacts DEF Types
<1>2. order' \in [Locks -> Seq(Nodes)]
  BY <1>1 DEF Leaves, Types
<1>3. QED
  BY <1>2, ReturnRests DEF Types

(* A hart whose node is first and on the tail is alone in its queue.       *)
LEMMA AloneInQueue ==
  ASSUME McsInv, NEW h \in Harts, pc[h] = "cas", tail[cur[h]] = me[h]
  PROVE  Len(order[cur[h]]) = 1
<1> DEFINE q == order[cur[h]]
<1>1. me[h] \in Nodes /\ cur[h] \in Locks /\ q # << >> /\ q[1] = me[h]
  BY DEF McsInv, LocalsExact, Types
<1>2. Len(q) \in 1..Len(q) /\ 1 \in 1..Len(q) /\ q[Len(q)] = me[h]
  BY <1>1, EmptyQueue, NoNullQueued DEF McsInv
<1>3. \A i \in 1..Len(q) : \A j \in 1..Len(q) : q[j] = q[i] => j = i
  BY <1>1 DEF McsInv, QueueShape
<1> HIDE DEF q
<1>4. Len(q) = 1
  BY <1>1, <1>2, <1>3
<1>5. QED
  BY <1>4 DEF q

LEMMA CasWinsInv == ASSUME McsInv, NEW h \in Harts, Cas(h), tail[cur[h]] = me[h] PROVE McsInv'
<1> DEFINE q == order[cur[h]]
<1>1. /\ pc[h] = "cas" /\ tail' = [tail EXCEPT ![cur[h]] = NULL]
      /\ bindings' = [bindings EXCEPT ![me[h]] = FreeSlot] /\ Leaves(h) /\ Return(h)
  BY DEF Cas, Unbind
<1>2. me[h] \in Nodes /\ cur[h] \in Locks /\ q # << >> /\ q[1] = me[h]
  BY <1>1 DEF McsInv, LocalsExact, Types
<1>3. Len(q) = 1
  BY <1>1, AloneInQueue
<1>4. FreeSlot \in Slots /\ ~FreeSlot.in_use
  BY DEF FreeSlot, Slots
<1>5. /\ bindings' \in [Nodes -> Slots] /\ ~bindings'[me[h]].in_use
      /\ \A n \in Nodes : n # me[h] => bindings'[n] = bindings[n]
  BY <1>1, <1>2, <1>4 DEF McsInv, Types
<1>6. tail' \in [Locks -> Nodes \cup {NULL}]
  BY <1>1 DEF McsInv, Types
<1>7. Types'
  BY <1>1, <1>2, <1>5, <1>6, LeaveTypes DEF McsInv
<1>8. tail' = [tail EXCEPT ![cur[h]] = IF Len(q) = 1 THEN NULL ELSE @]
  BY <1>1, <1>3
<1>9. ~(Len(q) > 1)
  BY <1>3
<1>10. \A n \in Nodes : n # me[h] =>
          /\ bindings'[n].in_use <=> bindings[n].in_use
          /\ bindings'[n].lock = bindings[n].lock /\ bindings'[n].next = bindings[n].next
  BY <1>5
<1> HIDE DEF q
<1>11. QED
  BY <1>1, <1>5, <1>7, <1>8, <1>9, <1>10, LeaveInv DEF q

(* The successor that a hart hands its lock to: the second in the queue.   *)
LEMMA Successor ==
  ASSUME McsInv, NEW h \in Harts, pc[h] = "handoff"
  PROVE  LET q == order[cur[h]] IN
         /\ cur[h] \in Locks /\ me[h] \in Nodes /\ q # << >> /\ q[1] = me[h] /\ Len(q) > 1 /\ 2 \in 1..Len(q)
         /\ succ[h] = q[2] /\ succ[h] \in Nodes /\ succ[h] # me[h]
         /\ pc[succ[h][1]] = "wait" /\ WaitsBehind(succ[h], me[h])
<1> DEFINE q == order[cur[h]]
<1>1. /\ me[h] \in Nodes /\ cur[h] \in Locks /\ q # << >> /\ q[1] = me[h]
      /\ succ[h] # NULL /\ succ[h] = bindings[me[h]].next
  BY DEF McsInv, LocalsExact, Types
<1>2. 1 \in 1..Len(q) /\ Len(q) \in Nat
  BY <1>1, NoNullQueued DEF McsInv
<1>3. bindings[q[1]].next = IF 1 < Len(q) /\ pc[q[1 + 1][1]] = "wait" THEN q[1 + 1] ELSE NULL
  BY <1>1, <1>2 DEF McsInv, QueueShape
<1>4. 1 < Len(q) /\ pc[q[1 + 1][1]] = "wait" /\ succ[h] = q[1 + 1]
  BY <1>1, <1>3
<1>5. 1 + 1 = 2 /\ 2 \in 1..Len(q) /\ 2 # 1 /\ 2 - 1 = 1
  BY <1>2, <1>4
<1>6. WaitsBehind(q[2], q[1]) /\ q[2] \in Nodes
  <2>1. WaitsBehind(q[2], q[2 - 1]) /\ q[2] \in Nodes
    BY <1>1, <1>5, QueuedWaits
  <2>2. QED
    BY <1>5, <2>1
<1>7. q[2] # q[1]
  BY <1>1, <1>2, <1>5 DEF McsInv, QueueShape
<1>8. QED
  BY <1>1, <1>4, <1>5, <1>6, <1>7

LEMMA HandoffInv == ASSUME McsInv, NEW h \in Harts, Handoff(h) PROVE McsInv'
<1> DEFINE q == order[cur[h]]
<1>1. /\ pc[h] = "handoff" /\ tail' = tail
      /\ bindings' = [[bindings EXCEPT ![me[h]] = FreeSlot] EXCEPT ![succ[h]].locked = FALSE]
      /\ Leaves(h) /\ Return(h)
  BY DEF Handoff, Unbind
<1>2. /\ cur[h] \in Locks /\ me[h] \in Nodes /\ q # << >> /\ q[1] = me[h] /\ Len(q) > 1
      /\ succ[h] = q[2] /\ succ[h] \in Nodes /\ succ[h] # me[h] /\ pc[succ[h][1]] = "wait"
  BY <1>1, Successor
<1>3. FreeSlot \in Slots /\ ~FreeSlot.in_use
  BY DEF FreeSlot, Slots
<1> DEFINE freed == [bindings EXCEPT ![me[h]] = FreeSlot]
<1>4. /\ freed \in [Nodes -> Slots] /\ freed[me[h]] = FreeSlot
      /\ \A n \in Nodes : n # me[h] => freed[n] = bindings[n]
  BY <1>2, <1>3 DEF McsInv, Types
<1>5. bindings' = [freed EXCEPT ![succ[h]].locked = FALSE]
  BY <1>1
<1> HIDE DEF freed, q
<1>6. /\ bindings' \in [Nodes -> Slots] /\ ~bindings'[succ[h]].locked
      /\ \A n \in Nodes : n # succ[h] => bindings'[n] = freed[n]
      /\ bindings'[succ[h]].in_use <=> freed[succ[h]].in_use
      /\ bindings'[succ[h]].lock = freed[succ[h]].lock /\ bindings'[succ[h]].next = freed[succ[h]].next
  BY <1>2, <1>4, <1>5 DEF Slots
<1>7. ~bindings'[me[h]].in_use
  BY <1>2, <1>3, <1>4, <1>6
<1>8. \A n \in Nodes : n # me[h] =>
          /\ bindings'[n].in_use <=> bindings[n].in_use
          /\ bindings'[n].lock = bindings[n].lock /\ bindings'[n].next = bindings[n].next
  BY <1>2, <1>4, <1>6
<1>9. \A n \in Nodes : n # me[h] /\ ~(Len(q) > 1 /\ n = q[2]) => bindings'[n] = bindings[n]
  BY <1>2, <1>4, <1>6
<1>10. tail' \in [Locks -> Nodes \cup {NULL}] /\ tail' = [tail EXCEPT ![cur[h]] = IF Len(q) = 1 THEN NULL ELSE @]
  <2>1. Len(q) # 1
    BY <1>2
  <2>2. QED
    BY <1>1, <1>2, <2>1 DEF McsInv, Types
<1>11. Types'
  BY <1>1, <1>2, <1>6, <1>10, LeaveTypes DEF McsInv, q
<1>12. ~bindings'[q[2]].locked /\ pc[q[2][1]] = "wait"
  BY <1>2, <1>6
<1>13. QED
  BY <1>1, <1>7, <1>8, <1>9, <1>10, <1>11, <1>12, LeaveInv DEF q
------------------------------------------------------------------------------
LEMMA McsNext == McsInv /\ [Next]_vars => McsInv'
<1> SUFFICES ASSUME McsInv, [Next]_vars PROVE McsInv'
  OBVIOUS
<1>1. ASSUME NEW h \in Harts, Step(h) PROVE McsInv'
  BY <1>1, BindInv, SwapInv, SetLockedInv, LinkInv, WaitInv, TryFailsInv, TryTakesInv, CasLostInv, CasWinsInv,
     LinkageInv, HandoffInv DEF Step
<1>2. ASSUME NEW h \in Harts, NEW l \in Locks,
             Call(h, l, "bind") \/ Call(h, l, "trybind") \/ Release(h, l)
      PROVE  McsInv'
  BY <1>2, CallInv, ReleaseInv
<1>3. CASE UNCHANGED vars
  <2>1. UNCHANGED <<tail, bindings, pc, cur, me, pred, succ, order>>
    BY <1>3 DEF vars
  <2>2. Types'
    BY <2>1 DEF McsInv, Types
  <2>3. SlotsExact' /\ \A l \in Locks : QueueShape(l)'
    BY <2>1 DEF McsInv, SlotsExact, Pending, Queued, QueueShape, HasLock, WaitsBehind
  <2>4. \A h \in Harts : LocalsExact(h)'
    BY <2>1 DEF McsInv, LocalsExact, Queued, Bound
  <2>5. QED
    BY <2>2, <2>3, <2>4 DEF McsInv
<1>4. QED
  BY <1>1, <1>2, <1>3 DEF Next

LEMMA LinksAlive == McsInv => NodesAlive
<1> SUFFICES ASSUME McsInv PROVE NodesAlive
  OBVIOUS
<1>1. ASSUME NEW l \in Locks
      PROVE  /\ BoundTo(tail[l], l)
             /\ tail[l] = IF order[l] = << >> THEN NULL ELSE order[l][Len(order[l])]
             /\ \A i \in 2..Len(order[l]) : Behind(order[l][i]) = order[l][i - 1]
  <2>1. BoundTo(tail[l], l)
    <3>1. order[l] # << >> => Queued(tail[l], l)
      BY EmptyQueue DEF Queued
    <3>2. QED
      BY <3>1, EmptyQueue, QueuedBound DEF BoundTo
  <2>2. tail[l] = IF order[l] = << >> THEN NULL ELSE order[l][Len(order[l])]
    BY DEF McsInv, QueueShape
  <2>3. ASSUME NEW i \in 2..Len(order[l]) PROVE Behind(order[l][i]) = order[l][i - 1]
    <3>1. i \in 1..Len(order[l]) /\ i # 1
      BY NoNullQueued DEF McsInv
    <3>2. WaitsBehind(order[l][i], order[l][i - 1])
      BY <3>1, QueuedWaits
    <3>3. QED
      BY <3>2 DEF WaitsBehind, Behind
  <2>4. QED
    BY <2>1, <2>2, <2>3
<1>2. ASSUME NEW h \in Harts, pc[h] \in {"lock", "link"}
      PROVE  /\ BoundTo(pred[h], cur[h]) /\ bindings[pred[h]].next = NULL
             /\ \A g \in Harts \ {h} : pc[g] \in {"lock", "link"} => pred[g] # pred[h]
  <2>1. cur[h] \in Locks /\ me[h] \in Nodes /\ me[h][1] = h
    BY <1>2, WaitingPosition
  <2>2. PICK p \in 1..Len(order[cur[h]]) :
          p # 1 /\ order[cur[h]][p] = me[h] /\ pred[h] = order[cur[h]][p - 1]
          /\ p - 1 \in 1..Len(order[cur[h]]) /\ pred[h] \in Nodes
    BY <1>2, WaitingPosition
  <2>3. bindings[pred[h]].in_use /\ bindings[pred[h]].lock = cur[h]
    BY <2>1, <2>2, QueuedBound DEF Queued
  <2>4. bindings[pred[h]].next = NULL
    <3>1. p - 1 + 1 = p
      BY <2>2
    <3>2. bindings[order[cur[h]][p - 1]].next =
            IF p - 1 < Len(order[cur[h]]) /\ pc[order[cur[h]][p - 1 + 1][1]] = "wait"
            THEN order[cur[h]][p - 1 + 1] ELSE NULL
      BY <2>1, <2>2 DEF McsInv, QueueShape
    <3>3. QED
      BY <1>2, <2>1, <2>2, <3>1, <3>2
  <2>5. ASSUME NEW g \in Harts \ {h}, pc[g] \in {"lock", "link"} PROVE pred[g] # pred[h]
    <3>1. SUFFICES ASSUME pred[g] = pred[h] PROVE FALSE
      OBVIOUS
    <3>2. cur[g] \in Locks /\ me[g] \in Nodes /\ me[g][1] = g
      BY <2>5, WaitingPosition
    <3>3. PICK r \in 1..Len(order[cur[g]]) :
            r # 1 /\ order[cur[g]][r] = me[g] /\ pred[g] = order[cur[g]][r - 1]
            /\ r - 1 \in 1..Len(order[cur[g]]) /\ pred[g] \in Nodes
      BY <2>5, WaitingPosition
    <3>4. cur[g] = cur[h]
      BY <2>3, <3>1, <3>2, <3>3, QueuedBound DEF Queued
    <3>5. \A i, j \in 1..Len(order[cur[h]]) : order[cur[h]][j] = order[cur[h]][i] => j = i
      BY <2>1 DEF McsInv, QueueShape
    <3>6. r - 1 = p - 1
      BY <2>2, <3>1, <3>3, <3>4, <3>5
    <3>7. r = p
      BY <2>2, <3>3, <3>6
    <3>8. QED
      BY <2>1, <2>2, <3>2, <3>3, <3>4, <3>7
  <2>6. QED
    BY <2>3, <2>4, <2>5 DEF BoundTo
<1>3. ASSUME NEW h \in Harts, pc[h] = "handoff"
      PROVE  /\ BoundTo(succ[h], cur[h]) /\ Behind(succ[h]) = me[h]
             /\ bindings[succ[h]].locked
  <2>1. /\ cur[h] \in Locks /\ 2 \in 1..Len(order[cur[h]]) /\ succ[h] = order[cur[h]][2]
        /\ pc[succ[h][1]] = "wait" /\ WaitsBehind(succ[h], me[h])
    BY <1>3, Successor
  <2>2. Queued(succ[h], cur[h])
    BY <2>1 DEF Queued
  <2>3. BoundTo(succ[h], cur[h])
    BY <2>1, <2>2, QueuedBound DEF BoundTo
  <2>4. QED
    BY <2>1, <2>3 DEF WaitsBehind, Behind
<1>4. QED
  BY <1>1, <1>2, <1>3 DEF NodesAlive

(* NodesAlive: no hart follows a pointer to a node that was given up or is *)
(* bound to another lock, and no two harts link themselves to one node.    *)
THEOREM NoDanglingNode == Spec => []NodesAlive
BY McsInit, McsNext, LinksAlive, PTL DEF Spec
------------------------------------------------------------------------------
(* Who owns a lock: the first of its queue, unless it is still to find out.*)
HandedOver(l) == me[order[l][1][1]] = order[l][1] /\ pc[order[l][1][1]] = "wait"

LEMMA OwnerIsFirst ==
  ASSUME McsInv, NEW l \in Locks
  PROVE  owners[l] = IF order[l] = << >> \/ HandedOver(l) THEN {} ELSE {order[l][1][1]}
<1>1. owners[l] = {h \in Harts : Owns(h, l)}
  BY DEF owners
<1>2. ASSUME NEW h \in Harts, Owns(h, l)
      PROVE  order[l] # << >> /\ ~HandedOver(l) /\ h = order[l][1][1]
  <2>1. PICK m \in Bound(h) : bindings[m].lock = l
    BY <1>2 DEF Owns
  <2>2. m \in Nodes /\ m[1] = h /\ bindings[m].in_use /\ ~(Acquiring(h) /\ cur[h] = l)
    BY <1>2 DEF Bound, Owns
  <2>3. ~Pending(m)
    BY <2>1, <2>2 DEF Pending, Acquiring
  <2>4. PICK i \in 1..Len(order[l]) : order[l][i] = m
    BY <2>1, <2>2, <2>3 DEF McsInv, SlotsExact, Queued
  <2>5. me[h] = m => cur[h] = l
    BY <2>1, <2>2, Names DEF McsInv, LocalsExact
  <2>6. i = 1
    <3>1. i # 1 => WaitsBehind(m, order[l][i - 1])
      BY <2>4, QueuedWaits
    <3>2. QED
      BY <2>2, <2>5, <3>1 DEF WaitsBehind, Acquiring
  <2>7. ~HandedOver(l)
    BY <2>2, <2>4, <2>5, <2>6 DEF HandedOver, Acquiring
  <2>8. order[l] # << >>
    BY <2>4
  <2>9. QED
    BY <2>2, <2>4, <2>6, <2>7, <2>8
<1>3. ASSUME order[l] # << >>, ~HandedOver(l)
      PROVE  order[l][1][1] \in Harts /\ Owns(order[l][1][1], l)
  <2> DEFINE n == order[l][1]
             h == n[1]
  <2>1. n \in Nodes /\ h \in Harts /\ Queued(n, l)
    BY <1>3, NoNullQueued, Names DEF McsInv, Queued
  <2>2. bindings[n].in_use /\ bindings[n].lock = l /\ n \in Bound(h)
    BY <2>1, QueuedBound DEF Bound
  <2> HIDE DEF n
  <2>3. ASSUME Acquiring(h), cur[h] = l PROVE FALSE
    <3>1. CASE pc[h] \in {"bind", "trybind"}
      <4>1. bindings[n].lock < cur[h] /\ l \in Nat
        BY <2>1, <2>2, <3>1, Names DEF McsInv, LocalsExact
      <4>2. QED
        BY <2>2, <2>3, <4>1
    <3>2. CASE pc[h] \in {"swap", "trycas", "lock", "link", "wait"}
      <4>1. me[h] \in Nodes /\ me[h][1] = h /\ bindings[me[h]].in_use /\ bindings[me[h]].lock = l
        BY <2>1, <2>3, <3>2 DEF McsInv, LocalsExact, Types
      <4>2. me[h] = n
        BY <2>1, <2>2, <4>1 DEF McsInv, SlotsExact
      <4>3. pc[h] = "wait"
        BY <2>1, <2>3, <3>2, <4>2 DEF McsInv, LocalsExact, n
      <4>4. QED
        BY <1>3, <4>2, <4>3 DEF HandedOver, n
    <3>3. QED
      BY <2>3, <3>1, <3>2 DEF Acquiring
  <2>4. QED
    BY <2>1, <2>2, <2>3 DEF Owns, n
<1>4. QED
  BY <1>1, <1>2, <1>3

LEMMA OwnersAre ==
  McsInv => \A l \in Locks :
    owners[l] = IF order[l] = << >> \/ HandedOver(l) THEN {} ELSE {order[l][1][1]}
BY OwnerIsFirst

LEMMA OwnersAreNext ==
  McsInv' => (\A l \in Locks :
    owners[l] = IF order[l] = << >> \/ HandedOver(l) THEN {} ELSE {order[l][1][1]})'
BY OwnersAre, PTL

(* The owners after a step that leaves the first of the queue, and does    *)
(* not bring its hart to the end of its wait, or past it.                  *)
LEMMA OwnersKept ==
  ASSUME McsInv, McsInv', NEW h \in Harts, OthersRest(h), NEW l \in Locks,
         order'[l] = << >> <=> order[l] = << >>,
         order[l] # << >> =>
           /\ order'[l][1] = order[l][1]
           /\ order[l][1][1] = h =>
                (me'[h] = order[l][1] /\ pc'[h] = "wait" <=> me[h] = order[l][1] /\ pc[h] = "wait")
  PROVE  owners'[l] = owners[l]
<1>1. owners[l] = IF order[l] = << >> \/ HandedOver(l) THEN {} ELSE {order[l][1][1]}
  BY OwnersAre
<1>2. owners'[l] = IF order'[l] = << >> \/ HandedOver(l)' THEN {} ELSE {order'[l][1][1]}
  BY OwnersAreNext
<1>3. ASSUME order[l] # << >> PROVE HandedOver(l)' <=> HandedOver(l)
  <2>1. order[l][1] \in Nodes /\ order[l][1][1] \in Harts /\ order'[l][1] = order[l][1]
    BY <1>3, NoNullQueued, Names DEF McsInv
  <2>2. CASE order[l][1][1] = h
    BY <1>3, <2>1, <2>2 DEF HandedOver
  <2>3. CASE order[l][1][1] # h
    BY <2>1, <2>3 DEF HandedOver, OthersRest
  <2>4. QED
    BY <2>2, <2>3
<1>4. QED
  BY <1>1, <1>2, <1>3

(* The first node of another lock's queue is not the node of the call.     *)
LEMMA NotFirstElsewhere ==
  ASSUME McsInv, NEW h \in Harts, NEW l \in Locks, l # cur[h], order[l] # << >>
  PROVE  me[h] # order[l][1]
<1>1. order[l][1] # NULL /\ Queued(order[l][1], l)
  BY NoNullQueued DEF McsInv, Queued
<1>2. bindings[order[l][1]].lock = l
  BY <1>1, QueuedBound
<1>3. me[h] # NULL => bindings[me[h]].lock = cur[h]
  BY DEF McsInv, LocalsExact
<1>4. QED
  BY <1>1, <1>2, <1>3

(* The steps that the fair lock does not see.                              *)
LEMMA Unseen ==
  ASSUME McsInv, McsInv', NEW h \in Harts, OthersRest(h), order' = order,
         pc[h] # "wait", pc'[h] = "wait" => pc[h] = "link" /\ me'[h] = me[h]
  PROVE  UNCHANGED F!vars
<1>1. ASSUME NEW l \in Locks PROVE owners'[l] = owners[l]
  <2>1. order[l] # << >> => ~(me'[h] = order[l][1] /\ pc'[h] = "wait")
    <3>1. pc[h] = "link" => order[cur[h]][1] # me[h]
      BY DEF McsInv, LocalsExact
    <3>2. QED
      BY <3>1, NotFirstElsewhere
  <2>2. QED
    BY <2>1, OwnersKept
<1>2. owners' = owners
  BY <1>1 DEF owners
<1>3. queue' = queue
  BY DEF queue
<1>4. QED
  BY <1>2, <1>3 DEF F!vars
------------------------------------------------------------------------------
(* The harts of a queue, as it grows and shrinks.                          *)
HartsOf(q) == [i \in 1..Len(q) |-> q[i][1]]

LEMMA HartsOfFacts ==
  ASSUME NEW q \in Seq(Nodes)
  PROVE  /\ HartsOf(q) \in Seq(Harts) /\ Len(HartsOf(q)) = Len(q) /\ Len(q) \in Nat
         /\ \A i \in 1..Len(q) : HartsOf(q)[i] = q[i][1]
         /\ q = << >> <=> HartsOf(q) = << >>
         /\ q # << >> => Head(HartsOf(q)) = q[1][1]
<1>1. Len(q) \in Nat /\ \A i \in 1..Len(q) : q[i] \in Nodes /\ q[i][1] \in Harts
  BY Names
<1>2. HartsOf(q) \in Seq(Harts) /\ Len(HartsOf(q)) = Len(q)
  BY <1>1 DEF HartsOf
<1>3. \A i \in 1..Len(q) : HartsOf(q)[i] = q[i][1]
  BY DEF HartsOf
<1>4. q = << >> <=> HartsOf(q) = << >>
  BY <1>1, <1>2, EmptySeq
<1>5. q # << >> => Head(HartsOf(q)) = q[1][1]
  <2>1. q # << >> => 1 \in 1..Len(q) /\ Head(HartsOf(q)) = HartsOf(q)[1]
    BY <1>2, <1>4
  <2>2. QED
    BY <1>3, <2>1
<1>6. QED
  BY <1>1, <1>2, <1>3, <1>4, <1>5

LEMMA HartsOfAppend ==
  ASSUME NEW q \in Seq(Nodes), NEW n \in Nodes
  PROVE  HartsOf(Append(q, n)) = Append(HartsOf(q), n[1])
<1> DEFINE r == Append(q, n)
           s == Append(HartsOf(q), n[1])
<1>1. HartsOf(q) \in Seq(Harts) /\ Len(HartsOf(q)) = Len(q) /\ Len(q) \in Nat /\ n[1] \in Harts
      /\ \A i \in 1..Len(q) : HartsOf(q)[i] = q[i][1]
  BY HartsOfFacts, Names
<1>2. /\ r \in Seq(Nodes) /\ Len(r) = Len(q) + 1 /\ r[Len(q) + 1] = n
      /\ \A i \in 1..Len(q) : r[i] = q[i]
  BY AppendProperties
<1>3. /\ s \in Seq(Harts) /\ Len(s) = Len(q) + 1 /\ s[Len(q) + 1] = n[1]
      /\ \A i \in 1..Len(q) : s[i] = HartsOf(q)[i]
  BY <1>1, AppendProperties
<1> HIDE DEF r, s
<1>4. HartsOf(r) \in Seq(Harts) /\ Len(HartsOf(r)) = Len(r) /\ \A i \in 1..Len(r) : HartsOf(r)[i] = r[i][1]
  BY <1>2, HartsOfFacts
<1>5. ASSUME NEW i \in 1..Len(r) PROVE HartsOf(r)[i] = s[i]
  <2>1. CASE i = Len(q) + 1
    BY <1>2, <1>3, <1>4, <2>1
  <2>2. CASE i # Len(q) + 1
    <3>1. i \in 1..Len(q)
      BY <1>1, <1>2, <2>2
    <3>2. QED
      BY <1>1, <1>2, <1>3, <1>4, <3>1
  <2>3. QED
    BY <2>1, <2>2
<1>6. HartsOf(r) = s
  BY <1>2, <1>3, <1>4, <1>5, SeqEqual
<1>7. QED
  BY <1>6 DEF r, s

LEMMA HartsOfTail ==
  ASSUME NEW q \in Seq(Nodes), q # << >>
  PROVE  HartsOf(Tail(q)) = Tail(HartsOf(q))
<1> DEFINE r == Tail(q)
           p == HartsOf(q)
           s == Tail(p)
<1>1. p \in Seq(Harts) /\ Len(p) = Len(q) /\ p # << >> /\ \A i \in 1..Len(q) : p[i] = q[i][1]
  BY HartsOfFacts
<1>2. r \in Seq(Nodes) /\ Len(r) = Len(q) - 1 /\ \A i \in 1..Len(r) : r[i] = q[i + 1] /\ i + 1 \in 1..Len(q)
  BY TailFacts
<1> HIDE DEF p
<1>3. s \in Seq(Harts) /\ Len(s) = Len(p) - 1 /\ \A i \in 1..Len(s) : s[i] = p[i + 1]
  BY <1>1, TailFacts
<1> HIDE DEF r, s
<1>4. HartsOf(r) \in Seq(Harts) /\ Len(HartsOf(r)) = Len(r) /\ \A i \in 1..Len(r) : HartsOf(r)[i] = r[i][1]
  BY <1>2, HartsOfFacts
<1>5. Len(s) = Len(r)
  BY <1>1, <1>2, <1>3
<1>6. \A i \in 1..Len(r) : HartsOf(r)[i] = s[i]
  BY <1>1, <1>2, <1>3, <1>4, <1>5
<1>7. HartsOf(r) = s
  BY <1>3, <1>4, <1>5, <1>6, SeqEqual
<1>8. QED
  BY <1>7 DEF r, s, p

LEMMA QueueIs == \A l \in Locks : queue[l] = HartsOf(order[l])
BY DEF queue, HartsOf

LEMMA QueueIsNext == \A l \in Locks : queue'[l] = HartsOf(order'[l])
BY DEF queue, HartsOf

(* A queue changes with its lock's nodes.                                   *)
LEMMA QueueChanges ==
  ASSUME NEW l \in Locks, NEW q, HartsOf(order'[l]) = q,
         \A k \in Locks \ {l} : order'[k] = order[k]
  PROVE  queue' = [queue EXCEPT ![l] = q]
<1>1. queue' = [k \in Locks |-> queue'[k]] /\ queue = [k \in Locks |-> queue[k]]
  BY DEF queue
<1>2. queue'[l] = q /\ \A k \in Locks \ {l} : queue'[k] = queue[k]
  BY QueueIs, QueueIsNext
<1>3. QED
  BY <1>1, <1>2

LEMMA OwnersChange ==
  ASSUME NEW l \in Locks, NEW O, owners'[l] = O,
         \A k \in Locks \ {l} : owners'[k] = owners[k]
  PROVE  owners' = [owners EXCEPT ![l] = O]
<1>1. owners' = [k \in Locks |-> owners'[k]] /\ owners = [k \in Locks |-> owners[k]]
  BY DEF owners
<1>2. QED
  BY <1>1
------------------------------------------------------------------------------
(* The steps of the lock, as steps of the fair lock.                        *)
LEMMA RestSteps ==
  ASSUME NEW h \in Harts,
         \/ Bind(h) \/ SetLocked(h) \/ Link(h) \/ Linkage(h)
         \/ (TryCas(h) /\ tail[cur[h]] # NULL) \/ (Cas(h) /\ tail[cur[h]] # me[h])
         \/ \E l \in Locks : Call(h, l, "bind") \/ Call(h, l, "trybind") \/ Release(h, l),
         McsInv, McsInv'
  PROVE  UNCHANGED F!vars
<1>1. pc \in [Harts -> Labels] /\ me \in [Harts -> Nodes \cup {NULL}]
  BY DEF McsInv, Types
<1>2. OthersRest(h) /\ order' = order
  <2>1. CASE Bind(h) \/ SetLocked(h) \/ Link(h) \/ Linkage(h)
    BY <2>1 DEF Bind, SetLocked, Link, Linkage, Goto, OthersRest, locals, McsInv, Types
  <2>2. CASE (TryCas(h) /\ tail[cur[h]] # NULL) \/ (Cas(h) /\ tail[cur[h]] # me[h])
    BY <2>2 DEF TryCas, Cas, Return, Goto, OthersRest, locals, McsInv, Types
  <2>3. CASE \E l \in Locks : Call(h, l, "bind") \/ Call(h, l, "trybind") \/ Release(h, l)
    BY <2>3 DEF Call, Release, Goto, OthersRest, McsInv, Types
  <2>4. QED
    BY <2>1, <2>2, <2>3
<1>3. pc[h] # "wait"
  BY DEF Bind, SetLocked, Link, Linkage, TryCas, Cas, Call, Release
<1>4. pc'[h] = "wait" => pc[h] = "link" /\ me'[h] = me[h]
  <2>1. CASE Link(h)
    BY <2>1 DEF Link, locals
  <2>2. CASE Bind(h)
    BY <1>1, <2>2 DEF Bind, Goto
  <2>3. CASE SetLocked(h) \/ Linkage(h)
    BY <1>1, <2>3 DEF SetLocked, Linkage, Goto
  <2>4. CASE (TryCas(h) /\ tail[cur[h]] # NULL) \/ (Cas(h) /\ tail[cur[h]] # me[h])
    BY <1>1, <2>4 DEF TryCas, Cas, Return, Goto
  <2>5. CASE \E l \in Locks : Call(h, l, "bind") \/ Call(h, l, "trybind") \/ Release(h, l)
    BY <1>1, <2>5 DEF Call, Release, Goto
  <2>6. QED
    BY <2>1, <2>2, <2>3, <2>4, <2>5
<1>5. QED
  BY <1>2, <1>3, <1>4, Unseen

LEMMA WaitServes ==
  ASSUME McsInv, McsInv', NEW h \in Harts, Wait(h)
  PROVE  F!Next
<1>0. PICK l \in Locks : l = cur[h]
  BY DEF Wait, Swap, Cas, Handoff, McsInv, LocalsExact
<1>1. pc[h] = "wait" /\ ~bindings[me[h]].locked /\ Return(h) /\ order' = order
  BY DEF Wait
<1>2. OthersRest(h) /\ me'[h] = NULL /\ pc'[h] = "idle"
  BY <1>1, ReturnRests DEF McsInv
<1>3. l \in Locks /\ me[h] \in Nodes /\ me[h][1] = h /\ Queued(me[h], l)
  BY <1>0, <1>1 DEF McsInv, LocalsExact, Types
<1>4. PICK i \in 1..Len(order[l]) : order[l][i] = me[h]
  BY <1>3 DEF Queued
<1>5. i = 1
  BY <1>1, <1>3, <1>4, OwnPosition
<1>6. order[l] # << >> /\ order[l][1] = me[h] /\ HandedOver(l)
  BY <1>1, <1>3, <1>4, <1>5 DEF HandedOver
<1>7. owners[l] = {}
  BY <1>3, <1>6, OwnersAre
<1>8. owners'[l] = {h}
  <2>1. ~HandedOver(l)'
    BY <1>1, <1>2, <1>3, <1>6 DEF HandedOver
  <2>2. QED
    BY <1>1, <1>3, <1>6, <2>1, OwnersAreNext
<1>9. \A k \in Locks \ {l} : owners'[k] = owners[k]
  <2>1. \A k \in Locks \ {l} : order[k] # << >> => order[k][1] # me[h] /\ order[k][1] # me'[h]
    BY <1>0, <1>2, NotFirstElsewhere, NoNullQueued DEF McsInv
  <2>2. QED
    BY <1>1, <1>2, <2>1, OwnersKept
<1>10. queue' = queue
  BY <1>1 DEF queue
<1>11. queue[l] # << >> /\ Head(queue[l]) = h
  <2>1. order[l] \in Seq(Nodes)
    BY <1>3 DEF McsInv, Types
  <2>2. QED
    BY <1>3, <1>6, <2>1, HartsOfFacts, QueueIs
<1>12. owners' = [owners EXCEPT ![l] = {h}]
  BY <1>3, <1>8, <1>9, OwnersChange
<1>13. QED
  BY <1>3, <1>7, <1>10, <1>11, <1>12 DEF F!Next, F!Serve

(* A node put on an empty queue takes the lock, and has not to wait.       *)
LEMMA JoinTakes ==
  ASSUME McsInv, McsInv', NEW h \in Harts, pc[h] \in {"swap", "trycas"}, order[cur[h]] = << >>,
         Joins(h), Return(h)
  PROVE  F!Next
<1>0. PICK l \in Locks : l = cur[h]
  BY DEF Wait, Swap, Cas, Handoff, McsInv, LocalsExact
<1>1. OthersRest(h) /\ me'[h] = NULL /\ pc'[h] = "idle"
  BY ReturnRests DEF McsInv
<1>2. l \in Locks /\ me[h] \in Nodes /\ me[h][1] = h /\ me[h] # NULL /\ order[l] \in Seq(Nodes)
  BY DEF McsInv, LocalsExact, Types
<1>3. order'[l] = Append(order[l], me[h]) /\ \A k \in Locks \ {l} : order'[k] = order[k]
  BY <1>0, <1>2 DEF Joins, McsInv, Types
<1>4. order'[l] # << >> /\ order'[l][1] = me[h]
  <2>1. Len(order[l]) = 0
    BY <1>0
  <2>2. QED
    BY <1>2, <1>3, <2>1, AppendProperties
<1>5. owners[l] = {}
  BY <1>0, <1>2, OwnersAre
<1>6. owners'[l] = {h}
  <2>1. ~HandedOver(l)'
    BY <1>1, <1>2, <1>4 DEF HandedOver
  <2>2. QED
    BY <1>2, <1>4, <2>1, OwnersAreNext
<1>7. \A k \in Locks \ {l} : owners'[k] = owners[k]
  BY <1>1, <1>3, OwnersKept
<1>8. queue[l] = << >> /\ HartsOf(order'[l]) = <<h>>
  <2>1. HartsOf(order[l]) = << >>
    BY <1>0, <1>2, HartsOfFacts
  <2>2. HartsOf(order'[l]) = Append(<< >>, h)
    BY <1>2, <1>3, <2>1, HartsOfAppend
  <2>3. QED
    BY <1>2, <2>1, <2>2, QueueIs
<1>9. owners' = [owners EXCEPT ![l] = {h}]
  BY <1>2, <1>6, <1>7, OwnersChange
<1>10. queue' = [queue EXCEPT ![l] = <<h>>]
  BY <1>2, <1>3, <1>8, QueueChanges
<1>11. QED
  BY <1>2, <1>5, <1>8, <1>9, <1>10 DEF F!Next, F!Take

(* A node put on a queue that is not empty only asks.                      *)
LEMMA SwapAsks ==
  ASSUME McsInv, McsInv', NEW h \in Harts, Swap(h), tail[cur[h]] # NULL
  PROVE  F!Next
<1>0. PICK l \in Locks : l = cur[h]
  BY DEF Wait, Swap, Cas, Handoff, McsInv, LocalsExact
<1>1. pc[h] = "swap" /\ Joins(h) /\ pc' = [pc EXCEPT ![h] = "lock"] /\ UNCHANGED <<cur, me, succ, bindings>>
      /\ pred' = [pred EXCEPT ![h] = tail[cur[h]]]
  BY DEF Swap, Goto
<1>2. OthersRest(h) /\ pc'[h] = "lock"
  BY <1>1 DEF OthersRest, McsInv, Types
<1>3. /\ l \in Locks /\ me[h] \in Nodes /\ me[h][1] = h /\ bindings[me[h]].in_use /\ bindings[me[h]].lock = l
      /\ order[l] \in Seq(Nodes) /\ ~Queued(me[h], l)
  BY <1>0, <1>1 DEF McsInv, LocalsExact, Types
<1>4. order'[l] = Append(order[l], me[h]) /\ \A k \in Locks \ {l} : order'[k] = order[k]
  BY <1>0, <1>1, <1>3 DEF Joins, McsInv, Types
<1>5. order[l] # << >>
  BY <1>0, <1>3, EmptyQueue
<1>6. order'[l] # << >> /\ order'[l][1] = order[l][1]
  <2>1. 1 \in 1..Len(order[l])
    BY <1>3, <1>5, NoNullQueued DEF McsInv
  <2>2. QED
    BY <1>3, <1>4, <2>1, AppendProperties
<1>7. \A k \in Locks : owners'[k] = owners[k]
  BY <1>1, <1>2, <1>4, <1>5, <1>6, OwnersKept
<1>8. owners' = owners
  BY <1>7 DEF owners
<1>9. HartsOf(order'[l]) = Append(queue[l], h)
  BY <1>3, <1>4, HartsOfAppend, QueueIs
<1>10. queue' = [queue EXCEPT ![l] = Append(queue[l], h)]
  BY <1>3, <1>4, <1>9, QueueChanges
<1>11. \A i \in 1..Len(queue[l]) : queue[l][i] # h
  <2>1. ASSUME NEW i \in 1..Len(order[l]) PROVE order[l][i][1] # h
    <3>1. order[l][i] \in Nodes /\ Queued(order[l][i], l)
      BY <1>3 DEF Queued
    <3>2. bindings[order[l][i]].in_use /\ bindings[order[l][i]].lock = l
      BY <1>3, <3>1, QueuedBound
    <3>3. order[l][i] # me[h]
      BY <1>3, <3>1
    <3>4. QED
      BY <1>3, <3>1, <3>2, <3>3 DEF McsInv, SlotsExact
  <2>2. QED
    BY <1>3, <2>1, HartsOfFacts, QueueIs
<1>12. QED
  BY <1>3, <1>8, <1>10, <1>11 DEF F!Next, F!Ask

(* The first node leaves; the one behind it, if any, still has to see it.  *)
LEMMA LeaveGivesUp ==
  ASSUME McsInv, McsInv', NEW h \in Harts,
         (Cas(h) /\ tail[cur[h]] = me[h]) \/ Handoff(h)
  PROVE  F!Next
<1>0. PICK l \in Locks : l = cur[h]
  BY DEF Wait, Swap, Cas, Handoff, McsInv, LocalsExact
<1>1. pc[h] \in {"cas", "handoff"} /\ Leaves(h) /\ Return(h)
  BY DEF Cas, Handoff
<1>2. OthersRest(h) /\ me'[h] = NULL /\ pc'[h] = "idle"
  BY <1>1, ReturnRests DEF McsInv
<1>3. /\ l \in Locks /\ me[h] \in Nodes /\ me[h][1] = h /\ me[h] # NULL
      /\ order[l] \in Seq(Nodes) /\ order[l] # << >> /\ order[l][1] = me[h]
  BY <1>0, <1>1 DEF McsInv, LocalsExact, Types
<1>4. order'[l] = Tail(order[l]) /\ \A k \in Locks \ {l} : order'[k] = order[k]
  BY <1>0, <1>1, <1>3 DEF Leaves, McsInv, Types
<1>5. owners[l] = {h}
  <2>1. ~HandedOver(l)
    BY <1>1, <1>3 DEF HandedOver
  <2>2. QED
    BY <1>3, <2>1, OwnersAre
<1>6. owners'[l] = {}
  <2>1. CASE pc[h] = "cas"
    <3>1. tail[cur[h]] = me[h]
      BY <2>1 DEF Handoff
    <3>2. Len(order[l]) = 1
      BY <1>0, <2>1, <3>1, AloneInQueue
    <3>3. order'[l] = << >>
      BY <1>3, <1>4, <3>2, TailFacts
    <3>4. QED
      BY <1>3, <3>3, OwnersAreNext
  <2>2. CASE pc[h] = "handoff"
    <3>1. /\ Len(order[l]) > 1 /\ succ[h] = order[l][2] /\ succ[h] \in Nodes /\ succ[h] # me[h]
          /\ pc[succ[h][1]] = "wait" /\ WaitsBehind(succ[h], me[h])
      BY <1>0, <2>2, Successor
    <3>2. order'[l][1] = succ[h]
      <4>1. Len(order[l]) \in Nat /\ Len(Tail(order[l])) = Len(order[l]) - 1 /\ 1 + 1 = 2
            /\ \A i \in 1..Len(Tail(order[l])) : Tail(order[l])[i] = order[l][i + 1]
        BY <1>3, TailFacts
      <4>2. 1 \in 1..Len(Tail(order[l]))
        BY <3>1, <4>1
      <4>3. Tail(order[l])[1] = order[l][1 + 1]
        BY <4>1, <4>2
      <4>4. QED
        BY <1>4, <3>1, <4>1, <4>3
    <3>3. succ[h][1] \in Harts \ {h} /\ me[succ[h][1]] = succ[h]
      BY <2>2, <3>1, Names DEF WaitsBehind
    <3>4. me'[succ[h][1]] = succ[h] /\ pc'[succ[h][1]] = "wait"
      BY <1>2, <3>1, <3>3 DEF OthersRest
    <3>5. HandedOver(l)'
      BY <3>2, <3>4, <1>1 DEF HandedOver
    <3>6. QED
      BY <1>3, <3>5, OwnersAreNext
  <2>3. QED
    BY <1>1, <2>1, <2>2
<1>7. \A k \in Locks \ {l} : owners'[k] = owners[k]
  BY <1>1, <1>2, <1>4, OwnersKept
<1>8. HartsOf(order'[l]) = Tail(queue[l])
  BY <1>3, <1>4, HartsOfTail, QueueIs
<1>9. owners' = [owners EXCEPT ![l] = {}]
  BY <1>3, <1>6, <1>7, OwnersChange
<1>10. queue' = [queue EXCEPT ![l] = Tail(queue[l])]
  BY <1>3, <1>4, <1>8, QueueChanges
<1>11. queue' = [queue EXCEPT ![l] = Tail(@)]
  BY <1>10
<1>12. QED
  BY <1>3, <1>5, <1>9, <1>11 DEF F!Next, F!GiveUp

LEMMA McsSimulates == McsInv /\ McsInv' /\ [Next]_vars => [F!Next]_(F!vars)
<1> SUFFICES ASSUME McsInv, McsInv', [Next]_vars PROVE [F!Next]_(F!vars)
  OBVIOUS
<1>1. ASSUME NEW h \in Harts, Swap(h) PROVE F!Next
  <2>1. CASE tail[cur[h]] = NULL
    <3>1. pc[h] = "swap" /\ Joins(h) /\ Return(h)
      BY <1>1, <2>1 DEF Swap
    <3>2. cur[h] \in Locks
      BY <3>1 DEF McsInv, LocalsExact
    <3>3. order[cur[h]] = << >>
      BY <2>1, <3>2, EmptyQueue
    <3>4. QED
      BY <3>1, <3>3, JoinTakes
  <2>2. QED
    BY <1>1, <2>1, SwapAsks
<1>2. ASSUME NEW h \in Harts, TryCas(h), tail[cur[h]] = NULL PROVE F!Next
  <2>1. pc[h] = "trycas" /\ Joins(h) /\ Return(h)
    BY <1>2 DEF TryCas
  <2>2. cur[h] \in Locks
    BY <2>1 DEF McsInv, LocalsExact
  <2>3. order[cur[h]] = << >>
    BY <1>2, <2>2, EmptyQueue
  <2>4. QED
    BY <2>1, <2>3, JoinTakes
<1>3. ASSUME NEW h \in Harts, Step(h) PROVE [F!Next]_(F!vars)
  BY <1>1, <1>2, <1>3, WaitServes, LeaveGivesUp, RestSteps DEF Step
<1>4. ASSUME NEW h \in Harts, NEW l \in Locks,
             Call(h, l, "bind") \/ Call(h, l, "trybind") \/ Release(h, l)
      PROVE  UNCHANGED F!vars
  BY <1>4, RestSteps
<1>5. CASE UNCHANGED vars
  <2>1. UNCHANGED <<bindings, pc, cur, order>>
    BY <1>5 DEF vars
  <2>2. owners' = owners
    BY <2>1 DEF owners, Owns, Bound, Acquiring
  <2>3. queue' = queue
    BY <2>1 DEF queue
  <2>4. QED
    BY <2>2, <2>3 DEF F!vars
<1>6. QED
  BY <1>3, <1>4, <1>5 DEF Next

(* The MCS lock implements the fair lock, for any harts, locks and slots:  *)
(* one owner at a time, and in the order of the exchanges on the tail.     *)
THEOREM McsLockCorrect == Spec => ImplementsFifoLock
<1>1. Init => F!Init
  <2> SUFFICES ASSUME Init PROVE F!Init
    OBVIOUS
  <2>1. \A l \in Locks : order[l] = << >>
    BY DEF Init
  <2>2. McsInv
    BY McsInit
  <2>3. \A l \in Locks : queue[l] = << >>
    <3>1. << >> \in Seq(Nodes)
      OBVIOUS
    <3>2. QED
      BY <2>1, <3>1, HartsOfFacts, QueueIs
  <2>4. \A l \in Locks : owners[l] = {}
    BY <2>1, <2>2, OwnersAre
  <2>5. queue = [l \in Locks |-> << >>]
    BY <2>3 DEF queue
  <2>6. owners = [l \in Locks |-> {}]
    BY <2>4 DEF owners
  <2>7. QED
    BY <2>5, <2>6 DEF F!Init
<1>2. QED
  BY <1>1, McsInit, McsNext, McsSimulates, PTL DEF Spec, ImplementsFifoLock, F!Spec
==============================================================================
