---------------------------- MODULE L1CacheProofs ----------------------------
(***************************************************************************)
(* Proofs about the control of the L1 data cache, for any tiles, banks and *)
(* arguments of the calls.                                                 *)
(***************************************************************************)
EXTENDS L1Cache, SequenceTheorems, TLAPS

IsStore(a, r) == a[1] = "store" /\ a[2] = r
IsCommit(a) == IsStore(a, "insn_commit")
WritesBack(a) == IsStore(a, "insn") /\ a[3] # InvalidateAll

Registers == {"insn", "tile_sel", "insn_commit", "xbar_offset", "xbar_commit", "private", "addr",
              "spm", "spm_commit"}

(* The accesses that calls consist of.                                     *)
Stores ==
  UNION { {Store("insn", i) : i \in 0..3},
          {Store("tile_sel", tiles) : tiles \in SUBSET Tiles},
          {Store(r, TRUE) : r \in {"insn_commit", "xbar_commit", "spm_commit"}},
          {Store("xbar_offset", offset) : offset \in Offsets \cup {6}},
          {Store("private", n) : n \in Privates},
          {Store("addr", a) : a \in Addrs},
          {Store("spm", n) : n \in SpmSizes} }

Accesses == {Poll} \cup Stores \cup {<<"realloc", (128 - n) * 128 * 8>> : n \in SpmSizes}

Types ==
  /\ DOMAIN reg = Registers
  /\ reg.insn \in 0..3 /\ reg.tile_sel \subseteq Tiles /\ reg.insn_commit \in BOOLEAN
  /\ cache_flush \in [Tiles -> SUBSET Banks] /\ dirty \in [Tiles -> SUBSET Banks]
  /\ lock \subseteq Tiles
  /\ due \subseteq Tiles \X Banks
  /\ settled \in BOOLEAN /\ invalidating \in BOOLEAN /\ overlap \in BOOLEAN
  /\ todo \in Seq(Accesses)

Steps == 1..Len(todo)

(* The calls by which an InvalidateAll may be committed. *)
Invalidating == {"init", "addr"}

(* Of what is left of a call: only l1d_init stores InvalidateAll, and any   *)
(* other call stores an instruction first, but for l1d_addr.               *)
InsnShape ==
  /\ \A i \in Steps : IsStore(todo[i], "insn") => WritesBack(todo[i]) \/ call = "init"
  /\ call \notin Invalidating /\ reg.insn = InvalidateAll =>
       \A i \in Steps : IsCommit(todo[i]) => \E j \in Steps : j < i /\ WritesBack(todo[j])

(* An instruction committed while none is pending or running is taken at   *)
(* the next clock edge.                                                    *)
CommitExact ==
  /\ settled /\ reg.insn_commit => overlap
  /\ reg.insn_commit /\ ~overlap => lock = {}

(* What is still due is in banks that have not ended the instruction.      *)
DueExact == \A t \in Tiles, b \in Banks : <<t, b>> \in due => b \in cache_flush[t]

(* Where an InvalidateAll that is pending or in the banks comes from.      *)
InvalidateExact ==
  /\ reg.insn_commit /\ reg.insn = InvalidateAll => by \in Invalidating
  /\ invalidating => cause \in Invalidating

CacheInv == Types /\ Tracking /\ InsnShape /\ CommitExact /\ DueExact /\ InvalidateExact
------------------------------------------------------------------------------
LEMMA CacheInit == Init => CacheInv
<1> SUFFICES ASSUME Init PROVE CacheInv
  OBVIOUS
<1>1. todo = << >> /\ Len(todo) = 0 /\ Steps = {} /\ todo \in Seq(Accesses)
  BY DEF Init, Steps
<1>2. settled = TRUE /\ invalidating = FALSE /\ reg.insn_commit = FALSE /\ overlap = FALSE
  BY DEF Init
<1>3. settled \in BOOLEAN /\ invalidating \in BOOLEAN /\ reg.insn_commit \in BOOLEAN /\ overlap \in BOOLEAN
  BY <1>2
<1>4. Types
  BY <1>1, <1>3, CacheAssumption DEF Init, Types, None, Registers
<1>5. Tracking
  BY DEF Init, Tracking, None
<1>6. InsnShape
  BY <1>1 DEF InsnShape
<1>7. CommitExact /\ DueExact /\ InvalidateExact
  BY <1>2 DEF Init, CommitExact, DueExact, InvalidateExact
<1>8. QED
  BY <1>4, <1>5, <1>6, <1>7 DEF CacheInv

(* The accesses, and what is left after the first of them.                 *)
LEMMA KindsOfAccess ==
  ASSUME NEW a \in Accesses
  PROVE  \/ a = Poll /\ a[1] = "poll"
         \/ a[1] = "realloc" /\ a # Poll
         \/ /\ a[1] = "store" /\ a # Poll /\ a[2] \in Registers
            /\ a[2] = "insn" => a[3] \in 0..3
            /\ a[2] = "tile_sel" => a[3] \subseteq Tiles
            /\ a[2] = "insn_commit" => a[3] = TRUE
<1>1. ASSUME a \in Stores
      PROVE  /\ a[1] = "store" /\ a[2] \in Registers
             /\ a[2] = "insn" => a[3] \in 0..3
             /\ a[2] = "tile_sel" => a[3] \subseteq Tiles
             /\ a[2] = "insn_commit" => a[3] = TRUE
  <2>1. \/ \E i \in 0..3 : a = <<"store", "insn", i>>
        \/ \E tiles \in SUBSET Tiles : a = <<"store", "tile_sel", tiles>>
        \/ \E r \in {"insn_commit", "xbar_commit", "spm_commit"} : a = <<"store", r, TRUE>>
        \/ \E v : \E r \in {"xbar_offset", "private", "addr", "spm"} : a = <<"store", r, v>>
    BY <1>1, Zenon DEF Stores, Store
  <2>2. CASE \E i \in 0..3 : a = <<"store", "insn", i>>
    BY <2>2 DEF Registers
  <2>3. CASE \E tiles \in SUBSET Tiles : a = <<"store", "tile_sel", tiles>>
    BY <2>3 DEF Registers
  <2>4. CASE \E r \in {"insn_commit", "xbar_commit", "spm_commit"} : a = <<"store", r, TRUE>>
    <3>1. PICK r \in {"insn_commit", "xbar_commit", "spm_commit"} : a = <<"store", r, TRUE>>
      BY <2>4
    <3>2. a[1] = "store" /\ a[2] = r
      BY <3>1
    <3>3. a[3] = TRUE
      BY <3>1, Zenon
    <3>4. QED
      BY <3>2, <3>3 DEF Registers
  <2>5. CASE \E v : \E r \in {"xbar_offset", "private", "addr", "spm"} : a = <<"store", r, v>>
    BY <2>5 DEF Registers
  <2>6. QED
    BY <2>1, <2>2, <2>3, <2>4, <2>5
<1>2. ASSUME a \notin Stores, a # Poll PROVE a[1] = "realloc"
  BY <1>2 DEF Accesses
<1>3. Poll[1] = "poll"
  BY DEF Poll
<1>4. QED
  BY <1>1, <1>2, <1>3

LEMMA TailOfTodo ==
  ASSUME Types, todo # << >>
  PROVE  /\ Len(todo) \in Nat /\ Len(todo) > 0 /\ Head(todo) = todo[1] /\ todo[1] \in Accesses
         /\ 1 \in Steps
         /\ Len(Tail(todo)) = Len(todo) - 1 /\ Tail(todo) \in Seq(Accesses)
         /\ \A i \in 1..Len(Tail(todo)) : Tail(todo)[i] = todo[i + 1] /\ i + 1 \in Steps
BY DEF Types, Steps
------------------------------------------------------------------------------
(* While no tile is busy, nothing is due.                                  *)
LEMMA IdleNothingDue ==
  ASSUME CacheInv, lock = {}
  PROVE  due = {} /\ \A t \in Tiles : cache_flush[t] = {}
<1>1. \A t \in Tiles : cache_flush[t] = {}
  BY DEF CacheInv, Tracking
<1>2. \A t \in Tiles, b \in Banks : <<t, b>> \notin due
  BY <1>1 DEF CacheInv, DueExact
<1>3. QED
  BY <1>1, <1>2 DEF CacheInv, Types

(* The rest of a call is in shape after an access: the instruction in the  *)
(* register is another one only if the access stored it.                   *)
LEMMA RestInShape ==
  ASSUME Types, InsnShape, todo # << >>, Proceed,
         reg'.insn = IF IsStore(todo[1], "insn") THEN todo[1][3] ELSE reg.insn
  PROVE  InsnShape' /\ todo' \in Seq(Accesses)
<1>1. /\ Len(todo) \in Nat /\ Len(todo) > 0 /\ todo' \in Seq(Accesses) /\ Len(todo') = Len(todo) - 1
      /\ \A i \in 1..Len(todo') : todo'[i] = todo[i + 1] /\ i + 1 \in Steps
      /\ 1 \in Steps
  BY TailOfTodo DEF Proceed
<1>2. ASSUME NEW i \in Steps' PROVE i + 1 \in Steps /\ i \in Nat /\ i > 0 /\ todo'[i] = todo[i + 1] /\ call' = call
  <2>1. i \in 1..Len(todo') /\ todo' # << >>
    BY <1>1, <1>2 DEF Steps
  <2>2. QED
    BY <1>1, <2>1 DEF Proceed
<1>3. \A i \in Steps' : IsStore(todo'[i], "insn") => WritesBack(todo'[i]) \/ call' = "init"
  BY <1>2 DEF InsnShape
<1>4. ASSUME call' \notin Invalidating, reg'.insn = InvalidateAll, NEW i \in Steps', IsCommit(todo'[i])
      PROVE  \E j \in Steps' : j < i /\ WritesBack(todo'[j])
  <2>1. i + 1 \in Steps /\ i \in Nat /\ i > 0 /\ IsCommit(todo[i + 1]) /\ call \notin Invalidating
    BY <1>2, <1>4
  <2>2. ~IsStore(todo[1], "insn") /\ reg.insn = InvalidateAll
    BY <1>1, <1>4, <2>1 DEF InsnShape, WritesBack, Invalidating
  <2>3. PICK j \in Steps : j < i + 1 /\ WritesBack(todo[j])
    BY <2>1, <2>2 DEF InsnShape
  <2>4. j # 1
    BY <2>2, <2>3 DEF WritesBack
  <2>5. j - 1 \in Steps' /\ j - 1 < i /\ todo'[j - 1] = todo[j]
    BY <1>1, <2>1, <2>3, <2>4 DEF Steps
  <2>6. QED
    BY <2>3, <2>5
<1>5. QED
  BY <1>1, <1>3, <1>4 DEF InsnShape

(* A store to a register.                                                  *)
LEMMA WriteInv == ASSUME CacheInv, Write PROVE CacheInv'
<1> DEFINE a == todo[1]
<1> USE DEF CacheInv
<1>1. /\ todo # << >> /\ Head(todo) = a /\ 1 \in Steps /\ Len(todo) \in Nat
      /\ a[1] = "store" /\ a # Poll /\ a[2] \in Registers
      /\ a[2] = "insn" => a[3] \in 0..3
      /\ a[2] = "tile_sel" => a[3] \subseteq Tiles
      /\ a[2] = "insn_commit" => a[3] = TRUE
  BY TailOfTodo, KindsOfAccess DEF Write
<1>2. /\ DOMAIN reg' = Registers
      /\ reg'.insn = IF a[2] = "insn" THEN a[3] ELSE reg.insn
      /\ reg'.tile_sel = IF a[2] = "tile_sel" THEN a[3] ELSE reg.tile_sel
      /\ reg'.insn_commit = IF a[2] = "insn_commit" THEN a[3] ELSE reg.insn_commit
  BY <1>1 DEF Write, Types, Registers
<1>3. UNCHANGED <<lock, flush_pending, cache_flush, invalidating, dirty, l1d_private, due, cause>>
      /\ settled' = FALSE /\ Proceed /\ settled
  BY DEF Write, tileVars, config
<1>4. /\ overlap' = IF a[2] = "insn_commit" THEN lock # {} \/ reg.insn_commit ELSE overlap
      /\ by' = IF a[2] \notin {"insn", "insn_commit"} THEN by
               ELSE IF reg'.insn = InvalidateAll THEN call ELSE "none"
  BY <1>1 DEF Write
<1>5. /\ IsStore(a, "insn") <=> a[2] = "insn"
      /\ IsCommit(a) <=> a[2] = "insn_commit"
  BY <1>1 DEF IsCommit, IsStore
<1>6. InsnShape' /\ todo' \in Seq(Accesses)
  BY <1>1, <1>2, <1>3, <1>5, RestInShape
<1>7. Types'
  <2>1. reg'.insn_commit \in BOOLEAN
    BY <1>1, <1>2 DEF Types
  <2>2. settled' \in BOOLEAN /\ invalidating' \in BOOLEAN
    BY <1>3 DEF Types
  <2>3. overlap' \in BOOLEAN
    <3>1. (lock # {} \/ reg.insn_commit) \in BOOLEAN
      OBVIOUS
    <3>2. QED
      BY <1>4, <3>1 DEF Types
  <2>4. QED
    BY <1>1, <1>2, <1>3, <1>6, <2>1, <2>2, <2>3 DEF Types
<1>8. CommitExact'
  BY <1>1, <1>2, <1>3, <1>4 DEF CommitExact
<1>9. DueExact' /\ Tracking'
  BY <1>3 DEF DueExact, Tracking
<1>10. InvalidateExact'
  <2>1. ASSUME a[2] = "insn", reg'.insn = InvalidateAll PROVE by' \in Invalidating
    <3>1. ~WritesBack(a) /\ IsStore(a, "insn")
      BY <1>2, <1>5, <2>1 DEF WritesBack
    <3>2. call = "init"
      BY <1>1, <3>1 DEF InsnShape
    <3>3. QED
      BY <1>4, <2>1, <3>2 DEF Invalidating
  <2>2. ASSUME a[2] = "insn_commit", reg'.insn = InvalidateAll PROVE by' \in Invalidating
    <3>1. reg.insn = InvalidateAll /\ IsCommit(a) /\ by' = call
      BY <1>2, <1>4, <1>5, <2>2
    <3>2. call \notin Invalidating => \E j \in Steps : j < 1 /\ WritesBack(todo[j])
      BY <1>1, <3>1 DEF InsnShape
    <3>3. QED
      BY <3>1, <3>2, <1>1 DEF Steps
  <2>3. QED
    BY <1>2, <1>3, <1>4, <2>1, <2>2 DEF InvalidateExact
<1>11. QED
  BY <1>6, <1>7, <1>8, <1>9, <1>10
------------------------------------------------------------------------------
(* The sequences of accesses that the calls make.                          *)
Proper(p, name) ==
  /\ p \in Seq(Accesses) /\ p # << >>
  /\ \A i \in 1..Len(p) : IsStore(p[i], "insn") => WritesBack(p[i]) \/ name = "init"
  /\ name \notin Invalidating =>
       \A i \in 1..Len(p) : IsCommit(p[i]) => \E j \in 1..Len(p) : j < i /\ WritesBack(p[j])

Commit == Store("insn_commit", TRUE)

LEMMA KindsOfStore ==
  /\ IsCommit(Commit) /\ ~IsStore(Commit, "insn")
  /\ ~IsCommit(Poll) /\ ~IsStore(Poll, "insn")
  /\ \A i \in 0..3 : IsStore(Store("insn", i), "insn") /\ ~IsCommit(Store("insn", i))
  /\ \A i \in 0..2 : WritesBack(Store("insn", i))
  /\ \A v : \A r \in {"tile_sel", "xbar_offset", "xbar_commit", "private", "addr", "spm", "spm_commit"} :
        ~IsCommit(Store(r, v)) /\ ~IsStore(Store(r, v), "insn")
  /\ \A n : ~IsCommit(<<"realloc", n>>) /\ ~IsStore(<<"realloc", n>>, "insn")
BY DEF Commit, Store, IsCommit, IsStore, Poll, WritesBack, InvalidateAll

LEMMA AccessTypes ==
  /\ Poll \in Accesses /\ Commit \in Accesses
  /\ \A i \in 0..3 : Store("insn", i) \in Accesses
  /\ \A tiles \in TileMasks : Store("tile_sel", tiles) \in Accesses
  /\ Store("xbar_commit", TRUE) \in Accesses /\ Store("spm_commit", TRUE) \in Accesses
  /\ \A offset \in Offsets \cup {6} : Store("xbar_offset", offset) \in Accesses
  /\ \A n \in Privates : Store("private", n) \in Accesses
  /\ \A a \in Addrs : Store("addr", a) \in Accesses
  /\ \A n \in SpmSizes : Store("spm", n) \in Accesses /\ <<"realloc", (128 - n) * 128 * 8>> \in Accesses
<1>1. \A r \in {"insn_commit", "xbar_commit", "spm_commit"} : Store(r, TRUE) \in Stores
  BY Zenon DEF Stores
<1>2. \A tiles \in TileMasks : Store("tile_sel", tiles) \in Stores
  <2>1. \A tiles \in TileMasks : tiles \in SUBSET Tiles
    BY CacheAssumption
  <2>2. QED
    BY <2>1, Zenon DEF Stores
<1>3. /\ \A i \in 0..3 : Store("insn", i) \in Stores
      /\ \A offset \in Offsets \cup {6} : Store("xbar_offset", offset) \in Stores
      /\ \A n \in Privates : Store("private", n) \in Stores
      /\ \A a \in Addrs : Store("addr", a) \in Stores
      /\ \A n \in SpmSizes : Store("spm", n) \in Stores
  BY Zenon DEF Stores
<1>4. \A n \in SpmSizes : <<"realloc", (128 - n) * 128 * 8>> \in Accesses
  BY DEF Accesses
<1>5. Stores \subseteq Accesses /\ Poll \in Accesses
  BY DEF Accesses
<1>6. QED
  BY <1>1, <1>2, <1>3, <1>4, <1>5 DEF Commit

LEMMA Joined ==
  ASSUME NEW p \in Seq(Accesses), NEW q \in Seq(Accesses)
  PROVE  /\ p \o q \in Seq(Accesses) /\ Len(p \o q) = Len(p) + Len(q)
         /\ \A i \in 1..Len(p) : (p \o q)[i] = p[i]
         /\ \A i \in 1..Len(q) : (p \o q)[Len(p) + i] = q[i]
OBVIOUS

(* A store and the commit.                                                 *)
LEMMA StoreAndCommit ==
  ASSUME NEW a \in Accesses
  PROVE  /\ <<a>> \o l1d_commit \in Seq(Accesses) /\ Len(<<a>> \o l1d_commit) = 2
         /\ (<<a>> \o l1d_commit)[1] = a /\ (<<a>> \o l1d_commit)[2] = Commit
<1>1. Commit \in Accesses
  BY AccessTypes
<1>2. /\ <<a>> \in Seq(Accesses) /\ Len(<<a>>) = 1 /\ <<a>>[1] = a
      /\ <<Commit>> \in Seq(Accesses) /\ Len(<<Commit>>) = 1 /\ <<Commit>>[1] = Commit
  BY <1>1
<1>3. l1d_commit = <<Commit>>
  BY DEF l1d_commit, Commit
<1>4. QED
  BY <1>2, <1>3, Joined

(* A flush and the wait for it.                                            *)
LEMMA StoreCommitPoll ==
  ASSUME NEW a \in Accesses
  PROVE  LET p == <<a>> \o l1d_commit \o l1d_wait IN
         p \in Seq(Accesses) /\ Len(p) = 3 /\ p[1] = a /\ p[2] = Commit /\ p[3] = Poll
<1> DEFINE q == <<a>> \o l1d_commit
<1>1. q \in Seq(Accesses) /\ Len(q) = 2 /\ q[1] = a /\ q[2] = Commit
  BY StoreAndCommit
<1>2. l1d_wait \in Seq(Accesses) /\ Len(l1d_wait) = 1 /\ l1d_wait[1] = Poll
  BY AccessTypes DEF l1d_wait
<1> HIDE DEF q
<1>3. q \o l1d_wait \in Seq(Accesses) /\ Len(q \o l1d_wait) = 3
      /\ (q \o l1d_wait)[1] = a /\ (q \o l1d_wait)[2] = Commit /\ (q \o l1d_wait)[3] = Poll
  <2>1. /\ q \o l1d_wait \in Seq(Accesses) /\ Len(q \o l1d_wait) = Len(q) + Len(l1d_wait)
        /\ \A i \in 1..Len(q) : (q \o l1d_wait)[i] = q[i]
        /\ \A i \in 1..Len(l1d_wait) : (q \o l1d_wait)[Len(q) + i] = l1d_wait[i]
    BY <1>1, <1>2, Joined
  <2>2. 1 \in 1..2 /\ 2 \in 1..2 /\ 1 \in 1..1
    OBVIOUS
  <2>3. QED
    BY <1>1, <1>2, <2>1, <2>2
<1>4. QED
  BY <1>3 DEF q

(* The flush that most calls begin with, and the calls that are no more.   *)
LEMMA ProperFlush ==
  /\ Proper(l1d_wait, "wait")
  /\ Proper(l1d_init, "init")
  /\ Proper(l1d_flush, "flush")
  /\ Proper(l1d_shared_flush, "shared_flush")
  /\ \A tiles \in TileMasks : Proper(l1d_private_flush(tiles), "private_flush")
  /\ \A a \in Addrs : Proper(l1d_addr(a), "addr")
<1> USE DEF Invalidating
<1>1. Proper(l1d_wait, "wait")
  <2>1. l1d_wait \in Seq(Accesses) /\ Len(l1d_wait) = 1 /\ l1d_wait[1] = Poll
    BY AccessTypes DEF l1d_wait
  <2>2. QED
    BY <2>1, KindsOfStore DEF Proper
<1>2. Proper(l1d_init, "init")
  <2>1. Store("insn", 3) \in Accesses /\ ~IsCommit(Store("insn", 3))
    <3>1. 3 \in 0..3
      OBVIOUS
    <3>2. QED
      BY <3>1, AccessTypes, KindsOfStore, Zenon
  <2>2. /\ l1d_init \in Seq(Accesses) /\ Len(l1d_init) = 3 /\ l1d_init[1] = Store("insn", 3)
        /\ l1d_init[2] = Commit /\ l1d_init[3] = Poll
    BY <2>1, StoreCommitPoll DEF l1d_init, InvalidateAll
  <2>3. Len(l1d_init) = 3
    BY <2>2, Zenon
  <2>4. l1d_init # << >>
    BY <2>3
  <2>5. QED
    BY <2>2, <2>4 DEF Proper
<1>3. ASSUME NEW insn \in 0..2, NEW name \in {"flush", "shared_flush"}
      PROVE  Proper(<<Store("insn", insn)>> \o l1d_commit, name)
  <2> DEFINE p == <<Store("insn", insn)>> \o l1d_commit
  <2>1. Store("insn", insn) \in Accesses /\ ~IsCommit(Store("insn", insn)) /\ WritesBack(Store("insn", insn))
    BY AccessTypes, KindsOfStore
  <2>2. p \in Seq(Accesses) /\ Len(p) = 2 /\ p[1] = Store("insn", insn) /\ p[2] = Commit
    BY <2>1, StoreAndCommit
  <2> HIDE DEF p
  <2>3. Proper(p, name)
    BY <2>1, <2>2, KindsOfStore DEF Proper
  <2>4. QED
    BY <2>3 DEF p
<1>4. Proper(l1d_flush, "flush") /\ Proper(l1d_shared_flush, "shared_flush")
  <2>1. l1d_flush = <<Store("insn", 2)>> \o l1d_commit /\ l1d_shared_flush = <<Store("insn", 1)>> \o l1d_commit
    BY DEF l1d_flush, l1d_shared_flush, FlushAll, FlushShared
  <2>2. 1 \in 0..2 /\ 2 \in 0..2
    OBVIOUS
  <2>3. QED
    BY <1>3, <2>1, <2>2, Zenon
<1>5. ASSUME NEW tiles \in TileMasks PROVE Proper(l1d_private_flush(tiles), "private_flush")
  <2> DEFINE p == l1d_private_flush(tiles)
             a == Store("insn", 0)
             b == Store("tile_sel", tiles)
  <2>1. /\ a \in Accesses /\ b \in Accesses /\ Commit \in Accesses /\ ~IsCommit(a) /\ WritesBack(a)
        /\ ~IsCommit(b) /\ ~IsStore(b, "insn") /\ IsCommit(Commit) /\ ~IsStore(Commit, "insn")
    BY AccessTypes, KindsOfStore
  <2>2. p = <<a, b>> \o <<Commit>>
    BY DEF l1d_private_flush, l1d_commit, Commit, FlushPrivate
  <2> HIDE DEF p, a, b
  <2>3. /\ <<a, b>> \in Seq(Accesses) /\ Len(<<a, b>>) = 2 /\ <<a, b>>[1] = a /\ <<a, b>>[2] = b
        /\ <<Commit>> \in Seq(Accesses) /\ Len(<<Commit>>) = 1 /\ <<Commit>>[1] = Commit
    BY <2>1
  <2>4. p \in Seq(Accesses) /\ Len(p) = 3 /\ p[1] = a /\ p[2] = b /\ p[3] = Commit
    BY <2>2, <2>3, Joined
  <2>5. \A i \in 1..3 : IsCommit(p[i]) => i = 3 /\ 1 < i
    BY <2>1, <2>4
  <2>6. \A i \in 1..3 : IsStore(p[i], "insn") => WritesBack(p[i])
    BY <2>1, <2>4
  <2>7. 1 \in 1..Len(p) /\ WritesBack(p[1]) /\ p # << >>
    BY <2>1, <2>4
  <2>8. Proper(p, "private_flush")
    BY <2>4, <2>5, <2>6, <2>7 DEF Proper
  <2>9. QED
    BY <2>8 DEF p
<1>6. ASSUME NEW a \in Addrs PROVE Proper(l1d_addr(a), "addr")
  <2>1. /\ Store("addr", a) \in Accesses /\ ~IsCommit(Store("addr", a)) /\ ~IsStore(Store("addr", a), "insn")
    BY AccessTypes, KindsOfStore
  <2>2. /\ l1d_addr(a) \in Seq(Accesses) /\ Len(l1d_addr(a)) = 2 /\ l1d_addr(a)[1] = Store("addr", a)
        /\ l1d_addr(a)[2] = Commit
    BY <2>1, StoreAndCommit DEF l1d_addr
  <2>3. \A i \in 1..2 : ~IsStore(l1d_addr(a)[i], "insn") /\ (IsCommit(l1d_addr(a)[i]) => i = 2)
    BY <2>1, <2>2, KindsOfStore
  <2>4. QED
    BY <2>2, <2>3 DEF Proper
<1>7. QED
  BY <1>1, <1>2, <1>4, <1>5, <1>6

(* The calls that flush, wait and then change the configuration: a proper  *)
(* sequence that writes back, and what may come after and before it.       *)
ProperFlushing(p) == Proper(p, "flush") /\ \E j \in 1..Len(p) : WritesBack(p[j])

Harmless(q) ==
  /\ q \in Seq(Accesses) /\ q # << >>
  /\ \A i \in 1..Len(q) : ~IsStore(q[i], "insn")

LEMMA ProperThen ==
  ASSUME NEW p, NEW q, ProperFlushing(p), Harmless(q)
  PROVE  ProperFlushing(p \o q)
<1> DEFINE r == p \o q
<1>1. /\ p \in Seq(Accesses) /\ q \in Seq(Accesses) /\ Len(p) \in Nat /\ Len(q) \in Nat
      /\ Len(p) > 0 /\ Len(q) > 0
  BY DEF ProperFlushing, Proper, Harmless
<1>2. /\ r \in Seq(Accesses) /\ Len(r) = Len(p) + Len(q)
      /\ \A i \in 1..Len(p) : r[i] = p[i]
      /\ \A i \in 1..Len(q) : r[Len(p) + i] = q[i]
  BY <1>1, Joined
<1> HIDE DEF r
<1>3. PICK j \in 1..Len(p) : WritesBack(p[j])
  BY DEF ProperFlushing
<1>4. j \in 1..Len(r) /\ WritesBack(r[j])
  BY <1>1, <1>2, <1>3
<1>6. ASSUME NEW i \in 1..Len(r), i \notin 1..Len(p)
      PROVE  i - Len(p) \in 1..Len(q) /\ r[i] = q[i - Len(p)] /\ Len(p) < i
  <2>1. i - Len(p) \in 1..Len(q) /\ Len(p) < i
    BY <1>1, <1>2, <1>6
  <2>2. r[Len(p) + (i - Len(p))] = q[i - Len(p)]
    BY <1>2, <2>1
  <2>3. QED
    BY <1>1, <2>1, <2>2
<1>7. ASSUME NEW i \in 1..Len(r)
      PROVE  /\ IsStore(r[i], "insn") => WritesBack(r[i])
             /\ IsCommit(r[i]) => \E k \in 1..Len(r) : k < i /\ WritesBack(r[k])
  <2>1. CASE i \in 1..Len(p)
    <3>1. IsCommit(p[i]) => \E k \in 1..Len(p) : k < i /\ WritesBack(p[k])
      BY <2>1 DEF ProperFlushing, Proper, Invalidating
    <3>2. \A k \in 1..Len(p) : k \in 1..Len(r) /\ r[k] = p[k]
      BY <1>1, <1>2
    <3>3. IsCommit(p[i]) => \E k \in 1..Len(r) : k < i /\ WritesBack(r[k])
      BY <3>1, <3>2
    <3>4. IsStore(p[i], "insn") => WritesBack(p[i])
      BY <2>1 DEF ProperFlushing, Proper
    <3>5. QED
      BY <2>1, <3>2, <3>3, <3>4
  <2>2. CASE i \notin 1..Len(p)
    <3>1. i - Len(p) \in 1..Len(q) /\ r[i] = q[i - Len(p)] /\ Len(p) < i
      BY <1>6, <2>2
    <3>2. ~IsStore(r[i], "insn")
      BY <3>1 DEF Harmless
    <3>3. j < i
      BY <1>1, <3>1
    <3>4. QED
      BY <1>4, <3>2, <3>3
  <2>3. QED
    BY <2>1, <2>2
<1>8. r # << >>
  BY <1>1, <1>2
<1>9. ProperFlushing(r)
  BY <1>2, <1>4, <1>7, <1>8 DEF ProperFlushing, Proper
<1>10. QED
  BY <1>9 DEF r

LEMMA ProperAfter ==
  ASSUME NEW x \in Accesses, ~IsStore(x, "insn"), ~IsCommit(x), NEW p, ProperFlushing(p)
  PROVE  ProperFlushing(<<x>> \o p)
<1> DEFINE r == <<x>> \o p
<1>1. p \in Seq(Accesses) /\ Len(p) \in Nat /\ Len(p) > 0
  BY DEF ProperFlushing, Proper
<1>2. /\ r \in Seq(Accesses) /\ Len(r) = 1 + Len(p) /\ r[1] = x
      /\ \A i \in 1..Len(p) : r[1 + i] = p[i]
  <2>1. <<x>> \in Seq(Accesses) /\ Len(<<x>>) = 1 /\ <<x>>[1] = x /\ 1 \in 1..1
    OBVIOUS
  <2>2. QED
    BY <1>1, <2>1, Joined
<1> HIDE DEF r
<1>3. ASSUME NEW i \in 1..Len(r), i # 1
      PROVE  i - 1 \in 1..Len(p) /\ r[i] = p[i - 1]
  <2>1. i - 1 \in 1..Len(p)
    BY <1>1, <1>2, <1>3
  <2>2. r[1 + (i - 1)] = p[i - 1]
    BY <1>2, <2>1
  <2>3. QED
    BY <1>1, <1>2, <2>1, <2>2
<1>4. ASSUME NEW i \in 1..Len(r)
      PROVE  /\ IsStore(r[i], "insn") => WritesBack(r[i])
             /\ IsCommit(r[i]) => \E k \in 1..Len(r) : k < i /\ WritesBack(r[k])
  <2>1. CASE i = 1
    BY <1>2, <2>1
  <2>2. CASE i # 1
    <3>1. i - 1 \in 1..Len(p) /\ r[i] = p[i - 1]
      BY <1>3, <2>2
    <3>2. IsCommit(p[i - 1]) => \E k \in 1..Len(p) : k < i - 1 /\ WritesBack(p[k])
      BY <3>1 DEF ProperFlushing, Proper, Invalidating
    <3>3. \A k \in 1..Len(p) : k < i - 1 => k + 1 \in 1..Len(r) /\ k + 1 < i /\ r[k + 1] = p[k]
      BY <1>1, <1>2
    <3>4. IsCommit(p[i - 1]) => \E k \in 1..Len(r) : k < i /\ WritesBack(r[k])
      BY <3>2, <3>3
    <3>5. IsStore(p[i - 1], "insn") => WritesBack(p[i - 1])
      BY <3>1 DEF ProperFlushing, Proper
    <3>6. QED
      BY <3>1, <3>4, <3>5
  <2>3. QED
    BY <2>1, <2>2
<1>5. PICK j \in 1..Len(p) : WritesBack(p[j])
  BY DEF ProperFlushing
<1>6. j + 1 \in 1..Len(r) /\ WritesBack(r[j + 1])
  BY <1>1, <1>2, <1>5
<1>7. ProperFlushing(r)
  BY <1>1, <1>2, <1>4, <1>6 DEF ProperFlushing, Proper
<1>8. QED
  BY <1>7 DEF r

LEMMA HarmlessOne ==
  ASSUME NEW a \in Accesses, ~IsStore(a, "insn")
  PROVE  Harmless(<<a>>)
BY DEF Harmless

LEMMA ProperConfig ==
  /\ \A offset \in Offsets : Proper(l1d_xbar_config(offset), "xbar_config")
  /\ \A n \in Privates : Proper(l1d_part(n), "part")
  /\ \A n \in SpmSizes : Proper(l1d_spm_config(n), "spm_config")
<1> USE DEF ProperFlushing
<1>1. Harmless(l1d_commit) /\ Harmless(l1d_wait) /\ Harmless(l1d_xbar_commit)
  <2>1. /\ Poll \in Accesses /\ Commit \in Accesses /\ Store("xbar_commit", TRUE) \in Accesses
        /\ ~IsStore(Poll, "insn") /\ ~IsStore(Commit, "insn") /\ ~IsStore(Store("xbar_commit", TRUE), "insn")
    BY AccessTypes, KindsOfStore
  <2>2. QED
    BY <2>1, HarmlessOne DEF l1d_commit, l1d_wait, l1d_xbar_commit, Commit
<1>2. ProperFlushing(l1d_flush)
  <2>1. 2 \in 0..3 /\ 2 \in 0..2
    OBVIOUS
  <2>2. Store("insn", 2) \in Accesses /\ WritesBack(Store("insn", 2))
    BY <2>1, AccessTypes, KindsOfStore, Zenon
  <2>3. Len(l1d_flush) = 2 /\ l1d_flush[1] = Store("insn", 2)
    BY <2>2, StoreAndCommit DEF l1d_flush, FlushAll
  <2>4. 1 \in 1..Len(l1d_flush)
    BY <2>3
  <2>5. QED
    BY <2>2, <2>3, <2>4, ProperFlush
<1>3. ProperFlushing(l1d_flush \o l1d_wait)
  BY <1>1, <1>2, ProperThen
<1>4. \A p, name : Proper(p, "flush") => Proper(p, name)
  BY DEF Proper, Invalidating
<1>5. ASSUME NEW n \in Privates PROVE Proper(l1d_part(n), "part")
  <2> DEFINE b == Store("private", n)
             p == l1d_flush \o l1d_wait
  <2>1. b \in Accesses /\ ~IsStore(b, "insn")
    BY AccessTypes, KindsOfStore
  <2>2. ProperFlushing(p)
    BY <1>3
  <2> HIDE DEF b, p, ProperFlushing
  <2>3. ProperFlushing(p \o <<b>>)
    BY <2>1, <2>2, HarmlessOne, ProperThen
  <2>4. ProperFlushing(p \o <<b>> \o l1d_commit)
    BY <1>1, <2>3, ProperThen
  <2>5. QED
    BY <1>4, <2>4 DEF l1d_part, b, p, ProperFlushing
<1>6. ASSUME NEW offset \in Offsets PROVE Proper(l1d_xbar_config(offset), "xbar_config")
  <2> DEFINE x == Store("xbar_offset", IF offset > 6 THEN offset ELSE 6)
             p == <<x>> \o l1d_flush
  <2>1. x \in Accesses /\ ~IsStore(x, "insn") /\ ~IsCommit(x)
    BY AccessTypes, KindsOfStore
  <2> HIDE DEF x, ProperFlushing
  <2>2. ProperFlushing(p)
    BY <1>2, <2>1, ProperAfter
  <2> HIDE DEF p
  <2>3. ProperFlushing(p \o l1d_wait)
    BY <1>1, <2>2, ProperThen
  <2>4. ProperFlushing(p \o l1d_wait \o l1d_xbar_commit)
    BY <1>1, <2>3, ProperThen
  <2>5. QED
    BY <1>4, <2>4 DEF l1d_xbar_config, x, p, ProperFlushing
<1>7. ASSUME NEW n \in SpmSizes PROVE Proper(l1d_spm_config(n), "spm_config")
  <2> DEFINE a == <<"realloc", (128 - n) * 128 * 8>>
             b == Store("spm", n)
             c == Store("spm_commit", TRUE)
             p == l1d_flush \o l1d_wait
  <2>1. /\ a \in Accesses /\ b \in Accesses /\ c \in Accesses
        /\ ~IsStore(a, "insn") /\ ~IsStore(b, "insn") /\ ~IsStore(c, "insn")
    BY AccessTypes, KindsOfStore
  <2>2. ProperFlushing(p)
    BY <1>3
  <2> HIDE DEF a, b, c, p, ProperFlushing
  <2>3. Harmless(<<a, b, c>>)
    BY <2>1 DEF Harmless
  <2>4. ProperFlushing(p \o <<a, b, c>>)
    BY <2>2, <2>3, ProperThen
  <2>5. QED
    BY <1>4, <2>4 DEF l1d_spm_config, a, b, c, p, ProperFlushing
<1>8. QED
  BY <1>5, <1>6, <1>7
------------------------------------------------------------------------------
(* What the conditions on the hardware read, when no access and no clock   *)
(* edge changes it.                                                        *)
LEMMA HardwareUnchanged ==
  ASSUME Types, Tracking, CommitExact, DueExact, InvalidateExact,
         UNCHANGED <<reg, lock, flush_pending, cache_flush, invalidating, due, overlap, by, cause>>,
         dirty' \in [Tiles -> SUBSET Banks], settled' = settled \/ settled' = FALSE,
         todo' \in Seq(Accesses)
  PROVE  Types' /\ Tracking' /\ CommitExact' /\ DueExact' /\ InvalidateExact'
<1>1. settled' \in BOOLEAN
  BY DEF Types
<1>2. invalidating' \in BOOLEAN /\ overlap' \in BOOLEAN
  BY DEF Types
<1>3. Types'
  BY <1>1, <1>2 DEF Types
<1>4. QED
  BY <1>3 DEF Tracking, CommitExact, DueExact, InvalidateExact

LEMMA PollInv ==
  ASSUME CacheInv, PollIdle
  PROVE  CacheInv' /\ due = {} /\ (reg.insn_commit => overlap)
<1> USE DEF CacheInv
<1>1. todo # << >> /\ todo[1] = Poll /\ Proceed
  BY TailOfTodo DEF PollIdle
<1>2. /\ UNCHANGED <<reg, lock, flush_pending, cache_flush, invalidating, dirty, due, overlap, by, cause>>
      /\ settled' = FALSE /\ settled /\ lock = {}
  BY DEF PollIdle, config, tileVars, history
<1>3. ~IsStore(Poll, "insn")
  BY KindsOfStore
<1>4. InsnShape' /\ todo' \in Seq(Accesses)
  BY <1>1, <1>2, <1>3, RestInShape
<1>5. dirty' \in [Tiles -> SUBSET Banks]
  BY <1>2 DEF Types
<1>6. Types' /\ Tracking' /\ CommitExact' /\ DueExact' /\ InvalidateExact'
  BY <1>2, <1>4, <1>5, HardwareUnchanged
<1>7. due = {} /\ (reg.insn_commit => overlap)
  BY <1>2, IdleNothingDue DEF CommitExact
<1>8. QED
  BY <1>4, <1>6, <1>7

LEMMA ReallocInv == ASSUME CacheInv, Realloc PROVE CacheInv' /\ Head(todo) # Poll
<1> USE DEF CacheInv
<1>1. todo # << >> /\ todo[1][1] = "realloc" /\ Proceed /\ Head(todo) = todo[1]
  BY TailOfTodo DEF Realloc
<1>2. UNCHANGED <<reg, lock, flush_pending, cache_flush, invalidating, dirty, due, overlap, by, cause, settled>>
  BY DEF Realloc, config, tileVars, history
<1>3. todo[1] # Poll /\ ~IsStore(todo[1], "insn")
  BY <1>1 DEF Poll, IsStore
<1>4. InsnShape' /\ todo' \in Seq(Accesses)
  BY <1>1, <1>2, <1>3, RestInShape
<1>5. dirty' \in [Tiles -> SUBSET Banks]
  BY <1>2 DEF Types
<1>6. Types' /\ Tracking' /\ CommitExact' /\ DueExact' /\ InvalidateExact'
  BY <1>2, <1>4, <1>5, HardwareUnchanged
<1>7. QED
  BY <1>1, <1>3, <1>4, <1>6

(* A call starts with a proper sequence of accesses.                       *)
LEMMA CallInv ==
  ASSUME CacheInv, NEW name, NEW p, Call(name, p), Proper(p, name)
  PROVE  CacheInv'
<1> USE DEF CacheInv
<1>1. /\ todo' = p /\ call' = name
      /\ UNCHANGED <<reg, lock, flush_pending, cache_flush, invalidating, dirty, due, overlap, by, cause, settled>>
  BY DEF Call, config, tileVars, history
<1>2. p \in Seq(Accesses) /\ Steps' = 1..Len(p)
  BY <1>1 DEF Proper, Steps
<1>3. InsnShape'
  BY <1>1, <1>2 DEF Proper, InsnShape
<1>4. dirty' \in [Tiles -> SUBSET Banks]
  BY <1>1 DEF Types
<1>5. Types' /\ Tracking' /\ CommitExact' /\ DueExact' /\ InvalidateExact'
  BY <1>1, <1>2, <1>4, HardwareUnchanged
<1>6. QED
  BY <1>3, <1>5

LEMMA ConfigureInv == ASSUME CacheInv, Configure PROVE CacheInv' /\ todo = << >>
<1>1. todo = << >>
  BY DEF Configure, Call
<1>2. CASE Call("wait", l1d_wait)
  BY <1>1, <1>2, ProperFlush, CallInv
<1>3. CASE Call("init", l1d_init)
  BY <1>1, <1>3, ProperFlush, CallInv
<1>4. CASE Call("flush", l1d_flush)
  BY <1>1, <1>4, ProperFlush, CallInv
<1>5. CASE \E tiles \in TileMasks : Call("private_flush", l1d_private_flush(tiles))
  BY <1>1, <1>5, ProperFlush, CallInv
<1>6. CASE Call("shared_flush", l1d_shared_flush)
  BY <1>1, <1>6, ProperFlush, CallInv
<1>7. CASE \E n \in Offsets : Call("xbar_config", l1d_xbar_config(n))
  BY <1>1, <1>7, ProperConfig, CallInv
<1>8. CASE \E n \in Privates : Call("part", l1d_part(n))
  BY <1>1, <1>8, ProperConfig, CallInv
<1>9. CASE \E n \in SpmSizes : Call("spm_config", l1d_spm_config(n))
  BY <1>1, <1>9, ProperConfig, CallInv
<1>10. CASE \E a \in Addrs : Call("addr", l1d_addr(a))
  BY <1>1, <1>10, ProperFlush, CallInv
<1>11. QED
  BY <1>1, <1>2, <1>3, <1>4, <1>5, <1>6, <1>7, <1>8, <1>9, <1>10 DEF Configure

LEMMA ModifyInv ==
  ASSUME CacheInv, NEW t \in Tiles, NEW b \in Banks, Modify(t, b)
  PROVE  CacheInv' /\ todo' = todo /\ \A s \in Tiles : dirty[s] \subseteq dirty'[s]
<1> USE DEF CacheInv
<1>1. UNCHANGED <<reg, lock, flush_pending, cache_flush, invalidating, call, todo, due, overlap, by, cause, settled>>
  BY DEF Modify, config, tileVars, history
<1>2. dirty' \in [Tiles -> SUBSET Banks] /\ \A s \in Tiles : dirty[s] \subseteq dirty'[s]
  BY DEF Modify, Types
<1>3. todo' \in Seq(Accesses)
  BY <1>1 DEF Types
<1>4. Types' /\ Tracking' /\ CommitExact' /\ DueExact' /\ InvalidateExact'
  BY <1>1, <1>2, <1>3, HardwareUnchanged
<1>5. InsnShape'
  BY <1>1 DEF InsnShape, Steps
<1>6. QED
  BY <1>1, <1>2, <1>4, <1>5
------------------------------------------------------------------------------
(* A clock edge.  Either the flush controller takes an instruction, and    *)
(* then no bank was flushing; or the banks in done end their flushes.      *)
LEMMA TickInv ==
  ASSUME CacheInv, NEW done \in Dones, Tick(done)
  PROVE  CacheInv' /\ todo' = todo
<1> USE DEF CacheInv
<1>1. /\ UNCHANGED <<call, todo>> /\ settled' = TRUE /\ Steps' = Steps /\ todo \in Seq(Accesses)
      /\ \A t \in Tiles : done[t] \subseteq cache_flush[t]
      /\ \A t \in Tiles : cache_flush[t] \subseteq Banks
  BY DEF Tick, Dones, Types, Steps
<1>2. /\ DOMAIN reg' = Registers /\ reg'.insn = reg.insn /\ reg'.tile_sel = reg.tile_sel
      /\ reg'.insn_commit = (reg.insn_commit /\ ~Take)
  BY DEF Tick, Types, Registers
<1>4. Targets(reg.insn) \subseteq Banks /\ TileSel \subseteq Tiles
  BY DEF Targets, TileSel, Types
<1>5. /\ cache_flush' = [t \in Tiles |-> NextFlush(t, done)]
      /\ \A t \in Tiles : NextFlush(t, done) \subseteq Banks
  BY <1>1, <1>4 DEF Tick, NextFlush
<1>6. ASSUME Take
      PROVE  /\ Tracking' /\ lock' = TileSel /\ due = {}
             /\ \A t \in TileSel : cache_flush'[t] = Targets(reg.insn)
             /\ \A t \in Tiles : done[t] = {}
  <2>1. lock = {} /\ flush_pending = {} /\ \A t \in Tiles : cache_flush[t] = {} /\ done[t] = {}
    BY <1>1, <1>6 DEF Take, Tracking
  <2>2. \A t \in Tiles : Accepts(t) <=> t \in TileSel
    BY <1>6, <2>1 DEF Accepts, TileSel
  <2>3. \A t \in Tiles : NextFlush(t, done) = IF t \in TileSel THEN Targets(reg.insn) ELSE {}
    BY <2>1, <2>2 DEF NextFlush
  <2>4. lock' = TileSel
    BY <1>4, <1>6, <2>1 DEF Tick, InsnReady
  <2>5. flush_pending' = TileSel
    BY <1>4, <2>1, <2>2 DEF Tick
  <2>6. QED
    BY <1>4, <1>5, <1>6, <2>1, <2>3, <2>4, <2>5, IdleNothingDue DEF Tracking
<1>7. ASSUME ~Take
      PROVE  /\ Tracking' /\ lock' \subseteq lock
             /\ \A t \in Tiles : cache_flush'[t] = cache_flush[t] \ done[t]
  <2>2. \A t \in Tiles : NextFlush(t, done) = cache_flush[t] \ done[t] /\ ~Accepts(t)
    BY <1>7 DEF NextFlush, Accepts
  <2>3. lock' = {t \in lock : ~InsnReady(t, done)}
    BY <1>7 DEF Tick
  <2>4. flush_pending' = {t \in Tiles : t \in flush_pending /\ NextFlush(t, done) # {}}
    BY <2>2 DEF Tick
  <2>5. lock' = flush_pending'
    BY <2>3, <2>4 DEF InsnReady, Tracking, Types
  <2>6. \A t \in Tiles \ flush_pending' : cache_flush'[t] = {}
    BY <1>5, <2>2, <2>4 DEF Tracking
  <2>7. QED
    BY <1>5, <2>2, <2>3, <2>5, <2>6 DEF Tracking
<1>8. Types'
  <2>1. reg'.insn_commit \in BOOLEAN
    BY <1>2
  <2>2. settled' \in BOOLEAN
    BY <1>1
  <2>3. invalidating' \in BOOLEAN
    BY DEF Types, Tick
  <2>4. reg'.insn \in 0..3 /\ reg'.tile_sel \subseteq Tiles
    BY <1>2 DEF Types
  <2>5. cache_flush' \in [Tiles -> SUBSET Banks]
    BY <1>5
  <2>6. dirty' \in [Tiles -> SUBSET Banks]
    BY DEF Tick, Types
  <2>7. lock' \subseteq Tiles
    BY <1>4, <1>6, <1>7 DEF Types
  <2>8. due' \subseteq Tiles \X Banks
    BY <1>4 DEF Tick, Types, ModifiedTargets
  <2>9. overlap' \in BOOLEAN
    BY DEF Tick, Types
  <2>10. QED
    BY <1>1, <1>2, <2>1, <2>2, <2>3, <2>4, <2>5, <2>6, <2>7, <2>8, <2>9 DEF Types
<1>9. InsnShape'
  BY <1>1, <1>2 DEF InsnShape
<1>10. CommitExact'
  <2>1. CASE Take
    BY <1>2, <2>1 DEF CommitExact
  <2>2. CASE ~Take
    <3>1. overlap' = overlap
      BY <2>2 DEF Tick, Types
    <3>2. reg.insn_commit => lock # {}
      BY <2>2 DEF Take
    <3>3. QED
      BY <1>2, <3>1, <3>2 DEF CommitExact
  <2>3. QED
    BY <2>1, <2>2
<1>11. DueExact'
  <2>1. CASE Take
    <3>1. due' \subseteq TileSel \X Targets(reg.insn)
      BY <1>6, <2>1 DEF Tick, ModifiedTargets
    <3>2. QED
      BY <1>6, <2>1, <3>1 DEF DueExact
  <2>2. CASE ~Take
    <3>1. due' = {bank \in due : bank[2] \notin done[bank[1]]}
      BY <2>2 DEF Tick
    <3>2. QED
      BY <1>7, <2>2, <3>1 DEF DueExact
  <2>3. QED
    BY <2>1, <2>2
<1>12. InvalidateExact'
  <2>1. CASE Take
    BY <1>2, <2>1 DEF InvalidateExact, Tick, Take
  <2>2. CASE ~Take
    BY <1>2, <2>2 DEF InvalidateExact, Tick
  <2>3. QED
    BY <2>1, <2>2
<1>13. QED
  BY <1>1, <1>6, <1>7, <1>8, <1>9, <1>10, <1>11, <1>12
------------------------------------------------------------------------------
LEMMA OneLess == ASSUME NEW m \in Nat, NEW n \in Nat, n = m - 1 PROVE n # m
OBVIOUS

LEMMA TailDiffers == ASSUME NEW S, NEW s \in Seq(S), s # << >> PROVE Tail(s) # s
<1>1. Len(s) \in Nat /\ Len(Tail(s)) \in Nat /\ Len(Tail(s)) = Len(s) - 1
  OBVIOUS
<1>2. Len(Tail(s)) # Len(s)
  BY <1>1, OneLess
<1>3. QED
  BY <1>2

LEMMA CacheNext == CacheInv /\ [Next]_vars => CacheInv'
<1> SUFFICES ASSUME CacheInv, [Next]_vars PROVE CacheInv'
  OBVIOUS
<1>1. CASE Configure
  BY <1>1, ConfigureInv
<1>2. CASE Access
  BY <1>2, WriteInv, PollInv, ReallocInv DEF Access
<1>3. CASE Clock
  BY <1>3, TickInv DEF Clock
<1>4. CASE \E t \in Tiles, b \in Banks : Modify(t, b)
  BY <1>4, ModifyInv
<1>5. CASE UNCHANGED vars
  <2>1. UNCHANGED <<reg, lock, flush_pending, cache_flush, invalidating, dirty, call, todo, due, overlap, by, cause, settled>>
    BY <1>5 DEF vars, config, tileVars, history
  <2>2. dirty' \in [Tiles -> SUBSET Banks] /\ todo' \in Seq(Accesses)
    BY <2>1 DEF CacheInv, Types
  <2>3. Types' /\ Tracking' /\ CommitExact' /\ DueExact' /\ InvalidateExact'
    BY <2>1, <2>2, HardwareUnchanged DEF CacheInv
  <2>4. InsnShape'
    BY <2>1 DEF CacheInv, InsnShape, Steps
  <2>5. QED
    BY <2>3, <2>4 DEF CacheInv
<1>6. QED
  BY <1>1, <1>2, <1>3, <1>4, <1>5 DEF Next

(* Tracking: the peripheral holds a tile locked exactly while the tile has *)
(* a flush pending, and no bank of a tile that was reported ready flushes. *)
THEOREM TrackingExact == Spec => []Tracking
<1>1. CacheInv => Tracking
  BY DEF CacheInv
<1>2. QED
  BY CacheInit, CacheNext, <1>1, PTL DEF Spec

(* TypeOK: the instruction, its tiles and banks stay within the hardware.  *)
THEOREM CacheTypeCorrect == Spec => []TypeOK
<1>1. CacheInv => TypeOK
  BY DEF CacheInv, Types, Tracking, TypeOK
<1>2. QED
  BY CacheInit, CacheNext, <1>1, PTL DEF Spec

(* NoDataLost: when a bank throws modified lines away, it runs an          *)
(* instruction that l1d_init or a later l1d_addr wrote to the registers,   *)
(* in whatever order and however fast the calls are made.                  *)
THEOREM OnlyInitAndAddrInvalidate == Spec => NoDataLost
<1>1. CacheInv => [Loses => cause \in {"init", "addr"}]_vars
  BY DEF CacheInv, InvalidateExact, Loses, Invalidating
<1>2. QED
  BY CacheInit, CacheNext, <1>1, PTL DEF Spec, NoDataLost

(* WaitCovers: when l1d_wait returns, every bank that held modified lines  *)
(* when the flush controller took an instruction has ended it, and the     *)
(* last instruction was taken unless it was committed during another one.  *)
THEOREM WaitIsEnough == Spec => WaitCovers
<1>1. ASSUME CacheInv, [Next]_vars
      PROVE  [PollReturns => due = {} /\ (reg.insn_commit => overlap)]_vars
  <2> SUFFICES ASSUME Next, PollReturns PROVE due = {} /\ (reg.insn_commit => overlap)
    BY <1>1
  <2> USE DEF PollReturns
  <2>1. todo' # todo
    BY <1>1, TailDiffers DEF CacheInv, Types
  <2>2. CASE Configure
    BY <1>1, <2>2, ConfigureInv
  <2>3. CASE Write
    <3>1. Head(todo)[1] = "store" /\ Poll[1] = "poll"
      BY <2>3 DEF Write, Poll
    <3>2. QED
      BY <3>1
  <2>4. CASE PollIdle
    BY <1>1, <2>4, PollInv
  <2>5. CASE Realloc
    BY <1>1, <2>5, ReallocInv
  <2>6. CASE Clock
    BY <1>1, <2>1, <2>6, TickInv DEF Clock
  <2>7. CASE \E t \in Tiles, b \in Banks : Modify(t, b)
    BY <1>1, <2>1, <2>7, ModifyInv
  <2>8. QED
    BY <2>2, <2>3, <2>4, <2>5, <2>6, <2>7 DEF Next, Access
<1>2. QED
  BY CacheInit, CacheNext, <1>1, PTL DEF Spec, WaitCovers
==============================================================================
