------------------------------- MODULE L1Cache -------------------------------
(***************************************************************************)
(* Control of the L1 data cache: the calls of l1cache.c, which write the   *)
(* peripheral's registers and poll its status; the flush controller of the *)
(* peripheral (cachepool_peripheral.sv); and the tiles' tracking of a      *)
(* flush (cachepool_tile.sv).                                              *)
(*                                                                         *)
(* One hart configures the cache, as in all programs of the repository; it *)
(* makes a call as a sequence of register accesses.  Tick is a clock edge  *)
(* of all the flip-flops.  Other harts write to the banks meanwhile.  Of a *)
(* bank's content only whether it holds modified lines is kept.            *)
(***************************************************************************)
EXTENDS Integers, Allocator

CONSTANTS
  Tiles,
  NumBanks,    \* NumL1CtrlTile: cache banks of a tile
  Offsets, Privates, Addrs, TileMasks, SpmSizes  \* arguments of the calls

ASSUME CacheAssumption ==
  NumBanks \in Nat \ {0} /\ Privates \subseteq Nat /\ TileMasks \subseteq SUBSET Tiles

Banks == 0..(NumBanks - 1)
FlushPrivate == 0
FlushShared == 1
FlushAll == 2
InvalidateAll == 3

VARIABLES
  reg,                     \* the software-visible registers
  lock,                    \* l1d_lock_q: tiles that have an instruction
  l1d_private, private_start_addr, xbar_offset, l1d_spm_size,  \* in force
  flush_pending,           \* tiles with flush_pending_q
  cache_flush,             \* per tile: banks with cache_flush_q
  invalidating,            \* the banks' instruction is InvalidateAll
  dirty,                   \* per tile: banks with modified lines
  call, todo,              \* the call, and its accesses that are left
  settled,                 \* a clock edge has passed since the last access
  due,                     \* history: modified banks that an instruction has not ended in
  overlap,                 \* history: the pending commit found another one pending or running
  by,                      \* history: the call that wrote or committed the invalidation pending
  cause                    \* history: that of the instruction that the banks run

config == <<l1d_private, private_start_addr, xbar_offset, l1d_spm_size>>
tileVars == <<flush_pending, cache_flush, invalidating>>
allocVars == <<l1Vars, l3Vars>>
history == <<due, overlap, by, cause>>
vars == <<reg, lock, config, tileVars, dirty, call, todo, settled, history, allocVars>>

None == [t \in Tiles |-> {}]
Init ==
  /\ AllocInit
  /\ reg = [insn |-> 0, tile_sel |-> {}, insn_commit |-> FALSE, xbar_offset |-> 0,
            xbar_commit |-> FALSE, private |-> 0, addr |-> CHOOSE a \in Addrs : TRUE,
            spm |-> 0, spm_commit |-> TRUE]
  /\ lock = {}
  /\ l1d_private = 0 /\ private_start_addr = reg.addr /\ xbar_offset = 14 /\ l1d_spm_size = 0
  /\ flush_pending = {} /\ cache_flush = None /\ invalidating = FALSE
  /\ dirty = None
  /\ call = "none" /\ todo = << >> /\ settled = TRUE
  /\ due = {} /\ overlap = FALSE /\ by = "none" /\ cause = "none"
------------------------------------------------------------------------------
(* l1cache.c: each call as the register accesses that it makes. *)
Store(r, v) == <<"store", r, v>>
Poll == <<"poll">>

l1d_xbar_commit == <<Store("xbar_commit", TRUE)>>
l1d_commit == <<Store("insn_commit", TRUE)>>
l1d_flush == <<Store("insn", FlushAll)>> \o l1d_commit
l1d_private_flush(tiles) == <<Store("insn", FlushPrivate), Store("tile_sel", tiles)>> \o l1d_commit
l1d_shared_flush == <<Store("insn", FlushShared)>> \o l1d_commit
l1d_wait == <<Poll>>
l1d_init == <<Store("insn", InvalidateAll)>> \o l1d_commit \o l1d_wait

l1d_xbar_config(offset) ==
  <<Store("xbar_offset", IF offset > 6 THEN offset ELSE 6)>>
    \o l1d_flush \o l1d_wait \o l1d_xbar_commit

(* The dummy region keeps the part that is cache from being allocated. *)
l1d_spm_config(n) ==
  l1d_flush \o l1d_wait
    \o <<<<"realloc", (128 - n) * 128 * 8>>, Store("spm", n), Store("spm_commit", TRUE)>>

(* Mutant of l1d_part: no flush before the change. *)
PartNoFlush(n) == <<Store("private", n)>> \o l1d_commit

l1d_part(n) == l1d_flush \o l1d_wait \o <<Store("private", n)>> \o l1d_commit
l1d_addr(a) == <<Store("addr", a)>> \o l1d_commit

(* A call is made as soon as the last one has returned, whether or not its *)
(* instruction is over.  l1d_addr stores no instruction: it runs the one   *)
(* that is in the register once more.                                      *)
Call(name, accesses) ==
  /\ todo = << >>
  /\ call' = name /\ todo' = accesses
  /\ UNCHANGED <<reg, lock, config, tileVars, dirty, settled, history, allocVars>>

Configure ==
  \/ Call("wait", l1d_wait)
  \/ Call("init", l1d_init)
  \/ Call("flush", l1d_flush)
  \/ \E tiles \in TileMasks : Call("private_flush", l1d_private_flush(tiles))
  \/ Call("shared_flush", l1d_shared_flush)
  \/ \E n \in Offsets : Call("xbar_config", l1d_xbar_config(n))
  \/ \E n \in Privates : Call("part", l1d_part(n))
  \/ \E n \in SpmSizes : Call("spm_config", l1d_spm_config(n))
  \/ \E a \in Addrs : Call("addr", l1d_addr(a))
------------------------------------------------------------------------------
(* The banks of a tile that an instruction is for. *)
Targets(insn) ==
  LET num_private_cache == l1d_private % 8 IN
  {b \in Banks : CASE insn = FlushPrivate -> b < num_private_cache
                   [] insn = FlushShared -> b >= num_private_cache
                   [] insn \in {FlushAll, InvalidateAll} -> TRUE}

(* For other instructions than FlushPrivate tile_sel is forced to all. *)
TileSel == IF reg.insn = FlushPrivate THEN reg.tile_sel ELSE Tiles

(* The call goes on with its next access. *)
Proceed ==
  /\ todo' = Tail(todo)
  /\ call' = IF todo' = << >> THEN "none" ELSE call

(* A store.  The registers take one access in a clock cycle. *)
Write ==
  /\ todo # << >> /\ Head(todo)[1] = "store"
  /\ settled
  /\ reg' = [reg EXCEPT ![Head(todo)[2]] = Head(todo)[3]]
  /\ overlap' = IF Head(todo)[2] = "insn_commit" THEN lock # {} \/ reg.insn_commit ELSE overlap
  /\ by' = IF Head(todo)[2] \notin {"insn", "insn_commit"} THEN by
           ELSE IF reg'.insn = InvalidateAll THEN call ELSE "none"
  /\ settled' = FALSE
  /\ Proceed
  /\ UNCHANGED <<lock, config, tileVars, dirty, due, cause, allocVars>>

(* The status register shows l1d_lock_q. *)
PollIdle ==
  /\ todo # << >> /\ Head(todo) = Poll
  /\ settled /\ lock = {}
  /\ settled' = FALSE
  /\ Proceed
  /\ UNCHANGED <<reg, lock, config, tileVars, dirty, history, allocVars>>

Realloc ==
  /\ todo # << >> /\ Head(todo)[1] = "realloc"
  /\ L1AllocReset(Head(todo)[2])
  /\ Proceed
  /\ UNCHANGED <<reg, lock, config, tileVars, dirty, settled, history>>

(* Another hart modifies a line.  Requests wait while the tile is busy. *)
Modify(t, b) ==
  /\ t \notin lock
  /\ dirty' = [dirty EXCEPT ![t] = @ \cup {b}]
  /\ UNCHANGED <<reg, lock, config, tileVars, call, todo, settled, history, allocVars>>
------------------------------------------------------------------------------
(* The flush controller takes an instruction when no tile has one. *)
Take == reg.insn_commit /\ lock = {}

(* tile_insn_active, and no flush pending in the tile. *)
Accepts(t) ==
  /\ Take
  /\ reg.insn = FlushPrivate => t \in TileSel
  /\ t \notin flush_pending

(* cache_flush_d, when the banks in done[t] return ready. *)
NextFlush(t, done) ==
  (cache_flush[t] \cup (IF Accepts(t) THEN Targets(reg.insn) ELSE {})) \ done[t]

(* Mutants of InsnReady: as if it looked at cache_flush_q; and without     *)
(* waiting for the banks.                                                  *)
InsnReadyLate(t, done) == t \in flush_pending /\ cache_flush[t] = {}
InsnReadyEarly(t, done) == t \in flush_pending

(* l1d_insn_ready_o *)
InsnReady(t, done) == t \in flush_pending /\ NextFlush(t, done) = {}

(* The banks with modified lines that the instruction is for. *)
ModifiedTargets == {bank \in TileSel \X Targets(reg.insn) : bank[2] \in dirty[bank[1]]}

Tick(done) ==
  /\ cache_flush' = [t \in Tiles |-> NextFlush(t, done)]
  /\ flush_pending' = {t \in Tiles : \/ t \notin flush_pending /\ Accepts(t)
                                     \/ t \in flush_pending /\ NextFlush(t, done) # {}}
  /\ lock' = {t \in IF Take THEN TileSel ELSE lock : ~InsnReady(t, done)}
  /\ invalidating' = IF Take THEN reg.insn = InvalidateAll ELSE invalidating
  /\ l1d_private' = IF reg.insn_commit THEN reg.private ELSE l1d_private
  /\ private_start_addr' = IF reg.insn_commit THEN reg.addr ELSE private_start_addr
  /\ xbar_offset' = IF reg.xbar_commit THEN reg.xbar_offset ELSE xbar_offset
  /\ l1d_spm_size' = IF reg.spm_commit THEN reg.spm ELSE l1d_spm_size
  /\ reg' = [reg EXCEPT !.insn_commit = @ /\ ~Take, !.xbar_commit = FALSE, !.spm_commit = FALSE]
  /\ dirty' = [t \in Tiles |-> dirty[t] \ done[t]]
  /\ due' = {bank \in due \cup (IF Take THEN ModifiedTargets ELSE {}) : bank[2] \notin done[bank[1]]}
  /\ overlap' = (overlap /\ ~Take)
  /\ cause' = IF ~Take THEN cause ELSE IF reg.insn = InvalidateAll THEN by ELSE "none"
  /\ by' = IF Take THEN "none" ELSE by
  /\ settled' = TRUE
  /\ UNCHANGED <<call, todo, allocVars>>

(* A bank returns ready at any time after it was activated. *)
Dones == {done \in [Tiles -> SUBSET Banks] : \A t \in Tiles : done[t] \subseteq cache_flush[t]}

Clock == \E done \in Dones : Tick(done)

Access == Write \/ PollIdle \/ Realloc

Next ==
  \/ Configure \/ Access \/ Clock
  \/ \E t \in Tiles, b \in Banks : Modify(t, b)

Spec == Init /\ [][Next]_vars

(* The clock runs, an active bank ends its flush, the hart runs on.  A     *)
(* poll sees the status at some time after it has become low.              *)
Fairness ==
  /\ WF_vars(Access)
  /\ WF_vars(Clock)
  /\ \A t \in Tiles, b \in Banks :
       WF_vars(\E done \in Dones : b \in done[t] /\ Tick(done))

FairSpec == Spec /\ Fairness
------------------------------------------------------------------------------
TypeOK ==
  /\ reg.insn \in 0..3 /\ reg.tile_sel \subseteq Tiles /\ reg.insn_commit \in BOOLEAN
  /\ lock \subseteq Tiles /\ flush_pending \subseteq Tiles
  /\ cache_flush \in [Tiles -> SUBSET Banks] /\ dirty \in [Tiles -> SUBSET Banks]

(* The peripheral and the tiles never disagree: a tile is locked exactly   *)
(* while it has a flush pending, and none of its banks flushes after it    *)
(* was reported ready.                                                     *)
Tracking ==
  /\ lock = flush_pending
  /\ \A t \in Tiles \ flush_pending : cache_flush[t] = {}

PollReturns == todo # << >> /\ Head(todo) = Poll /\ todo' = Tail(todo)

(* "wait until flush finished": when l1d_wait returns, every bank that held *)
(* modified lines when the flush controller took an instruction has ended  *)
(* it, also when the partition of the banks has changed since, and the     *)
(* last instruction committed has been taken - unless it was committed     *)
(* while another one was pending or running.                               *)
WaitCovers == [][PollReturns => due = {} /\ (reg.insn_commit => overlap)]_vars

Loses == invalidating /\ \E t \in Tiles : ~(dirty[t] \subseteq dirty'[t])

(* Modified lines are thrown away by l1d_init and, as it runs the          *)
(* instruction in the register again, by l1d_addr; never by a call that    *)
(* flushes, changes the partition, the interleaving or the scratchpad,     *)
(* however the calls overlap.                                              *)
NoDataLost == [][Loses => cause \in {"init", "addr"}]_vars

(* Every call returns. *)
EveryCallReturns == todo # << >> ~> todo = << >>
==============================================================================
