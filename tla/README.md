# A TLA+ verification project for CachePool (ManyRVData)

CachePool is a cluster of Snitch/Spatz harts in tiles that share one L1 data
cache, with a bare-metal runtime (snRuntime) and test kernels, the largest of
them an RLC packet kernel. This project models the parts in which harts, or
state machines, wait for one another; checks them with TLC on small instances;
and proves the central results with TLAPS for any number of harts and tiles.

Paths below are relative to the repository.

## Inventory

| component | state | operations | hard behaviours | what makes it correct |
|---|---|---|---|---|
| software barrier, `software/snRuntime/src/barrier.c` | `barrier`, `barrier_iteration` | `snrt_barrier` and two copies | fast harts re-enter while slow ones spin, wrap of the iteration | nobody leaves before all came; everybody leaves |
| tile barrier, `hardware/src/cachepool_tile_barrier.sv` | a state machine per core port | a hart's load of the barrier register | ports leave `Wait` together or never; response handshakes per port | one request per tile and round; no old response met by a new load |
| cluster barrier, `hardware/src/cachepool_cluster_barrier.sv` | a state machine per tile, participation mask | the tiles' requests, stores to the mask | tiles arrive in any order, mask changed at run time | participants leave together, others at once |
| MCS lock, `software/tests/benchmark/mcs_lock.c` | tail per lock, slots and nodes per hart | acquire, try-acquire, release | enqueuing races release; slots reused at once | mutual exclusion, first come first served, no lost waiter |
| RLC kernel, `software/tests/multi_producer_single_consumer_double_linked_list` | two lists, page pool, package pointer, sequence numbers | producer and consumer loops | four spinlocks, unlocked reads, pool exhaustion, end of work | no page or package lost or duplicated; everything sent at the end |
| L1 cache control, `software/snRuntime/src/l1cache.c`, `hardware/cachepool_peripheral/cachepool_peripheral.sv`, flush tracking in `hardware/src/cachepool_tile.sv` | configuration registers, instruction and lock per tile, flush progress per bank | flush (all, private, shared), invalidate, partition, offset, address, scratchpad, wait | configuration commits the instruction that is left in its register; banks end at any time; harts write meanwhile | a wait covers every flush before it; no modified line is thrown away |
| cache atomics, `hardware/src/spatz_cache_amo.sv` | per bank: state machine, one reservation, one store-conditional on the way | load, store, AMO, LR, SC | late answers in any order, requests that wait while the unit is busy, aliasing identifiers | bank and unit are an atomic memory; SC fails after a foreign write, and says so |
| identifier remapper, `hardware/src/tcdm_id_remapper.sv` | table of outstanding identifiers | request, response | | instantiated nowhere |
| interconnect, `hardware/src/tcdm_cache_interco.sv`, `reqrsp_xbar.sv`, `cachepool_group.sv` | configuration only | routing by address bits | run-time offset, private partition | every address has one bank; the mapping is injective |
| data mover, `software/snRuntime/src/dm.c` | ring of jobs, mutex, status request and answer, count of sleepers | enqueue (1d, 2d), start, wait, wait_ready, exit, main loop | fill level polled outside the mutex, entry published before the front moves, sleep and wake-up, exit | no job lost, doubled or overwritten, a wait covers its jobs, no missed wake-up |
| DMA functions, `software/snRuntime/src/dma.c` | the engine's identifiers | start (1d, 2d), wait, wait_all | identifiers of 32 bits wrap | a wait returns after its transfer |
| allocator, `software/snRuntime/src/alloc.c` | next free address per memory | L1 allocation, reset, L3 allocation, init | no lock; a full memory | live regions are disjoint and in the memory |
| event unit, `software/snRuntime/src/omp/eu.c` | event (team, finished), workers in loop and asleep, exit flag | push, run, event loop, exit | workers late to sleep, to wake and to look; wake-up by interrupt | fork and join: each of the team runs the task once before the join |
| OpenMP runtime, `software/snRuntime/src/omp/kmp.c`, `omp.c` | team, loop state, mutex | fork, static and dynamic loops, barrier, session | next loop set up while slow threads come to the last one | every iteration run once; the last one known to its thread |
| the rest of snRuntime: interrupts, team, counters, start code | registers | short accesses | | |
| wiring, register file, boot ROM, test bench, numeric kernels | | | | not modelled |

Interactions: harts reach the barrier register through the tile barrier, which
forwards one load per tile and round over the narrow AXI path to the cluster
barrier. Software chooses the participating tiles by storing a mask in the
peripheral. The RLC kernel starts after a hardware barrier and ends in one; its
lists and its pool are guarded by test-and-set locks, or by MCS locks when it is
built with `USE_MCS_LOCK`.

The event unit and the data mover keep their state in L1 memory from the
allocator, publish it through a global pointer during start-up, and wake their
sleeping cores with the cluster-local interrupt. OpenMP's forks go through the
event unit; its loops share one loop description and one test-and-set mutex per
team; `__kmpc_barrier` is the software barrier. The data mover's core hands
queued jobs to the DMA engine. The cache control writes the peripheral's
registers, the peripheral's flush controller starts the tiles' banks and unlocks
a tile when its banks have answered. The atomics unit stands between the
crossbar and a bank, on the ports of the scalar cores; every lock and counter
above rests on it.

## Modules

| module | models |
|---|---|
| `Barrier` | abstract: what every barrier promises (arrive, release together with all peers, leave; regroup while nobody waits) |
| `SwBarrier` | `barrier.c`, one action per shared access |
| `SwBarrierProofs` | its invariant and its refinement of `Barrier` |
| `BarrierLink` | the narrow AXI path between a tile's barrier and the cluster's, with arbitrary latency |
| `TileBarrier` | `cachepool_tile_barrier.sv`, one action per clock edge, and the hart's load |
| `ClusterBarrier` | `cachepool_cluster_barrier.sv`, one action per clock edge, and the mask |
| `HwBarrier` | composition of the three, with the stores to the mask |
| `HwBarrierProofs` | its invariant and its refinement of `Barrier` |
| `FifoLock` | abstract: a lock granted in the order of asking |
| `McsLock` | `mcs_lock.c` with the slot table |
| `McsLockProofs` | its invariant, no dangling nodes, and its refinement of `FifoLock` |
| `Llist` | list and pool operations of the RLC kernel on a heap of pages |
| `RlcKernel` | `rlc.c`: producers and consumers over `Llist` |
| `RlcKernelProofs` | lists, pages, packages and numbers are kept |
| `ForkJoin` | abstract: a team runs a task, each member once, before the join |
| `EventUnit` | `eu.c` and the start-up in `omp.c`, one action per shared access; the task is left open |
| `Kmp` | extends `EventUnit`: `kmp.c`, the calls that compiled code makes |
| `KmpProofs` | both modules' invariants, the refinement of `ForkJoin`, dynamic and static loops |
| `JobQueue` | abstract: a first-in, first-out queue of jobs whose entries are claimed before they are written |
| `Allocator` | `alloc.c`, with a read and a later store per allocation |
| `Dma` | `dma.c` and the engine as it sees it |
| `DataMover` | extends `Allocator` and `Dma`: `dm.c`, clients and DM core |
| `DataMoverProofs` | the same for the three: the queue, the waits, the DMA identifiers, the allocator |
| `L1Cache` | extends `Allocator`: `l1cache.c`, the peripheral's flush controller, the tiles' tracking |
| `L1CacheProofs` | its invariant: tracking, waits, modified lines |
| `WordOps` | words and what atomic operations do to them, by reference arithmetic |
| `AtomicMemory` | abstract: loads, stores, AMOs, LR and SC act on the memory one at a time |
| `CacheAmo` | `spatz_cache_amo.sv`, one action per clock edge, with harts and a bank that answers at any time |
| `CacheAmoProofs` | its arithmetic, its invariant and its refinement of `AtomicMemory` |
| `MC...` | instances for TLC |

### Correspondence

*SwBarrier.* The variables are the fields of `struct snrt_barrier`, the local
`prev_it`, and a program counter. `Enter` is the read of the iteration, `Add`
the atomic add-and-fetch, `Reset` and `Advance` the two accesses of the last
hart, `Spin` the read that leaves the loop. A read that stays in the loop is a
stutter. `IterMod` stands for 2^32. Harts call the barrier for ever. The model
is sequentially consistent: the fields are `volatile` and the AMOs are executed
at the cache banks, but the reset (a plain store) and the AMO after it go to two
words; if a build placed them in different banks and the store were delayed, the
mutant `StepSwapped` shows what would happen.

*HwBarrier.* `tstate` is `state_q` of a port, `core` the hart's load (requested,
accepted, answered), `cstate` is `state_q` of the cluster's machine for a tile,
`barrier_q` the mask in use. `ar[t]` and `r[t]` say that the tile's request or
its answer is on the path. A tile's edge and the cluster's edge are taken one at
a time, in any order, because the path between them has an arbitrary latency:
for one side, the other side's edges are invisible until something arrives.
Inside a tile, all ports move together. `p_ready`, `r_ready` are arbitrary in
every cycle; `q_ready` of the path is arbitrary if `BusMayStall`, else always
true. Harts have no other access outstanding when they load the barrier
register, and stall on the loaded value, as `_snrt_cluster_barrier` does. The
user and id fields of the responses are left out. The mask is stored by a
running hart, as the `partial_barrier` program takes care to, while no hart waits;
with `MaskAnytime`, which no run sets, at any time.

*McsLock.* A node is <<hart, slot>>. `Swap`, `SetLocked`, `Link`, `Wait` are the
accesses of acquire, `TryCas` that of try-acquire, `Release`, `Cas`, `Linkage`,
`Handoff` those of release. `lock` and `in_use` of a slot are private to its hart
and change with a neighbouring access. What a released node still contains is
dropped, since it is overwritten when the slot is bound again; `NodesAlive`
says that nobody looks at it in between. `order` is history: the nodes of each lock in
the order of their exchanges on its tail, which tail and predecessors must agree
with; it says what following the links would say, without a recursion. A release of a lock that is not held
returns at once and is not an action. Harts take several locks in ascending
order only; otherwise they could deadlock whatever the lock does.

*RlcKernel.* Every critical section is two actions, the successful test-and-set
with the first read, and the writes with the unlock, so that a lock that did not
exclude others would show as a lost update. Work on a page that a hart owns
(filling the node, copying the package) goes with the action before it. The free
list is chained through `prev`, because `MM_FreePage.next` lies over it. `order` is history:
the nodes of both lists and the free pages as they were appended, taken and freed;
`ListsWellFormed` says that links, ends and counters are those of these sequences. A
package is a number; `tgt` records the sequence number in the header that was
written at its target. `sduBytes` and the poll counters change with `sduNum` and
`vtNext` and are left out, as is printing. `list_remove`, `mm_cleanup` and
`mm_memset` have no caller.

*EventUnit and Kmp.* The counters are those of `eu_t`, `nthreads` is the event's, 0
where the code clears the function pointer's team. `pc` of core 0 goes from the serial part
through `Push`, `Run`, `WakeForTask`, `Call`, `Return`, `AwaitFini` and `Reset` back;
`pc` of a worker goes round `eu_event_loop` (`CheckExit`, `CheckTeam`, `AddFini`, `AddWfi`,
`Wfi`, `ClearIrq`, `SubWfi`). Waiting loops are guards. `cl_clint` is the set of
pending interrupts; `wfi` with one pending goes on at once. In `Kmp` a microtask is a
sequence of loops, each with a barrier after it, and the open task of the event
unit becomes its execution. `StaticInit4` and `StaticInit8u` are the arithmetic of
`__kmpc_for_static_init_4` and `_8u`; `Assigned` is what the compiler's loop around
them executes. `DispatchInit`, `NextTake` are the critical sections of the dynamic
loops, `DispatchLock`, `NextLock` the test-and-set that opens them. The barrier is one
step, which `SwBarrierProofs` justifies for the software barrier.

*DataMover.* Each client runs a program, a sequence of the calls of `dm.h` and of
the allocator; `pc` is the place in the current call. `Poll`, `Lock`, `InsertOned` or
`InsertTwod`, `BumpFill`, `BumpFront`, `Release` are the enqueue; `AwaitWfi` and
`SetIrq` are `wake_dm`; `Drain`, `Quiet`, `ClearValid`, `Ask`, `Answer` are the waits. `dmpc`
is the place in `dm_main`, whose reads of the fill level and of the request are
steps of their own, because they are made without the mutex. A core that has polled has
a claim on an entry, and claims may exceed the free entries: the fill level then rises above the size, and
`queue[queue_front]` is an entry that still waits. `RequestLost` says that a client waits for an answer to a
request that is no longer in `stat_q`. Before `dm_init`, the DM core
runs a program of its own with the calls of `dma.c`. `Transferred` is the DMA
engine: in order, at any time.

*L1Cache.* A call is the sequence of its register accesses (`todo`); `Write`, `PollIdle` and
`Realloc` are the kinds of access. A call is made as soon as the last one has returned: nothing
waits for its instruction to end but the calls that contain `l1d_wait`. `Tick` is a clock
edge of the whole hardware: the flush controller of the peripheral (`lock`, configuration in
force) and the tracking of each tile (`flush_pending`, `cache_flush`). A bank answers in any
later cycle. The registers take one access in a clock cycle (`settled`). `Modify` is a
write of another hart, which a locked tile holds back. Four variables are history: `due`
has the modified banks in which an instruction that was taken has not ended; `overlap`
says that the pending commit was made while another one was pending or running; `by` and
`cause` name the call that wrote the pending instruction and the one that the banks run.

*CacheAmo.* `Issue` is a hart's load-store unit. A hart's integer core and its FPU share
the port, and each may have several requests outstanding, told apart by a tag of `is_fpu`
and `req_id`; a tag is used again after its answer. `User` is what the unit compares of
it. `Clock` is a clock edge of the unit, with the two ready signals arbitrary in every
cycle. `front` and `rsp` are the request and the response at its inputs; they stay until
they are taken. The bank (external, behind a spill register) reads and writes its memory in
the order in which it takes requests, and offers the answers in any later cycle and in any
order. `State`, `Reservation` and `StoreConditional` are the three groups of registers; the
last two look at a request whenever the bank is ready, even if the unit stalls it, as lines
107 and 157 do. A word has one lane: strobes, and the half of a 64-bit word, are left
out. `Memory` and `Result` are the refinement mapping: an operation takes effect when the
unit accepts it, and its answer is fixed then. `reserved` is history: the reservations that
the architecture's rule would have. `clash` is history, too: the unit has looked at a
request that it confuses with another (`Confuses`): one whose answer has the same core_id
and req_id, a second store-conditional, or a write to a word reserved by the hart with the
same core_id in another tile (see *Findings* and *Noticed*).

## Runs

| run | instance | shows |
|---|---|---|
| `swbarrier` | 4 harts, iteration modulo 2 | `CountInv`, refinement of `Barrier`, every call returns |
| `hwbarrier` | 3 tiles of 2 ports, masks of 3 and 2 tiles | `HwInv`, refinement, every load is answered |
| `hwbarrier_stall` | 2 tiles of 2 ports, the path may stall | a load that is never answered (finding) |
| `mcslock` | 3 harts, 2 locks, 4 slots | `NodesAlive`, refinement of `FifoLock`, every acquire returns |
| `rlc` | 2 producers, 2 consumers, 3 packages, 2 pages, threshold 1 | lists, pages, packages, sequence numbers |
| `rlc_exit` | 2 producers, 2 consumers, 2 packages, threshold never met | packages left behind (finding) |
| `omp` | 3 cores, 2 regions, teams of 1 to 3 | `NoStrayWakeUp`, refinement of `ForkJoin`, `StaticSplit`, `NoIterationSkipped`, the session ends |
| `omp_dynamic` | 2 cores, 1 region with one dynamic loop | iterations handed out twice (finding) |
| `datamover` | 2 clients in 5 pairs of programs, queue of 2, identifiers modulo 8 | refinement of `JobQueue`, `WaitCompletes`, `DmaWaitCovers`, `RegionsDisjoint`, calls return but for two cases |
| `l1cache` | 2 tiles of 1 bank, all calls, one after the other without waits | `Tracking`, `WaitCovers`, `NoDataLost`, every call returns |
| `amo` | 3 harts of 2 tiles, 1 word of 3 bits, 2 identifiers | refinement of `AtomicMemory` until requests are confused, `AluCorrect`, every request is answered |
| `amo_tiles` | a hart in each of 2 tiles | SC succeeds although the word was written (finding) |

Bounds. Two is the smallest modulus at which the iteration counter still changes
when it advances, so a run wraps in every second round; four harts let two be
fast and two slow. Three tiles give a participant that waits, one that arrives
last and one outside the mask; two ports give port 0 and another. Three harts
are needed for a queue with a hart at its head, one waiting and one enqueuing;
with four slots, hart 2 has exactly two. Two pages for three packages make the
producers meet an empty pool, and recycle pages, within a short run; threshold 1
makes consumers acknowledge often and compete for the sent list. The shipped
threshold (10000) is above the pool's 1024 pages, so the acknowledgement branch is
dead code in the shipped build and lives in this run only; `rlc_exit` never
reaches its threshold, like the shipped build. Harts of one role are
interchangeable in the RLC kernel (symmetry; only invariants are checked there).

Three cores give teams with none, one or both of the workers in them; two
regions let a worker be late for the second because of the first. The loops
have 2 to 7 iterations, so that with two or three threads there is a leftover, a last chunk
that is cut off, and threads without an iteration; 7 and 11 arguments are called once
and twice. `Wrap` is 2^16 instead of 2^64; only divisibility matters. The data
mover's queue has 2 entries and programs of up to 7 calls with four jobs, so entries are used again and
the queue fills. Of the five pairs of programs one has a core that does most of the
work; one allocates; in one two cores queue four transfers together, and can find the last entry
free at the same time; in one both wait; and one ends with `dm_exit`. DMA identifiers start two
below the wrap of a counter modulo 8, for 32 bits. The L1 memory is sized so that one of the
allocations does not fit. Only two allocations at once after start-up are left out (see *Noticed*).

In `l1cache` each argument has one value besides the one at reset, and calls follow one another
without end, so every call comes after every other one, and at every moment of the other
one's flush. Instructions are for both tiles or one of them, and for the bank of a tile or,
when it is not in the partition asked for, for none. A second bank per tile would make the
check of liveness too long; what it could disturb, a tile that is unlocked when one of
its banks still flushes, is proved for any number of banks.

In `amo`, hart 0 of the first tile reserves, stores conditionally and loads through its FPU; hart 1
operates on the word and stores conditionally, too; the hart of the second tile with
core_id 0 stores. So store-conditionals meet, reservations are mistaken for those of the other
tile's hart, answers of a store and of a store-conditional look alike, and each other way occurs in which those
requests can meet. Operations keep the memory to two values; three bits stand for 32:
the comparisons depend on the operands' signs and order, and overflow at the ends of the
range, and three bits have every case.

Fairness. Harts run in parallel and no hart is stopped for ever: weak fairness of
each hart's steps. In `HwBarrier`: the clock runs, and nobody refuses a response for
ever; weak fairness of the clock edge with everything ready. `McsLock` assumes
strong fairness of releasing a lock: critical sections end, whatever else the hart
does in between. OpenMP and the data mover assume weak fairness of each core's steps
and strong fairness of the test-and-set (the interconnect arbitrates round-robin,
and critical sections are a few accesses); the serial part of an OpenMP program
ends; the DMA engine ends its transfers. `L1Cache` assumes that the clock runs, that
an active bank answers, and that the hart goes on with a call; whether it makes
another one is its own choice. `CacheAmo` assumes that the clock runs and neither
side refuses for ever, and that the bank offers the answer to each request, of every hart and tag, in
the end; nothing of the crossbar, so the promise is made for the requests that it has
brought to the unit's input. The RLC kernel is checked
for safety and for deadlock only: test-and-set locks are not fair, and progress
would rest on the interconnect's arbitration.

## Findings

1. `hwbarrier_stall`. When all ports of a tile wait, ports other than 0 go on
   unconditionally and port 0 only if the path is ready in that cycle
   (`cachepool_tile_barrier.sv:91`). After one stall the ports have parted,
   `local_barrier` is never true again, and the tile hangs. The register's
   documentation promises that the load blocks until all cores have performed it.
2. `rlc_exit`. A consumer that found the list empty reads `producer_done`
   afterwards, and the flag is set by the first producer to finish
   (`rlc.c:229`, `295`, `385`): packages may stay unsent.
3. `omp_dynamic`. A core that finds a dynamic loop finished clears `loop_is_setup`
   (`kmp.c:474`); a core of the team that has not called `__kmpc_dispatch_init_4` yet
   then sets it up again (`kmp.c:420`) and gets every iteration a second time,
   although `kmp.c:454` promises zero when there is no work. Nothing is skipped
   (`NoIterationSkipped`), and static loops are exact (`StaticSplit`).
4. `amo_tiles`. The reservation is cleared by a write only if `core_id` differs
   (`spatz_cache_amo.sv:178`), and every tile numbers its harts from 0
   (`cachepool_tile.sv:1432`): after a store of the hart with the same number in another
   tile, a store-conditional succeeds, against the rule quoted at lines 172-175.

### Noticed

Not the subject of a finding. The comment at `cachepool_cluster_barrier.sv:83`
says that the mask may only be configured in the idle state, but the guard on line 84 is
evaluated right after `is_barrier` is cleared on line 77, before the loop sets it, so
it is always true. Software must not store the mask while a hart waits (the assumption of
`HwBarrierCorrect`). `rlc.h:107` says core 0 is the consumer,
`cluster_entry` makes it cores 0 and 1; a hart's slots in the MCS table begin at
its own index, so hart h has `MCS_TLS_SLOTS - h` of them, while `mcs_lock.h:42`
calls it "max locks concurrently held per hart".

In the data mover, the fill level is polled before the mutex is taken (`dm.c:225-229`): two
cores that find one entry free both insert, and the second one overwrites a transfer
that waits and is then never started, although `dm.h:11` lets every hart queue and `dm.h:32` says
that a call blocks if the queue is full. The run `datamover` has the case; `Write` of `JobQueue` says
which job is overwritten and when, and that nothing else goes wrong. The answer to a request
is set before the request is cleared (`dm.c:189-190`): a second core that has passed the
check of `stat_q` (line 292) before the first one asked can make its request in between; it is
cleared, and the core waits for ever. And `dm_exit` wakes the DM core only once it sleeps (`dm.c:346`);
one that is awake sees the request, leaves its loop and does not sleep, although
`snrt.h:290` says that all cores exit cleanly. The run has both, and they are the
exceptions that `EveryCallReturns` makes: it holds for every call until a request is lost
(`RequestLost`), and for `dm_exit` until the DM core has left.
More copies than entries without `dm_start` wait for a DM core that
sleeps. The allocator has no lock (`alloc.c:33-34`): two cores that allocate at once get
the same region. Its limit is the aligned base plus the size, beyond the end if the start
is not aligned.

In the cache control, a commit made while an instruction runs stays pending
(`cachepool_peripheral.sv:149`), and the status shows the running one only (line
179), so `l1d_wait` may return between the two, before the second one has begun, where
`README.md:281` says that it polls until all pending flushes complete. `mcs-lock/main.c:56-58` and the RLC program's
`main.c:40-42` call `l1d_flush` and then `l1d_xbar_config`, which may then change the
interleaving before its own flush has begun; the flush before it has ended by then.
That is the exception in `WaitCovers`. `l1d_addr` (`l1cache.c:138`) stores no instruction of its own and runs
the last one again: after `l1d_init` it invalidates, and what another hart has modified
meanwhile is lost; `NoDataLost` names it beside `l1d_init`.
`l1d_spm_config` drops the result of its dummy allocation. A commit's status is low
for one cycle before the lock is set, which a load that follows the store cannot
see.

In `kmp.c`, the cases 8 to 11 of `__microtask_wrapper` have no break (lines
71-84), so the microtask runs 13 - argc times; a `num_threads` clause is documented
for the next fork (`kmp.c:136`) and stays for all; the 64-bit static schedule
computes `plastiter` on unsigned numbers (`kmp.c:262`, `348`), which is right only
if the stride divides 2^64; the leftover is not multiplied by the increment
(`kmp.c:276`), so increments other than 1 are split wrongly; the last chunk is
found from `globalUpper % span` (`kmp.c:261`), which is right only if the loop starts at
a multiple of the span. The instances, like normalising compilers, use increment 1 and
start at 0 (`NormalLoops`). `eu.c:89` tests a condition the wrong way round, without effect in the default
build.

In the atomics unit, the wait for an operation's read ends with a response whose `core_id`
and `req_id` are the same (lines 240-241). A hart of another tile, or the FPU of the
same hart, may have a request with both, and its word becomes the operand. One set of
registers remembers a store-conditional (lines 143-145): the answer to one that was forgotten
carries the word that was read, so an SC that failed returns 0, success, if the word is 0,
where `snRuntime/tests/atomics.c:70` expects an error. These are the other two kinds of
`Confuses`. A store-conditional accepted in the cycle of another's response is
dropped from the registers (line 141). One that waits behind a running operation is
looked at in every cycle, clears its own reservation before it is taken, and
fails; SC may fail for no reason, and a loop around it goes on. The vector ports go past
the unit (`cachepool_tile.sv:656`): a vector store between an operation's read and its
write-back is lost, and no reservation sees it. The compare-and-swap of `McsLock` is one
step, as the software assumes; a compiler may build it from LR and SC.

The slot table of the MCS lock has `MCS_MAX_HARTS` rows, 4 by default
(`mcs_lock.h:38`), and is indexed by a hart number that runs to 15 in the default
configuration. With more packages than pages, and a threshold above the number of
pages as shipped, the RLC kernel recycles nothing and its producers retry for ever.

## Proofs

`SwBarrierProofs`, for any finite non-empty set of harts and any modulus of at
least 2:

* `CountIsExact`: `TypeOK /\ CountInv` is invariant. `CountInv` is inductive with the
  type invariant: the counter equals the number of harts that spin on the current
  iteration, unless the last hart is between its add and its advance, and then
  all other harts spin. A hart that has read the iteration and not yet added
  itself keeps the iteration from advancing, so what it read is not stale: that
  conjunct is why a wrap cannot be mistaken for no change.
* `SwBarrierCorrect`: every step is an arrival, a release of all, a departure or a
  stutter of `Barrier`.

`HwBarrierProofs`, for any tiles, ports and masks, and with or without stalls:

* `HwInvariant`: `HwInv` is inductive. Its core, `TokenInv`, says that a tile's token
  (request, entry in the cluster's machine, answer) is in one place, and that all
  ports hold their load while it is out.
* `HwBarrierCorrect`: if the mask is stored only while no hart waits, every step maps
  to a step of `Barrier`. The cluster's edge that opens the barrier releases
  all participants at once; an edge may also release non-participants.
  Stalls cost liveness (finding 1), not safety.

`McsLockProofs`, for any harts, locks, slots and uses of them (`McsAssumption`: at
least one hart and one lock; nodes are not numbers of locks):

* `NoDanglingNode` and `McsLockCorrect`, from `McsInv`. Its core, `QueueShape`, describes
  each lock's queue along `order`: the first node's hart has the lock or will see so when it
  looks next; every other waits behind the one before it; a node's `next` is set
  exactly while its successor waits for the hand-off. `SlotsExact` says that a bound slot
  is in the queue of its lock, or about to enter it, and that a hart has one slot per
  lock: why a slot bound again is not one that somebody still follows. From these, every
  step is a step of `FifoLock` or none.

`RlcKernelProofs`, for any disjoint sets of producers and consumers, packages, pages and
threshold:

* `ListsCorrect`, `NoPageLost`, `NoPackageLost`, `NumbersOnce`, from `RlcInv`: the four spinlocks
  exclude (`MutualExclusion`); what a critical section has read is still so when it writes
  (`SnapExact`), and what its hart holds is what its place says (`HoldsExact`); a page is
  in one sequence or with one hart, and the carved pages are all in some
  (`PlacesExact`); a package is claimed, listed, received or sent (`PkgsExact`); the numbers
  below `vtNext` are on the sent packages, each once (`NumbersExact`). The list operations
  are proved along `order`, the sequence of pages, so that no induction over links is
  needed.

`KmpProofs`, for any number of cores, any non-empty sequences of loops and any positive `Wrap`:

* `WakeUpsExact` and the event unit's half of `KmpForkJoin`, from `EuInv`: the counters are cardinalities of
  sets of workers at certain places (`CountsExact`), an interrupt is pending only where
  a worker will take it (`IrqPending`), and `Phases` says where all workers are at each
  place of core 0. The lemmas are stated for any task, as `EventUnit` leaves it open; `Kmp` fills it
  in.
* `KmpTypeCorrect`, `KmpForkJoin` and `DynamicLoopComplete`, from `KmpInv`, which adds the team in
  lockstep: its cores are in one loop or have left it by the barrier (`Lockstep`), and
  `DynamicExact` says which iterations of a dynamic loop have been handed out, by the
  current set-up or an earlier one. Iterations may run twice (finding 3); that none is left out
  is inductive only with the remark that a late set-up starts from the first one again.
* `StaticLoopExact`, from `SplitInv`: a core that is through with its share of the current loop
  has run it once, one that is not has run none of it, and `last` has those that are through
  and were told. `StaticFacts` and `ChunkedFacts` are the arithmetic of the bounds: each
  iteration is in one thread's share (`SplitsOnce`), and the code's test for the last one is right
  (`LastIsTold`), with the remainder of a negative distance in 32 bits, and of a wrapped one in
  64 bits if the stride divides the modulus. It assumes `NormalLoops`: what a compiler
  passes to the static schedules counts from 0 in steps of 1. Other increments are split
  wrongly (see *Noticed*).

`L1CacheProofs`, for any tiles, banks and arguments, and calls in any order that follow one
another as fast as they can:

* `TrackingExact`, `OnlyInitAndAddrInvalidate`, `WaitIsEnough`, from `CacheInv`. Besides `Tracking`, it says what is left
  of the current call (`InsnShape`): only `l1d_init` stores an invalidation, and every other call
  but `l1d_addr` stores an instruction before it commits. `CommitExact`: an instruction
  committed while none is pending or running is taken at the next clock edge, so a poll after
  it finds it running. `DueExact`: what is due is in banks that have not ended. `InvalidateExact`: an
  invalidation that is pending or in the banks comes from `l1d_init` or from `l1d_addr`.
  `CacheTypeCorrect` gives the types.

`DataMoverProofs`, for any finite set of clients, any programs, sizes of the queue and widths of
identifiers. Of programs it assumes what the code leaves to its callers: one core
allocates in each memory after start-up (`AllocAssumption`); the
DM core waits for transfers that it has started, less than half the identifiers ago
(`OwnAssumption`); and of the engine, that it holds no more than half the identifiers
(`DmaAssumption`). Nothing is assumed of how many cores queue, wait and exit, or when.

* `ControlCorrect`: `Control` gives the call that is under way at each place, the places that
  hold the mutex, and the count of sleepers. `DataMoverTypeCorrect` follows with
  `DmInvariant`.
* `JobQueueCorrect`, from `DmInv`. The ring's ends are tied to the fill level (`QueueInv`), where both
  sides bump the level and their end in two steps, in opposite orders: `Filled`, `BackPlace` and `Ahead` say what is
  meant in between. The fill level may exceed the size; then two places of the queue are one
  entry, and an insert overwrites the job `Size` places ahead, which is what `JobQueue`'s `Write`
  does. `FillInv` bounds the level: each core that is about to queue has found an entry free, and at
  most the others have queued since. `CountInv` bounds a client's jobs by its program.
* `WaitCorrect`. `JobInv`: a transfer that was started is with the engine or complete.
  `WaitInv`: a `wait` or `ready` in `stat_q` is that of the core which holds the mutex and waits for the answer,
  unless the DM core is about to clear it; an answer is given, and stays true, only when
  that core's transfers have left queue and engine. `dm_exit` writes `stat_q` without the mutex: that, like the cleared request described in *Noticed*, loses a
  request and costs liveness, and never makes a wait return early.
* `DmaWaitsCover`, from `OwnInv`: of the DM core's own transfers the first `Ended` are complete,
  the engine's two identifiers are that many and all of them further than `FirstId`, modulo
  `IdWrap`; the lemma `SignedIs` says that the signed difference is then that of the numbers.
* `AllocatorCorrect`, from `AllocInv`: regions lie below `next`, and what a core has read of `next` is still `next`
  when it stores.

`CacheAmoProofs`, for any tiles, harts, tags, addresses, requests and width of words
(`RequestsAssumption`, `NoneAssumption`, `WidthAssumption`):

* `ArithmeticCorrect`: `Alu`, with the adder one bit wider than its operands and the comparisons taken
  from its sign, is the reference `Combine` on all words. Powers of two are unknown to the
  solver; `PowerCounts` makes 2^n the number of subsets of 1..n, and `PowerSum`
  gives 2^(n+1) = 2 * 2^n from that. `SetInduction`, from the library's theorem that
  the order of the naturals is well-founded, is an induction over a set of numbers,
  which no operator parameter is needed for; `BitsExist` uses it for the bits of a word.
* `AmoTypeCorrect`, from `AmoInv`. `Types` and `Outstanding` hold whatever the unit is asked for: a
  hart waits for one answer of a tag at most, so an answer is told by its hart and tag; in `DoAMO` the
  operation's read is in the bank, in `Wait` its write-back.
* `AtomicMemoryImplemented`, from the other part of `AmoInv`, which holds as long as `clash` is false. The
  read is the one request in the bank whose answer looks like its own, and its word is still
  that in memory (`Operation`), because the unit takes nothing else meanwhile; a valid
  reservation belongs to a hart that has it by the architecture's rule (`Reserving`), and the
  one store-conditional in the bank is that of the registers (`Storing`). An edge
  that takes a request is then the operation, and every other one changes neither memory nor
  answers. After a request that the unit confuses nothing is claimed of the memory; finding 4 and *Noticed*
  say, for each kind in `Confuses`, what may happen.

Each inductive invariant was first checked by TLC on the instance of its run.

Only model-checked: liveness (`EveryCallReturns`, `EveryLoadReturns`,
`EveryAcquireReturns`, `SessionEnds`, `EveryRequestAnswered`), which needs fairness and
ENABLED. Every safety property of a passing run is the subject of a theorem. The
findings are counterexamples of TLC.

## Plan

Modules still worth writing: `AddrMap` against a reference definition, and the test
program `partial_barrier` over both barriers.

## Not modelled

The identifier remapper, which nothing instantiates, and the address mapping of the
interconnect. Of the atomics unit: strobes and lanes, and vector ports beside it. Of
the OpenMP runtime: builds with `OMPSTATIC_NUMTHREADS` or `EU_USE_GLOBAL_CLINT`, the
unsigned entry points that convert and forward, loops with nowait, forks inside a
region, and more than 12 arguments. Of the data mover: the build with
`DM_USE_GLOBAL_CLINT`. Of the cache control: performance counters and `set_eoc`.

Numeric kernels and the vector copy (data only), printing, the register file
(generated), wiring and parameters, boot code, test bench and monitors, the
third-party crossbars, cuts and cache banks. Memory ordering weaker than
sequential consistency is not modelled; where the code relies on a fence or on
the order of two accesses, the text above says so.
