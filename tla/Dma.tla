--------------------------------- MODULE Dma ---------------------------------
(***************************************************************************)
(* The calls of software/snRuntime/src/dma.c, which are made on the DM     *)
(* core, and the DMA engine as they see it: it numbers the transfers,      *)
(* counts those that are complete and ends them in order.                  *)
(***************************************************************************)
EXTENDS Integers, Sequences

CONSTANTS
  Depth,     \* transfers the engine holds before it would block
  IdWrap,    \* 2^32 in the hardware: identifiers are 32 bits wide
  FirstId    \* the next identifier when the program starts

ASSUME DmaAssumption ==
  /\ IdWrap \in Nat \ {0} /\ IdWrap % 2 = 0
  /\ Depth \in Nat \ {0} /\ Depth <= IdWrap \div 2
  /\ FirstId \in 0..(IdWrap - 1)

VARIABLES
  next_id, completed_id,  \* the counters that dmstati shows
  inflight,               \* transfers started and not complete, oldest first
  complete                \* history: complete transfers

dmaVars == <<next_id, completed_id, inflight, complete>>

DmaInit ==
  /\ next_id = FirstId /\ completed_id = FirstId
  /\ inflight = << >> /\ complete = {}

(* dmcpyi, which stalls while the engine is full; its result is next_id. *)
Dmcpy(transfer) ==
  /\ Len(inflight) < Depth
  /\ inflight' = Append(inflight, transfer)
  /\ next_id' = (next_id + 1) % IdWrap
  /\ UNCHANGED <<completed_id, complete>>

(* A transfer is known by its owner, its number and whether it has two     *)
(* dimensions; source, destination and strides are left out.               *)
snrt_dma_start_1d(owner, n) == Dmcpy(<<owner, n, FALSE>>)
snrt_dma_start_2d(owner, n) == Dmcpy(<<owner, n, TRUE>>)

(* A 32-bit difference as blez reads it. *)
Signed(x) == IF x % IdWrap < IdWrap \div 2 THEN x % IdWrap ELSE (x % IdWrap) - IdWrap

(* Mutant of snrt_dma_wait: bltz for blez. *)
WaitOffByOne(tid) == Signed(completed_id - tid) >= 0

(* What snrt_dma_wait and snrt_dma_wait_all spin for. *)
snrt_dma_wait(tid) == Signed(completed_id - tid) > 0

snrt_dma_wait_all == inflight = << >>

(* The engine ends a transfer. *)
Transferred ==
  /\ inflight # << >>
  /\ inflight' = Tail(inflight)
  /\ completed_id' = (completed_id + 1) % IdWrap
  /\ complete' = complete \cup {Head(inflight)}
  /\ UNCHANGED next_id
==============================================================================
