------------------------------ MODULE Allocator ------------------------------
(***************************************************************************)
(* The runtime's allocator (software/snRuntime/src/alloc.c): a bump        *)
(* allocator in the L1 memory whose regions can only be freed all at once, *)
(* and one in the L3 memory without a limit.  Neither takes a lock: a call *)
(* loads next and later stores it, so a core's call is two actions, and    *)
(* the value in between is the core's.                                     *)
(***************************************************************************)
EXTENDS Naturals, Sequences

CONSTANTS
  MemStart, MemEnd,  \* the cluster's L1 memory: cluster_mem.start and .end
  L3Start            \* _edram + l3off

MIN_CHUNK_SIZE == 8

(* The hardware's L1 memory starts at an aligned address.  (If it did not, *)
(* base + size would lie behind the memory's end.)                         *)
ASSUME MemAssumption ==
  /\ MemStart \in Nat /\ MemEnd \in Nat /\ MemStart <= MemEnd
  /\ MemStart % MIN_CHUNK_SIZE = 0
  /\ L3Start \in Nat

AlignUp(x) == ((x + MIN_CHUNK_SIZE - 1) \div MIN_CHUNK_SIZE) * MIN_CHUNK_SIZE

VARIABLES
  next, l3next,        \* allocator.l1.next, allocator.l3.next
  regions, l3regions   \* history: <<first byte, bytes asked for>> since the last reset

l1Vars == <<next, regions>>
l3Vars == <<l3next, l3regions>>

base == AlignUp(MemStart)
size == MemEnd - MemStart

(* snrt_alloc_init *)
AllocInit ==
  /\ next = base /\ l3next = AlignUp(L3Start)
  /\ regions = << >> /\ l3regions = << >>

Fits(loaded, n) == loaded + AlignUp(n) <= base + size

(* snrt_l1alloc, once next is loaded; it returns 0 if there is not enough  *)
(* memory.                                                                 *)
L1Alloc(loaded, n) ==
  /\ IF Fits(loaded, n)
     THEN next' = loaded + AlignUp(n) /\ regions' = Append(regions, <<loaded, n>>)
     ELSE UNCHANGED l1Vars
  /\ UNCHANGED l3Vars

(* snrt_l1alloc_reset, and snrt_l1alloc after it. *)
L1AllocReset(n) ==
  /\ IF Fits(base, n)
     THEN next' = base + AlignUp(n) /\ regions' = << <<base, n>> >>
     ELSE next' = base /\ regions' = << >>
  /\ UNCHANGED l3Vars

(* snrt_l3alloc, once next is loaded: neither rounded nor checked. *)
L3Alloc(loaded, n) ==
  /\ l3next' = loaded + n
  /\ l3regions' = Append(l3regions, <<loaded, n>>)
  /\ UNCHANGED l1Vars

Disjoint(rs) ==
  \A i, j \in DOMAIN rs :
    i # j => rs[i][1] + rs[i][2] <= rs[j][1] \/ rs[j][1] + rs[j][2] <= rs[i][1]

(* Regions that are live together never overlap although the allocator has *)
(* no lock; those in L1 are aligned and lie in the cluster's memory, which *)
(* the last one may fill to the end.                                       *)
RegionsDisjoint ==
  /\ Disjoint(regions) /\ Disjoint(l3regions)
  /\ \A i \in DOMAIN regions :
       LET r == regions[i] IN r[1] % MIN_CHUNK_SIZE = 0 /\ MemStart <= r[1] /\ r[1] + r[2] <= MemEnd
==============================================================================
