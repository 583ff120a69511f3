-------------------------------- MODULE KHeap --------------------------------
(***************************************************************************)
(* The kernel heap, src/memory/heap/kheap.c: a first-fit allocator of      *)
(* blocks whose bookkeeping is one byte per block at KHEAP_TABLE_ADDR.     *)
(*                                                                         *)
(* A table byte is the set of its flags; "TAKEN" stands for a non-zero low *)
(* nibble (get_kheap_entry_type).  The search of kmalloc is not bounded by *)
(* the table, so the bytes that follow it in low memory are part of the    *)
(* state: entries is defined Beyond bytes past the table, and those bytes  *)
(* hold anything at boot.                                                  *)
(*                                                                         *)
(* live and overruns are ghosts: the allocations the callers hold, and how *)
(* many allocations ever ran past the end of the table.                    *)
(***************************************************************************)
EXTENDS Integers

CONSTANTS
  NumEntries,   \* kheap_entry_table.num_entries (25600)
  Beyond,       \* bytes after the table that a search can reach
  BlockSize,    \* KHEAP_BLOCK_SIZE (4096)
  SizeMod,      \* 2^32: size_t arithmetic is modulo this
  Sizes,        \* the request sizes, in bytes
  TableAddr,    \* KHEAP_TABLE_ADDR: the address of the first table byte
  SafeBlocks    \* blocks between KHEAP_ADDR and KHEAP_SAFE_BOUNDARY

\* As if the division rounded down.
NumBlocksTruncated(size) == (size % SizeMod) \div BlockSize

\* (size + KHEAP_BLOCK_SIZE - 1) / KHEAP_BLOCK_SIZE, in size_t
NumBlocks(size) == ((size + BlockSize - 1) % SizeMod) \div BlockSize

\* Requests whose block count does not wrap; the search never looks at a byte
\* that is not modelled.
ASSUME KHeapAssumption ==
  /\ NumEntries \in Nat \ {0}
  /\ Beyond \in Nat \ {0}
  /\ BlockSize \in Nat \ {0}
  /\ SizeMod \in Nat
  /\ TableAddr \in Nat
  /\ SafeBlocks \in Nat
  /\ Sizes \subseteq 0..(SizeMod - BlockSize)
  /\ \A size \in Sizes : NumBlocks(size) \in 0..(Beyond + 1)

VARIABLES entries, live, overruns

vars == <<entries, live, overruns>>

Flags == {"TAKEN", "IS_FIRST", "HAS_NEXT"}
Table == 0..(NumEntries - 1)
Bytes == 0..(NumEntries + Beyond - 1)

Allocation == [start : Table, len : 1..(Beyond + 1), size : Sizes]

Blocks(a) == a.start..(a.start + a.len - 1)
Overruns(a) == a.start + a.len > NumEntries

TypeOK ==
  /\ entries \in [Bytes -> SUBSET Flags]
  /\ live \subseteq Allocation
  /\ overruns \in Nat

-----------------------------------------------------------------------------
\* kheap_create clears the table, and only the table.
Init ==
  /\ entries \in [Bytes -> SUBSET Flags]
  /\ \A i \in Table : entries[i] = {}
  /\ live = {}
  /\ overruns = 0

IsFree(i) == "TAKEN" \notin entries[i]

\* As if the inner loop stopped one block early.
FitsUnlessTailTaken(i, num_blocks) ==
  IsFree(i) /\ \A j \in i..(i + num_blocks - 2) : IsFree(j)

\* The i at which the two search loops of kmalloc succeed: the inner loop
\* stops at i + num_blocks, not at the end of the table.
Fits(i, num_blocks) ==
  /\ IsFree(i)
  /\ \A j \in i..(i + num_blocks - 1) : IsFree(j)

\* The range of the outer loop.
SearchStarts == Table

FirstFit(i, num_blocks) ==
  /\ \A k \in 0..(i - 1) : ~Fits(k, num_blocks)
  /\ Fits(i, num_blocks)

OutOfMemory(num_blocks) == \A i \in SearchStarts : ~Fits(i, num_blocks)

\* As if the last block were marked like the ones in the middle.
MarkLastHasNext(start, num_blocks) ==
  [k \in Bytes |->
     IF k = start
       THEN {"TAKEN", "IS_FIRST"} \cup (IF num_blocks > 1 THEN {"HAS_NEXT"} ELSE {})
     ELSE IF k \in (start + 1)..(start + num_blocks - 1)
       THEN {"TAKEN", "HAS_NEXT"}
     ELSE entries[k]]

\* The marks kmalloc leaves; a request of no blocks still marks its first.
Mark(start, num_blocks) ==
  LET end == start + num_blocks - 1 IN
  [k \in Bytes |->
     IF k = start
       THEN {"TAKEN", "IS_FIRST"} \cup (IF num_blocks > 1 THEN {"HAS_NEXT"} ELSE {})
     ELSE IF k \in (start + 1)..end
       THEN {"TAKEN"} \cup (IF k < end THEN {"HAS_NEXT"} ELSE {})
     ELSE entries[k]]

Allocate(size, start) ==
  LET a == [start |-> start,
            len   |-> IF NumBlocks(size) = 0 THEN 1 ELSE NumBlocks(size),
            size  |-> size]
  IN /\ entries' = Mark(start, NumBlocks(size))
     /\ live' = live \cup {a}
     /\ overruns' = IF Overruns(a) THEN overruns + 1 ELSE overruns

\* kmalloc, and kzalloc when kmalloc finds memory: the memset of kzalloc then
\* stays inside the new allocation.
kmalloc(size) == \E i \in SearchStarts : FirstFit(i, NumBlocks(size)) /\ Allocate(size, i)

\* kmalloc out of memory: a message and NULL.
kmalloc_null(size) ==
  /\ OutOfMemory(NumBlocks(size))
  /\ UNCHANGED vars

\* kzalloc out of memory: kzalloc clears size bytes from the NULL it was given
\* before it returns it, table bytes below that address included.
kzalloc_null(size) ==
  /\ OutOfMemory(NumBlocks(size))
  /\ entries' = [i \in Bytes |-> IF TableAddr + i < size THEN {} ELSE entries[i]]
  /\ UNCHANGED <<live, overruns>>

\* As if kfree cleared one block.
FreedFirstOnly(start) == {start}

\* As if kfree were not bounded by the table.
FreedToChainEnd(start) ==
  {i \in Bytes : i >= start /\ \A k \in start..(i - 1) : "HAS_NEXT" \in entries[k]}

\* The blocks kfree clears: it follows HAS_NEXT, up to the end of the table.
FreedBlocks(start) ==
  {i \in Table : i >= start /\ \A k \in start..(i - 1) : "HAS_NEXT" \in entries[k]}

\* kfree of an allocation its caller holds.
kfree(a) ==
  /\ a \in live
  /\ entries' = [i \in Bytes |-> IF i \in FreedBlocks(a.start) THEN {} ELSE entries[i]]
  /\ live' = live \ {a}
  /\ UNCHANGED overruns

Next ==
  \/ \E size \in Sizes : kmalloc(size)
  \/ \E size \in Sizes : kmalloc_null(size)
  \/ \E size \in Sizes : kzalloc_null(size)
  \/ \E a \in live : kfree(a)

Spec == Init /\ [][Next]_vars

\* No request is so large that the memset of a failing kzalloc reaches the
\* table: 32256 bytes with the kernel's constants.
SmallRequests == \A size \in Sizes : size <= TableAddr
-----------------------------------------------------------------------------
(* Properties *)

\* No block belongs to two allocations: what the kernel means by
\* no_page_sharing (src/invariants.h), since every frame it hands out comes
\* from kmalloc.
NoPageSharing ==
  \A a, b \in live : a # b => Blocks(a) \cap Blocks(b) = {}

\* Inside the table, a block is marked taken exactly when a caller holds it:
\* kfree returns every block of an allocation, even after the blocks around it
\* were split and reused, and kmalloc never leaves a block marked for nobody.
TableAgrees ==
  \A i \in Table : ~IsFree(i) <=> \E a \in live : i \in Blocks(a)

\* The chain kfree follows for an allocation ends at its last block.
ChainsEnd ==
  \A a \in live : \A i \in Blocks(a) :
    "HAS_NEXT" \in entries[i] <=> i < a.start + a.len - 1

\* What a caller gets holds the bytes it asked for, at every multiple of the
\* block size and on both sides of it.
CoversRequest == \A a \in live : a.len * BlockSize >= a.size

\* An allocation runs past the end of the heap at most once since boot: kfree
\* stops at the end of the table, so the bytes marked there stay marked and
\* stop every later search.
OverrunsOnce == overruns <= 1

\* kmalloc and kfree implement the allocator their callers rely on: each step
\* hands out one region of blocks that nobody holds, takes one back whole, or
\* changes nothing the callers see.
Abstract == INSTANCE Allocator WITH
              Pool <- Bytes, held <- {Blocks(a) : a \in live}
ImplementsAllocator == Abstract!Spec

\* "Kernel will not use physical addresses beyond this" (src/config.h).
BelowSafeBoundary == \A a \in live : a.start + a.len <= SafeBlocks
==============================================================================
