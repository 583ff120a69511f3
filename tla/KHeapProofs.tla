----------------------------- MODULE KHeapProofs -----------------------------
(***************************************************************************)
(* Proofs about KHeap, for every table size, block size and set of         *)
(* requests: as long as no request is large enough for a failing kzalloc   *)
(* to clear the table (SmallRequests), allocations never share a block,    *)
(* kfree returns exactly what kmalloc took, and at most one allocation     *)
(* ever runs past the end of the heap.                                     *)
(***************************************************************************)
EXTENDS KHeap, TLAPS

\* Every block of a live allocation is marked taken, past the table too.
Marked == \A a \in live : \A i \in Blocks(a) : ~IsFree(i)

\* Once an allocation ran past the table, the byte after it stays marked.
Sealed == overruns \in {0, 1} /\ (overruns = 1 => ~IsFree(NumEntries))

\* The inductive invariant: NoPageSharing needs the marks to agree with live,
\* and the marks survive kfree only because each chain ends where its
\* allocation ends.
IInv ==
  /\ TypeOK
  /\ NoPageSharing
  /\ TableAgrees
  /\ ChainsEnd
  /\ CoversRequest
  /\ Marked
  /\ Sealed

\* Integer division, as C rounds it for unsigned operands.
LEMMA DivTimes ==
  ASSUME NEW m \in Nat, NEW b \in Nat, b > 0
  PROVE  (m \div b) * b > m - b /\ m \div b \in Nat
OBVIOUS

\* The block count of a request, in Nat, holds the request.
LEMMA NumBlocksCovers ==
  ASSUME NEW size \in Sizes
  PROVE  /\ NumBlocks(size) \in 0..(Beyond + 1)
         /\ size \in Nat
         /\ NumBlocks(size) * BlockSize >= size
<1>1. /\ NumBlocks(size) \in 0..(Beyond + 1)
      /\ size \in 0..(SizeMod - BlockSize)
  BY KHeapAssumption
<1>2. size + BlockSize - 1 \in 0..(SizeMod - 1)
  BY <1>1, KHeapAssumption
<1>3. (size + BlockSize - 1) % SizeMod = size + BlockSize - 1
  BY <1>2, KHeapAssumption
<1>4. ((size + BlockSize - 1) \div BlockSize) * BlockSize >= size
  BY <1>1, <1>2, DivTimes, KHeapAssumption
<1> QED
  BY <1>1, <1>3, <1>4 DEF NumBlocks

\* The blocks of an allocation are bytes of the model, and block NumEntries is
\* one of them exactly when the allocation runs past the table.
LEMMA BlocksInBytes ==
  ASSUME NEW a \in Allocation
  PROVE  /\ Blocks(a) \subseteq Bytes
         /\ a.start \in Blocks(a)
         /\ Overruns(a) => NumEntries \in Blocks(a)
BY KHeapAssumption DEF Allocation, Blocks, Bytes, Table, Overruns

\* kfree clears the blocks of the allocation that are in the table and no
\* other: HAS_NEXT leads to the last block of the allocation and stops there.
LEMMA FreedExactly ==
  ASSUME TypeOK, ChainsEnd, NEW a \in live
  PROVE  FreedBlocks(a.start) = Blocks(a) \cap Table
<1> USE KHeapAssumption
<1>1. a \in Allocation
  BY DEF TypeOK
<1>2. ASSUME NEW i \in Table, i \in Blocks(a)
      PROVE  i \in FreedBlocks(a.start)
  <2>1. \A k \in a.start..(i - 1) : k \in Blocks(a) /\ k < a.start + a.len - 1
    BY <1>1, <1>2 DEF Blocks, Allocation, Table
  <2> QED
    BY <1>1, <1>2, <2>1 DEF FreedBlocks, ChainsEnd, Blocks, Allocation, Table
<1>3. ASSUME NEW i \in FreedBlocks(a.start)
      PROVE  i \in Blocks(a) /\ i \in Table
  <2> DEFINE last == a.start + a.len - 1
  <2>1. last \in Blocks(a) /\ "HAS_NEXT" \notin entries[last]
    BY <1>1 DEF ChainsEnd, Blocks, Allocation, Table
  <2>2. i \in Table /\ i >= a.start /\ (i > last => "HAS_NEXT" \in entries[last])
    BY <1>1, <1>3 DEF FreedBlocks, Allocation, Table
  <2> QED
    BY <1>1, <2>1, <2>2 DEF Blocks, Allocation, Table
<1> QED
  BY <1>2, <1>3 DEF FreedBlocks

\* The invariant holds of the table kheap_create makes.
LEMMA InitInv == Init => IInv
<1> SUFFICES ASSUME Init PROVE IInv
  OBVIOUS
<1>1. TypeOK /\ live = {} /\ overruns = 0
  BY DEF Init, TypeOK
<1>2. TableAgrees
  BY <1>1 DEF Init, TableAgrees, IsFree
<1> QED
  BY <1>1, <1>2 DEF IInv, NoPageSharing, ChainsEnd, CoversRequest, Marked, Sealed

\* kmalloc takes blocks that were all free, so they belong to nobody, and
\* leaves every other byte as it was.
LEMMA KmallocInv ==
  ASSUME IInv, NEW size \in Sizes, kmalloc(size)
  PROVE  IInv'
<1> USE KHeapAssumption
<1> DEFINE n == NumBlocks(size)
<1>1. PICK i \in Table : FirstFit(i, n) /\ Allocate(size, i)
  BY DEF kmalloc, SearchStarts
<1> DEFINE a == [start |-> i, len |-> IF n = 0 THEN 1 ELSE n, size |-> size]
<1>2. n \in 0..(Beyond + 1) /\ size \in Nat /\ n * BlockSize >= size
  BY NumBlocksCovers
<1>3. a \in Allocation
  BY <1>2 DEF Allocation
<1>4. /\ Blocks(a) \subseteq Bytes
      /\ \A k \in Blocks(a) : IsFree(k)
  <2>1. Blocks(a) \subseteq Bytes
    BY <1>3, BlocksInBytes
  <2>2. \A k \in Blocks(a) : IsFree(k)
    BY <1>1, <1>2 DEF FirstFit, Fits, Blocks, Table
  <2> QED BY <2>1, <2>2
<1>5. /\ live' = live \cup {a}
      /\ entries' = Mark(i, n)
      /\ overruns' = IF Overruns(a) THEN overruns + 1 ELSE overruns
  BY <1>1 DEF Allocate
<1>6. /\ entries' \in [Bytes -> SUBSET Flags]
      /\ \A k \in Bytes \ Blocks(a) : entries'[k] = entries[k]
      /\ \A k \in Blocks(a) : "TAKEN" \in entries'[k]
      /\ \A k \in Blocks(a) : "HAS_NEXT" \in entries'[k] <=> k < a.start + a.len - 1
  <2>1. entries \in [Bytes -> SUBSET Flags]
    BY DEF IInv, TypeOK
  <2>2. entries' \in [Bytes -> SUBSET Flags]
    BY <1>5, <2>1 DEF Mark, Flags
  <2>3. \A k \in Bytes : k \notin Blocks(a) => entries'[k] = entries[k]
    BY <1>2, <1>5 DEF Mark, Blocks, Table, Bytes
  <2>4. \A k \in Blocks(a) : "TAKEN" \in entries'[k]
    BY <1>2, <1>4, <1>5 DEF Mark, Blocks, Table, Bytes
  <2>5. \A k \in Blocks(a) : "HAS_NEXT" \in entries'[k] <=> k < a.start + a.len - 1
    BY <1>2, <1>4, <1>5 DEF Mark, Blocks, Table, Bytes
  <2> QED BY <2>2, <2>3, <2>4, <2>5
<1>7. \A b \in live : Blocks(b) \cap Blocks(a) = {} /\ Blocks(b) \subseteq Bytes
  BY <1>4, BlocksInBytes DEF IInv, Marked, TypeOK
<1>8. TypeOK'
  BY <1>3, <1>5, <1>6 DEF IInv, TypeOK
<1>9. NoPageSharing'
  BY <1>5, <1>7 DEF IInv, NoPageSharing
<1>10. Marked' /\ ChainsEnd'
  <2>1. ASSUME NEW b \in live'
        PROVE  \A k \in Blocks(b) : /\ "TAKEN" \in entries'[k]
                                    /\ "HAS_NEXT" \in entries'[k] <=> k < b.start + b.len - 1
    <3>1. CASE b = a
      BY <3>1, <1>6
    <3>2. CASE b \in live
      BY <3>2, <1>6, <1>7 DEF IInv, Marked, ChainsEnd, IsFree
    <3> QED BY <1>5, <2>1, <3>1, <3>2
  <2> QED BY <2>1 DEF Marked, ChainsEnd, IsFree
<1>11. TableAgrees'
  <2>1. ASSUME NEW k \in Table
        PROVE  "TAKEN" \in entries'[k] <=> \E b \in live' : k \in Blocks(b)
    <3>0. k \in Bytes
      BY DEF Table, Bytes
    <3>1. CASE k \in Blocks(a)
      BY <3>1, <1>5, <1>6
    <3>2. CASE k \notin Blocks(a)
      BY <3>0, <3>2, <1>5, <1>6 DEF IInv, TableAgrees, IsFree
    <3> QED BY <3>1, <3>2
  <2> QED BY <2>1 DEF TableAgrees, IsFree
<1>12. CoversRequest'
  <2>1. a.len * BlockSize >= a.size
    BY <1>2
  <2> QED BY <2>1, <1>5 DEF IInv, CoversRequest
<1>13. Sealed'
  <2>0. NumEntries \in Bytes
    BY DEF Bytes
  <2>1. CASE Overruns(a)
    <3>1. NumEntries \in Blocks(a)
      BY <2>1, <1>3, BlocksInBytes
    <3>2. overruns = 0
      BY <3>1, <1>4 DEF IInv, Sealed
    <3> QED BY <2>1, <3>1, <3>2, <1>5, <1>6 DEF Sealed, IsFree
  <2>2. CASE ~Overruns(a)
    <3>1. overruns' = overruns
      BY <2>2, <1>5
    <3> QED BY <2>0, <3>1, <1>6 DEF IInv, Sealed, IsFree
  <2> QED BY <2>1, <2>2
<1> QED BY <1>8, <1>9, <1>10, <1>11, <1>12, <1>13 DEF IInv

\* kfree keeps the invariant.
LEMMA KfreeInv ==
  ASSUME IInv, NEW a \in live, kfree(a)
  PROVE  IInv'
<1> USE KHeapAssumption
<1>1. /\ live' = live \ {a}
      /\ entries' = [i \in Bytes |-> IF i \in Blocks(a) \cap Table THEN {} ELSE entries[i]]
      /\ overruns' = overruns
  BY FreedExactly DEF kfree, IInv
<1>2. \A b \in live' : /\ b \in live
                       /\ Blocks(b) \cap Blocks(a) = {}
                       /\ Blocks(b) \subseteq Bytes
  BY <1>1, BlocksInBytes DEF IInv, NoPageSharing, TypeOK
<1>3. TypeOK'
  BY <1>1 DEF IInv, TypeOK
<1>4. NoPageSharing' /\ CoversRequest'
  BY <1>2 DEF IInv, NoPageSharing, CoversRequest
<1>5. Marked' /\ ChainsEnd'
  BY <1>1, <1>2 DEF IInv, Marked, ChainsEnd, IsFree
<1>6. TableAgrees'
  <2>1. ASSUME NEW k \in Table
        PROVE  "TAKEN" \in entries'[k] <=> \E b \in live' : k \in Blocks(b)
    <3>0. k \in Bytes
      BY DEF Table, Bytes
    <3>1. CASE k \in Blocks(a)
      BY <3>0, <3>1, <1>1, <1>2
    <3>2. CASE k \notin Blocks(a)
      BY <3>0, <3>2, <1>1 DEF IInv, TableAgrees, IsFree
    <3> QED BY <3>1, <3>2
  <2> QED BY <2>1 DEF TableAgrees, IsFree
<1>7. Sealed'
  <2>1. entries'[NumEntries] = entries[NumEntries]
    BY <1>1 DEF Bytes, Table
  <2> QED BY <2>1, <1>1 DEF IInv, Sealed, IsFree
<1> QED BY <1>3, <1>4, <1>5, <1>6, <1>7 DEF IInv

\* A failing kzalloc of a small request clears no byte of the table.
LEMMA KzallocNullInv ==
  ASSUME SmallRequests, IInv, NEW size \in Sizes, kzalloc_null(size)
  PROVE  UNCHANGED vars
<1>1. \A i \in Bytes : ~(TableAddr + i < size)
  BY KHeapAssumption, NumBlocksCovers DEF SmallRequests, Bytes
<1>2. entries' = [i \in Bytes |-> entries[i]]
  BY <1>1 DEF kzalloc_null
<1>3. entries' = entries
  BY <1>2 DEF IInv, TypeOK
<1> QED BY <1>3 DEF kzalloc_null, vars

\* A step that changes nothing keeps the invariant.
LEMMA StutterInv == IInv /\ UNCHANGED vars => IInv'
BY DEF IInv, TypeOK, NoPageSharing, TableAgrees, ChainsEnd, CoversRequest,
       Marked, Sealed, IsFree, vars

\* Every step of the heap keeps the invariant.
LEMMA NextInv ==
  ASSUME SmallRequests, IInv, [Next]_vars
  PROVE  IInv'
<1>1. ASSUME NEW size \in Sizes, kmalloc(size)
      PROVE  IInv'
  BY <1>1, KmallocInv
<1>2. ASSUME NEW size \in Sizes, kmalloc_null(size)
      PROVE  IInv'
  BY <1>2, StutterInv DEF kmalloc_null
<1>3. ASSUME NEW size \in Sizes, kzalloc_null(size)
      PROVE  IInv'
  BY <1>3, KzallocNullInv, StutterInv
<1>4. ASSUME NEW a \in live, kfree(a)
      PROVE  IInv'
  BY <1>4, KfreeInv
<1> QED
  BY <1>1, <1>2, <1>3, <1>4, StutterInv DEF Next

\* For every heap and every set of small requests: the allocations the callers
\* of kmalloc hold never share a block, the table marks exactly their blocks,
\* and each has the bytes that were asked for.
THEOREM HeapSafety ==
  ASSUME SmallRequests
  PROVE  Spec => [](TypeOK /\ NoPageSharing /\ TableAgrees /\ ChainsEnd /\ CoversRequest)
<1>1. IInv /\ [Next]_vars => IInv'
  BY NextInv
<1>2. IInv => TypeOK /\ NoPageSharing /\ TableAgrees /\ ChainsEnd /\ CoversRequest
  BY DEF IInv
<1> QED
  BY InitInv, <1>1, <1>2, PTL DEF Spec

\* For every heap and every set of small requests: at most one allocation ever
\* runs past the end of the table.
THEOREM HeapOverrunsOnce ==
  ASSUME SmallRequests
  PROVE  Spec => []OverrunsOnce
<1>1. IInv /\ [Next]_vars => IInv'
  BY NextInv
<1>2. IInv => OverrunsOnce
  BY DEF IInv, Sealed, OverrunsOnce
<1> QED
  BY InitInv, <1>1, <1>2, PTL DEF Spec

\* kmalloc hands out one region, all of whose blocks were free.
LEMMA KmallocTakesFree ==
  ASSUME NEW size \in Sizes, kmalloc(size)
  PROVE  \E a \in Allocation : /\ live' = live \cup {a}
                               /\ \A k \in Blocks(a) : IsFree(k)
<1> DEFINE n == NumBlocks(size)
<1>1. PICK i \in Table : FirstFit(i, n) /\ Allocate(size, i)
  BY DEF kmalloc, SearchStarts
<1> DEFINE a == [start |-> i, len |-> IF n = 0 THEN 1 ELSE n, size |-> size]
<1>2. n \in 0..(Beyond + 1)
  BY NumBlocksCovers
<1>3. a \in Allocation
  BY <1>2, KHeapAssumption DEF Allocation
<1>4. \A k \in Blocks(a) : IsFree(k)
  BY <1>1, <1>2, KHeapAssumption DEF FirstFit, Fits, Blocks, Table
<1> QED
  BY <1>1, <1>3, <1>4 DEF Allocate

\* A step of the heap is a step of the allocator, or one it does not see.
LEMMA StepImplements ==
  ASSUME SmallRequests, IInv, [Next]_vars
  PROVE  [Abstract!Next]_({Blocks(a) : a \in live})
<1> DEFINE h == {Blocks(a) : a \in live}
<1>0. \A a \in live : Blocks(a) # {}
  BY BlocksInBytes DEF IInv, TypeOK
<1>1. ASSUME NEW size \in Sizes, kmalloc(size)
      PROVE  Abstract!Alloc
  <2>1. PICK a \in Allocation : live' = live \cup {a} /\ \A k \in Blocks(a) : IsFree(k)
    BY <1>1, KmallocTakesFree
  <2>2. h' = h \cup {Blocks(a)}
    BY <2>1
  <2>3. Blocks(a) \in (SUBSET (Bytes \ UNION h)) \ {{}}
    BY <2>1, BlocksInBytes DEF IInv, Marked
  <2> QED
    BY <2>2, <2>3, SMTT(40) DEF Abstract!Alloc
<1>2. ASSUME NEW a \in live, kfree(a)
      PROVE  Abstract!Free
  <2>1. live' = live \ {a}
    BY <1>2 DEF kfree
  <2>2. \A b \in live : b # a => Blocks(b) # Blocks(a)
    BY <1>0 DEF IInv, NoPageSharing
  <2>3. h' = h \ {Blocks(a)}
    BY <2>1, <2>2
  <2> QED
    BY <2>3 DEF Abstract!Free
<1>3. (live' = live) => (h' = h)
  OBVIOUS
<1>4. ASSUME NEW size \in Sizes, kmalloc_null(size) \/ kzalloc_null(size)
      PROVE  live' = live
  BY <1>4 DEF kmalloc_null, kzalloc_null, vars
<1>5. UNCHANGED vars => live' = live
  BY DEF vars
<1> QED
  BY <1>1, <1>2, <1>3, <1>4, <1>5 DEF Next, Abstract!Next

\* For every heap and every set of small requests: kheap.c implements the
\* allocator its callers rely on.
THEOREM HeapImplementsAllocator ==
  ASSUME SmallRequests
  PROVE  Spec => ImplementsAllocator
<1>1. Init => Abstract!Init
  BY DEF Init, Abstract!Init
<1>2. IInv /\ [Next]_vars => IInv' /\ [Abstract!Next]_({Blocks(a) : a \in live})
  BY NextInv, StepImplements
<1> QED
  BY InitInv, <1>1, <1>2, PTL DEF Spec, ImplementsAllocator, Abstract!Spec
==============================================================================
