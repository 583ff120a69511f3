------------------------------ MODULE UserHeap -------------------------------
(***************************************************************************)
(* A program's heap: malloc of programs/stdlib/src/stdlib.c on top of the  *)
(* mmap system call, in the process that ProcessImage makes.  Addresses    *)
(* are counted modulo AddrSpace, as unsigned int is modulo 2^32.           *)
(***************************************************************************)
EXTENDS ProcessImage

CONSTANTS
  InfoSize,     \* sizeof(struct malloc_info) (8)
  Sizes,        \* the sizes that the program asks for
  MaxAllocs     \* bound: blocks that malloc returns

ASSUME UserHeapAssumption ==
  /\ InfoSize \in Nat \ {0} /\ InfoSize < PageSize
  /\ Sizes \subseteq 0..(AddrSpace - 1)
  /\ MaxAllocs \in Nat

HEAP_TOP == (TopPage + 1) * PageSize
HeapInfo == -2      \* a byte of a struct malloc_info

VARIABLES
  heap_end,     \* the lowest mapped address of the heap
  heap_curr,    \* the lowest used address of the heap
  given         \* the blocks that malloc has returned

heapVars == <<heap_end, heap_curr, given>>

HeapInit ==
  /\ Init
  /\ heap_end = HEAP_TOP
  /\ heap_curr = HEAP_TOP
  /\ given = {}

down_align(a) == a - (a % PageSize)

\* verify_user_pointer: the address is above the kernel's.
verify_user_pointer(a) == a >= PageSize

\* syscall_mmap of the addresses start..end-1, for reading and writing.
MmapFails(start, end) ==
  \/ ~verify_user_pointer(start) \/ ~verify_user_pointer(end) \/ start >= end
  \/ ~HasFrames(State, end - start)
  \/ Len(blocks) = MaxBlocks

Mmapped(start, end) ==
  [Filled(State, end - start, LAMBDA i : Zero)
     EXCEPT !.pt = paging_map_memory_region(@, start \div PageSize, next, end \div PageSize, Writable),
            !.blocks = AddBlock(@, start, end)]

\* As if the struct malloc_info were left out of the test.
GrowsForSize(size) == heap_curr - size < heap_end

\* Whether malloc needs more space.
Grows(size) == (heap_curr - (size + InfoSize)) % AddrSpace < heap_end

\* malloc(size): a null pointer, and nothing changed, if mmap fails; otherwise
\* the struct malloc_info is written below the block.
malloc(size) ==
  LET alloc_size == (size + InfoSize) % AddrSpace
      new_end == down_align((heap_end - alloc_size) % AddrSpace)
      s       == IF Grows(size) THEN Mmapped(new_end, heap_end) ELSE State
      curr    == (heap_curr - alloc_size) % AddrSpace
      byte(a) == s.pt.entry[a \div PageSize].frame * PageSize + (a % PageSize)
      info    == {byte(a) : a \in curr..(curr + InfoSize - 1)}
  IN /\ phase = "ready"
     /\ Cardinality(given) < MaxAllocs
     /\ Grows(size) => ~MmapFails(new_end, heap_end)
     /\ heap_end' = IF Grows(size) THEN new_end ELSE heap_end
     /\ heap_curr' = curr
     /\ given' = given \cup {[start |-> curr + InfoSize, size |-> size]}
     /\ mem' = [b \in DOMAIN s.mem |-> IF b \in info THEN HeapInfo ELSE s.mem[b]]
     /\ pt' = s.pt /\ next' = s.next /\ blocks' = s.blocks
     /\ UNCHANGED <<file, phase, held>>

HeapNext ==
  \/ Next /\ UNCHANGED heapVars
  \/ \E size \in Sizes : malloc(size)

HeapSpec == HeapInit /\ [][HeapNext]_<<vars, heapVars>>

-----------------------------------------------------------------------------
\* A block with its struct malloc_info.
Extent(b) == (b.start - InfoSize)..(b.start + b.size - 1)

\* In a program as the linker script lays it out, every block that malloc has
\* returned is the program's own, whatever was asked for before: it lies with its
\* struct malloc_info below HEAP_TOP on pages the program may write, and no byte
\* of memory behind it belongs to another block, to the image of the program or
\* to its stack.  The struct malloc_info of every block is still the one that
\* malloc wrote.
BlocksUsable ==
  Linked(file) => \A b \in given :
    /\ \A a \in Extent(b) : a \in PageSize..(HEAP_TOP - 1) /\ Access(pt, a \div PageSize) = Writable
    /\ \A c \in given \ {b} :
         {Physical(a) : a \in Extent(b)} \cap {Physical(a) : a \in Extent(c)} = {}
    /\ \A a \in Extent(b) :
         \A v \in {StackPage} \cup UNION {PagesOfSegment(file.phdrs[i]) : i \in Loads} :
           Physical(a) \div PageSize # pt.entry[v].frame
    /\ \A a \in (b.start - InfoSize)..(b.start - 1) : mem[Physical(a)] = HeapInfo
==============================================================================
