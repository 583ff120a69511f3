------------------------------- MODULE UserMem -------------------------------
(***************************************************************************)
(* The memory of user processes: the page tables of                        *)
(* src/memory/paging/paging.c, the segments and the stack that             *)
(* src/task/process.c maps, the mmap and munmap system calls of            *)
(* src/syscall/umem.c, and what exit and reap give back to the heap.       *)
(*                                                                         *)
(* Pages and frames are numbered.  Pages 1..NumFrames are the kernel's,    *)
(* mapped to the frame of the same number; the next NumPages pages lie     *)
(* above KHEAP_SAFE_BOUNDARY.  A program has one text page in the memory   *)
(* of its file, one page of bss, and one page of stack.                    *)
(*                                                                         *)
(* The heap is the set of its regions (see KHeap).  A kzalloc that fails   *)
(* clears memory from address 0 on; with WipePages pages it reaches the    *)
(* table of the heap, and the model ends.  Only mmap asks for that much:   *)
(* files and bss are taken to be shorter.                                  *)
(*                                                                         *)
(* The processor caches translations: stale[p] holds those that p may      *)
(* still use after the page table has changed, as page, frame and access.  *)
(* Ghosts: the owner and use of a region; asked[p], the access that p last *)
(* asked for, page by page; wrote[f], the processes whose bytes may be in  *)
(* frame f up to the size that kzalloc was asked for, and tail[f], in what *)
(* follows on the page.  A process is taken to write at once whatever it   *)
(* may, and all the same to leave what was there.                          *)
(***************************************************************************)
EXTENDS Paging, FiniteSets

CONSTANTS
  Proc,         \* process slots
  Nobody,       \* the owner of memory whose process is gone
  NumFrames,    \* heap blocks
  NumPages,     \* user pages
  MaxBlocks,    \* PROCESS_VMEM_MAX_BLOCKS (10)
  WipePages,    \* a failing kzalloc of so many pages clears the heap's table (8)
  MaxMaps       \* bound on the mmap regions in the heap

ASSUME UserMemAssumption ==
  /\ NumFrames \in Nat \ {0}
  /\ NumPages \in Nat /\ NumPages >= 3
  /\ (NumFrames + 1) % DirSpan = 0     \* KHEAP_SAFE_BOUNDARY starts a directory entry
  /\ MaxBlocks \in Nat \ {0}
  /\ MaxMaps \in Nat \ {0}
  /\ WipePages \in Nat \ {0}
  /\ Nobody \notin Proc

Frame    == 1..NumFrames
UserPage == (NumFrames + 1)..(NumFrames + NumPages)
Page     == Frame \cup UserPage

\* DEFAULT_USER_STACK_END and the pages of the program's segments.
StackPage == NumFrames + 1
TextPage  == NumFrames + 2
BssPage   == NumFrames + 3

VARIABLES
  status,     \* of a slot: "UNUSED", "CAN_START" or "ZOMBIE"
  pt,         \* the page table of a slot's task
  blocks,     \* vmem_blocks_start and vmem_blocks_end
  heap,       \* the regions kzalloc has given out
  wiped,      \* the table of the heap has been cleared
  stale,
  asked, wrote, tail

vars == <<status, pt, blocks, heap, wiped, stale, asked, wrote, tail>>

NoBlock  == [start |-> 0, end |-> 0]
NoTable  == [entry |-> [v \in Page |-> NoPage], dir |-> [d \in {DirOf(v) : v \in Page} |-> {}]]
Use      == {"tables", "stack", "elf_file", "file", "bss", "mmap", "lost"}
UserUse  == {"stack", "file", "bss", "mmap"}      \* what user code may reach
Region   == [start : Frame, len : 1..NumFrames, owner : Proc \cup {Nobody}, use : Use]
FramesOf(r) == r.start..(r.start + r.len - 1)
Pages(b) == b.start..(b.end - 1)

TypeOK ==
  /\ status \in [Proc -> {"UNUSED", "CAN_START", "ZOMBIE"}]
  /\ \A p \in Proc :
       /\ \A v \in Page : pt[p].entry[v].frame \in Page \cup {0} /\ pt[p].entry[v].flags \subseteq Flag
       /\ \A v \in Page : pt[p].dir[DirOf(v)] \subseteq Flag
       /\ \A i \in 1..MaxBlocks :
            /\ blocks[p][i].start \in Page \cup {0}
            /\ blocks[p][i].end \in Page \cup {0, NumFrames + NumPages + 1}
  /\ heap \subseteq Region
  /\ wiped \in BOOLEAN
  /\ stale \in [Proc -> SUBSET (UserPage \X Frame \X SUBSET Flag)]
  /\ asked \in [Proc -> [UserPage -> SUBSET Flag]]
  /\ wrote \in [Frame -> SUBSET Proc]
  /\ tail \in [Frame -> SUBSET Proc]

Init ==
  /\ status = [p \in Proc |-> "UNUSED"]
  /\ pt = [p \in Proc |-> NoTable]
  /\ blocks = [p \in Proc |-> [i \in 1..MaxBlocks |-> NoBlock]]
  /\ heap = {}
  /\ wiped = FALSE
  /\ stale = [p \in Proc |-> {}]
  /\ asked = [p \in Proc |-> [v \in UserPage |-> {}]]
  /\ wrote = [f \in Frame |-> {}]
  /\ tail = [f \in Frame |-> {}]

-----------------------------------------------------------------------------
\* The heap: first fit, as in KHeap; 0 is the null pointer.
FirstFit(len, h) ==
  LET taken == UNION {FramesOf(r) : r \in h}
      fits  == {f \in Frame : f + len - 1 <= NumFrames /\ f..(f + len - 1) \cap taken = {}}
  IN IF fits = {} THEN 0 ELSE CHOOSE f \in fits : \A g \in fits : f <= g

Kzalloc(len, owner, use, h) ==
  [start |-> FirstFit(len, h), len |-> len, owner |-> owner, use |-> use]

\* As if the memory were taken with kmalloc.
NotCleared(w, regions) == w

\* kzalloc clears as many bytes as it was asked for.
Cleared(w, regions) ==
  [f \in Frame |-> IF \E r \in regions : f \in FramesOf(r) THEN {} ELSE w[f]]

\* The last page of a region goes on behind the size asked for, unless that is a
\* number of pages, as it is for the stack and for mmap.
Padded(r, f) == r.use \notin {"stack", "mmap"} /\ f = r.start + r.len - 1

\* There, kzalloc leaves what was in the frame.
ClearedTail(w, x, regions) ==
  [f \in Frame |-> IF \E r \in regions : Padded(r, f) THEN w[f] \cup x[f] ELSE Cleared(x, regions)[f]]

\* From now on p may write these regions.
Written(w, regions, p) ==
  [f \in Frame |-> IF \E r \in regions : f \in FramesOf(r) THEN w[f] \cup {p} ELSE w[f]]

\* asked, once process p has asked for the access flags to the pages.
Ask(p, pages, flags) ==
  [asked EXCEPT ![p] = [v \in UserPage |-> IF v \in pages THEN flags ELSE @[v]]]

\* The translations that the processor may have cached and that table changes.
Outdated(p, table) ==
  {<<v, pt[p].entry[v].frame, Access(pt[p], v)>> : v \in
     {u \in UserPage : /\ Access(pt[p], u) # {}
                       /\ \/ table.entry[u] # pt[p].entry[u]
                          \/ Access(table, u) # Access(pt[p], u)}}

-----------------------------------------------------------------------------
\* process_new when the kernel has the memory: the stack, struct elf_file and the
\* file (see ProcessImage for elf_load), the task with its page tables, and the
\* bss.
\* process_map_elf maps the text from the file and the bss from memory of its
\* own, which it notes as a block by its physical address, then the stack.
process_new(p) ==
  LET stack    == Kzalloc(1, p, "stack", heap)
      elf_file == Kzalloc(1, p, "elf_file", heap \cup {stack})
      file     == Kzalloc(1, p, "file", heap \cup {stack, elf_file})
      tables   == Kzalloc(1, p, "tables", heap \cup {stack, elf_file, file})
      bss      == Kzalloc(1, p, "bss", heap \cup {stack, elf_file, file, tables})
      text_t == paging_map_memory_region(IdentityTable(Page), TextPage, file.start, TextPage + 1, ReadOnly)
      bss_t  == paging_map_memory_region(text_t, BssPage, bss.start, BssPage + 1, Writable)
  IN /\ ~wiped /\ status[p] = "UNUSED"
     /\ 0 \notin {r.start : r \in {stack, elf_file, file, tables, bss}}
     /\ status' = [status EXCEPT ![p] = "CAN_START"]
     /\ heap' = heap \cup {stack, elf_file, file, tables, bss}
     /\ pt' = [pt EXCEPT ![p] = paging_map_memory_region(bss_t, StackPage, stack.start, StackPage + 1, Writable)]
     /\ blocks' = [blocks EXCEPT ![p] = [i \in 1..MaxBlocks |->
                     IF i = 1 THEN [start |-> bss.start, end |-> bss.start + 1] ELSE NoBlock]]
     /\ asked' = [asked EXCEPT ![p] = [v \in UserPage |->
                     CASE v = TextPage -> ReadOnly
                       [] v \in {StackPage, BssPage} -> Writable
                       [] OTHER -> {}]]
     /\ wrote' = Written(Cleared(wrote, heap' \ heap), {stack, bss}, p)
     /\ tail' = Written(ClearedTail(wrote, tail, heap' \ heap), {stack, bss}, p)
     /\ UNCHANGED <<stale, wiped>>

\* process_new without memory for struct elf_file or the file, or, with the task
\* in place, for the bss: elf_load frees what it took, and nothing else is freed.
process_new_fails(p) ==
  LET stack    == Kzalloc(1, Nobody, "lost", heap)
      elf_file == Kzalloc(1, Nobody, "lost", heap \cup {stack})
      file     == Kzalloc(1, Nobody, "lost", heap \cup {stack, elf_file})
      tables   == Kzalloc(1, Nobody, "lost", heap \cup {stack, elf_file, file})
      bss      == Kzalloc(1, Nobody, "lost", heap \cup {stack, elf_file, file, tables})
  IN /\ ~wiped /\ status[p] = "UNUSED"
     /\ stack.start # 0
     /\ \/ /\ file.start = 0
           /\ heap' = heap \cup {stack}
        \/ /\ tables.start # 0 /\ bss.start = 0
           /\ heap' = heap \cup {stack, elf_file, file, tables}
     /\ wrote' = Cleared(wrote, {stack, elf_file, file, tables})
     /\ tail' = ClearedTail(wrote, tail, {stack, elf_file, file, tables})
     /\ UNCHANGED <<status, pt, blocks, wiped, stale, asked>>

FreeBlocks(p) == {i \in 1..MaxBlocks : blocks[p][i].start = 0}

\* As if the check of the address were dropped.
AnyPointer(v) == TRUE

verify_user_pointer(v) == v > NumFrames

\* As if the frame of an overwritten entry were freed.
OverwrittenFreed(p, pages, h) ==
  {r \in h : r.start \notin {pt[p].entry[v].frame : v \in pages}}

\* paging_new_vpn_to_pfn keeps the frame of the entry that it overwrites.
Overwritten(p, pages, h) == h

\* No block is free: the memory, cleared by now, goes back to the heap.
UndoMmap(p, r, start, end, flags) ==
  /\ wrote' = Cleared(wrote, {r})
  /\ tail' = ClearedTail(wrote, tail, {r})
  /\ UNCHANGED <<pt, asked, blocks, heap, wiped, stale>>

\* There is no memory: kzalloc has cleared as much from address 0 on.
FailMmap(pages) ==
  /\ wiped' = (pages >= WipePages)
  /\ UNCHANGED <<pt, asked, blocks, heap, stale, wrote, tail>>

\* mmap of the pages start..end-1.
syscall_mmap(p, start, end, flags) ==
  LET r     == Kzalloc(end - start, p, "mmap", heap)
      pages == start..(end - 1)
      table == paging_map_memory_region(pt[p], start, r.start, end, flags)
      i     == CHOOSE k \in FreeBlocks(p) : \A l \in FreeBlocks(p) : k <= l
  IN /\ ~wiped /\ status[p] = "CAN_START"
     /\ verify_user_pointer(start) /\ verify_user_pointer(end) /\ start < end
     /\ Cardinality({m \in heap : m.use = "mmap"}) < MaxMaps
     /\ \/ /\ r.start = 0
           /\ FailMmap(end - start)
        \/ /\ r.start # 0 /\ FreeBlocks(p) = {}
           /\ UndoMmap(p, r, start, end, flags)
        \/ /\ r.start # 0 /\ FreeBlocks(p) # {}
           /\ heap' = Overwritten(p, pages, heap) \cup {r}
           /\ blocks' = [blocks EXCEPT ![p][i] = [start |-> start, end |-> end]]
           /\ pt' = [pt EXCEPT ![p] = table]
           /\ stale' = [stale EXCEPT ![p] = @ \cup Outdated(p, table)]
           /\ asked' = Ask(p, pages, flags)
           /\ wrote' = Written(Cleared(wrote, {r}), IF flags = Writable THEN {r} ELSE {}, p)
           /\ tail' = Written(ClearedTail(wrote, tail, {r}), IF flags = Writable THEN {r} ELSE {}, p)
           /\ UNCHANGED wiped
     /\ UNCHANGED status

\* munmap of the first block that starts at v, with invlpg for every entry that
\* was present.
syscall_munmap(p, v) ==
  \E i \in 1..MaxBlocks :
    /\ ~wiped /\ status[p] = "CAN_START"
    /\ blocks[p][i].start = v
    /\ \A k \in 1..(i - 1) : blocks[p][k].start # v
    /\ pt' = [pt EXCEPT ![p] = paging_free_va(@, v, blocks[p][i].end)]
    /\ stale' = [stale EXCEPT ![p] = {t \in @ : t[1] \notin
                   {u \in Pages(blocks[p][i]) : "PRESENT" \in pt[p].entry[u].flags}}]
    /\ blocks' = [blocks EXCEPT ![p][i] = NoBlock]
    /\ asked' = Ask(p, Pages(blocks[p][i]), {})
    /\ UNCHANGED <<status, heap, wiped, wrote, tail>>

\* paging_switch: loading cr3 drops the cached translations.
paging_switch(p) ==
  /\ ~wiped /\ stale[p] # {}
  /\ stale' = [stale EXCEPT ![p] = {}]
  /\ UNCHANGED <<status, pt, blocks, heap, wiped, asked, wrote, tail>>

\* As if process_exit forgot the stack.
FileFreed == {"file"}

\* What process_exit frees.
ExitFrees == {"file", "stack"}

\* process_exit: the memory of the file and the stack is freed, but not struct
\* elf_file, and every block is unmapped.  The task does not run again.
process_exit(p) ==
  /\ ~wiped /\ status[p] = "CAN_START"
  /\ status' = [status EXCEPT ![p] = "ZOMBIE"]
  /\ heap' = {r \in heap : r.owner = p => r.use \notin ExitFrees}
  /\ pt' = [pt EXCEPT ![p].entry = [v \in Page |->
              IF \E i \in 1..MaxBlocks : v \in Pages(blocks[p][i]) THEN NoPage ELSE @[v]]]
  /\ blocks' = [blocks EXCEPT ![p] = [i \in 1..MaxBlocks |-> NoBlock]]
  /\ stale' = [stale EXCEPT ![p] = {}]
  /\ UNCHANGED <<wiped, asked, wrote, tail>>

\* process_reap: the task and its page tables are freed, and the slot is
\* cleared.  What the process still had belongs to nobody.
process_reap(p) ==
  /\ ~wiped /\ status[p] = "ZOMBIE"
  /\ status' = [status EXCEPT ![p] = "UNUSED"]
  /\ heap' = {IF r.owner = p THEN [r EXCEPT !.owner = Nobody] ELSE r :
               r \in {s \in heap : ~(s.owner = p /\ s.use = "tables")}}
  /\ pt' = [pt EXCEPT ![p] = NoTable]
  /\ asked' = [asked EXCEPT ![p] = [v \in UserPage |-> {}]]
  /\ UNCHANGED <<blocks, wiped, stale, wrote, tail>>

Next ==
  \E p \in Proc :
    \/ process_new(p)
    \/ process_new_fails(p)
    \/ \E start, end \in Page, flags \in {ReadOnly, Writable} : syscall_mmap(p, start, end, flags)
    \/ \E v \in Page : syscall_munmap(p, v)
    \/ paging_switch(p)
    \/ process_exit(p)
    \/ process_reap(p)

Spec == Init /\ [][Next]_vars
-----------------------------------------------------------------------------
(* Properties *)

Running(p) == status[p] = "CAN_START"

\* The frames that user code of p can reach: through its page table, or through
\* a translation that the processor cached before the table changed.
Reachable(p) ==
  {pt[p].entry[v].frame : v \in {u \in Page : Access(pt[p], u) # {}}} \cup {t[2] : t \in stale[p]}

\* Every frame user code can reach belongs to its process: it is neither free
\* nor the kernel's nor another process's, after any sequence of mmap (over
\* pages in use too, which flushes nothing), munmap, failed mmap, exit, reap and
\* reuse of the slot (no_page_sharing, src/invariants.h).
UserFramesOwned ==
  \A p \in Proc : Running(p) => \A f \in Reachable(p) :
    \E r \in heap : r.owner = p /\ r.use \in UserUse /\ f \in FramesOf(r)

\* Memory that is handed out again after an exit or an undone mmap holds nothing
\* that another process wrote, as far as the size goes that kzalloc was asked
\* for.  Only behind it, on the last page of its program file or of its bss, can
\* a process read what another one left.
NoLeftovers ==
  \A p \in Proc : Running(p) => \A f \in Reachable(p) :
    /\ wrote[f] \subseteq {p}
    /\ \/ tail[f] \subseteq {p}
       \/ \E r \in heap : r.owner = p /\ r.use \in {"file", "bss"} /\ f = r.start + r.len - 1

\* The page table gives user code no access that the last mapping of the page
\* did not ask for.  After munmap there is none ("should crash",
\* programs/stdlib/src/stdlib.c), not even through a translation that the
\* processor cached before: one is left only for pages that are mapped, where it
\* may keep the frame and the access of an older mapping until the next flush.
NoExtraAccess ==
  \A p \in Proc : Running(p) =>
    /\ \A v \in UserPage : Access(pt[p], v) \subseteq asked[p][v]
    /\ \A v \in Frame : Access(pt[p], v) = {}
    /\ \A t \in stale[p] : asked[p][t[1]] # {}

\* A page that a process asked for stays readable until it is unmapped, whatever
\* else the process maps and unmaps, and it stays writable as long as the last
\* mapping in its directory entry asked for write access ("Overwrites old dir
\* level flags", paging.c).
AccessKept ==
  \A p \in Proc : Running(p) => \A v \in UserPage : asked[p][v] # {} =>
    /\ ReadOnly \subseteq Access(pt[p], v)
    /\ asked[p][v] = Writable /\ pt[p].dir[DirOf(v)] # ReadOnly => Access(pt[p], v) = Writable

\* The kernel is mapped to itself in the table of every process that can run:
\* kernel_mapped_in_user_va (src/invariants.h), on which task_switch relies.  Only
\* the memory of the process's own bss, noted as a block by its physical address,
\* may have been unmapped by munmap.
KernelMapped ==
  \A p \in Proc : Running(p) => \A v \in Frame :
    \/ pt[p].entry[v] = IdentityEntry(v)
    \/ pt[p].entry[v] = NoPage /\ \E r \in heap : r.owner = p /\ r.use = "bss" /\ v \in FramesOf(r)

\* Of a process that was created and reaped the heap keeps only what the code
\* says it does not free ("NO FREEING FOR NOW", paging.c), pages that it mapped
\* and its bss, and its struct elf_file, which nothing frees.
OnlyPagesLost ==
  \A r \in heap : r.owner = Nobody => r.use \in {"mmap", "bss", "elf_file", "lost"}

\* "Done: memory added as a vmem heap block" (src/task/process.c): the memory
\* of the bss is free again once its process is gone.
BssFreed == \A r \in heap : r.use = "bss" => r.owner # Nobody

\* "for now it is freed in process_free" (src/task/process.c), said of the file:
\* struct elf_file is free again too once its process is gone.
ElfFileFreed == \A r \in heap : r.use = "elf_file" => r.owner # Nobody

\* All that a process can reach has been cleared, to the end of the page.
PagesCleared ==
  \A p \in Proc : Running(p) => \A f \in Reachable(p) : tail[f] \subseteq {p}

\* An mmap that fails leaves the kernel's heap alone.
HeapKept == ~wiped

\* A page that is mapped anew for reading can no longer be written.
OldAccessGone ==
  \A p \in Proc : Running(p) => \A t \in stale[p] : t[3] \subseteq asked[p][t[1]]

\* "Very important: flush the tlb" (src/memory/paging/paging.c): user code never
\* runs with a translation that the page table no longer has.
NoStaleTranslation == \A p \in Proc : stale[p] = {}
==============================================================================
