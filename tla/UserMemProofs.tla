---------------------------- MODULE UserMemProofs ----------------------------
(***************************************************************************)
(* The memory of user processes is safe for any number of processes,       *)
(* frames, pages, pages per directory entry and blocks.                    *)
(***************************************************************************)
EXTENDS UserMem, Iteration

Dirs  == {DirOf(v) : v \in Page}
Entry == [frame : Page \cup {0}, flags : SUBSET Flag]
Table == [entry : [Page -> Entry], dir : [Dirs -> SUBSET Flag]]
Block == [start : Page \cup {0}, end : Page \cup {0, NumFrames + NumPages + 1}]

TypeInv ==
  /\ status \in [Proc -> {"UNUSED", "CAN_START", "ZOMBIE"}]
  /\ pt \in [Proc -> Table]
  /\ blocks \in [Proc -> [1..MaxBlocks -> Block]]
  /\ heap \subseteq Region
  /\ wiped \in BOOLEAN
  /\ stale \in [Proc -> SUBSET (UserPage \X Frame \X SUBSET Flag)]
  /\ asked \in [Proc -> [UserPage -> SUBSET Flag]]
  /\ wrote \in [Frame -> SUBSET Proc]
  /\ tail \in [Frame -> SUBSET Proc]

\* Frame f lies in memory of p that user code may reach.
Owned(p, f) == \E r \in heap : r.owner = p /\ r.use \in UserUse /\ f \in FramesOf(r)

\* Frame f lies in the memory of p's bss.
InBss(p, f) == \E r \in heap : r.owner = p /\ r.use = "bss" /\ f \in FramesOf(r)

\* A user page has the flags that p asked for, in an entry whose directory entry
\* lets users through, and memory of p behind it; other pages are not for users.
PageInv(p, v) ==
  /\ asked[p][v] \in {{}, ReadOnly, Writable}
  /\ asked[p][v] = {} => "USER" \notin pt[p].entry[v].flags
  /\ asked[p][v] # {} =>
       /\ pt[p].entry[v].flags = asked[p][v]
       /\ pt[p].dir[DirOf(v)] \in {ReadOnly, Writable}
       /\ Owned(p, pt[p].entry[v].frame)

\* The kernel's page v is mapped to itself, unless it is memory of p's bss.
KernelPageInv(p, v) ==
  pt[p].entry[v] = IdentityEntry(v) \/ (pt[p].entry[v] = NoPage /\ InBss(p, v))

ProcInv(p) ==
  /\ Running(p) =>
       /\ \A v \in UserPage : PageInv(p, v)
       /\ \A v \in Frame : KernelPageInv(p, v)
       /\ \A i \in 1..MaxBlocks : \A v \in Frame : v \in Pages(blocks[p][i]) => InBss(p, v)
       /\ \A t \in stale[p] : Owned(p, t[2]) /\ asked[p][t[1]] # {}
  /\ ~Running(p) => stale[p] = {}

\* What region r of w and x holds was written by its owner, but for the end of
\* its last page.
OwnBytes(r, w, x) ==
  \A f \in FramesOf(r) : w[f] \subseteq {r.owner} /\ (x[f] \subseteq {r.owner} \/ Padded(r, f))

\* The regions lie in the heap and apart, and hold what their owners wrote; a
\* zombie has given back its file and its stack.
RegionInv(r, w, x, st) ==
  /\ FramesOf(r) \subseteq Frame
  /\ r.owner # Nobody => OwnBytes(r, w, x)
  /\ r.owner = Nobody => r.use \in {"mmap", "bss", "elf_file", "lost"}
  /\ \A p \in Proc : r.owner = p /\ st[p] = "ZOMBIE" => r.use \notin {"file", "stack"}

Apart(r, s) == FramesOf(r) \cap FramesOf(s) = {}

AllApart(h) == \A r, s \in h : r # s => Apart(r, s)

HeapInv(h, w, x, st) ==
  /\ \A r \in h : RegionInv(r, w, x, st)
  /\ AllApart(h)

IInv == TypeInv /\ HeapInv(heap, wrote, tail, status) /\ \A p \in Proc : ProcInv(p)
-----------------------------------------------------------------------------
(* The heap *)

\* FirstFit finds frames in the heap that no region has.
LEMMA FirstFitFree ==
  ASSUME NEW len \in Nat \ {0}, NEW h, FirstFit(len, h) # 0
  PROVE  /\ FirstFit(len, h) \in Frame
         /\ FirstFit(len, h) + len - 1 <= NumFrames
         /\ \A r \in h : FirstFit(len, h)..(FirstFit(len, h) + len - 1) \cap FramesOf(r) = {}
<1> DEFINE taken == UNION {FramesOf(r) : r \in h}
           fits  == {f \in Frame : f + len - 1 <= NumFrames /\ f..(f + len - 1) \cap taken = {}}
<1>1. FirstFit(len, h) = IF fits = {} THEN 0 ELSE CHOOSE f \in fits : \A g \in fits : f <= g
  BY DEF FirstFit
<1>2. fits \subseteq Nat
  BY UserMemAssumption DEF Frame
<1>3. fits # {}
  BY <1>1
<1> HIDE DEF fits
<1>4. \E f \in fits : \A g \in fits : f <= g
  BY <1>2, <1>3, LeastElement
<1>5. FirstFit(len, h) \in fits
  BY <1>1, <1>3, <1>4
<1>6. \A r \in h : FramesOf(r) \subseteq taken
  OBVIOUS
<1> QED BY <1>5, <1>6 DEF fits

\* What does not fit does not fit in a fuller heap.
LEMMA FirstFitFails ==
  ASSUME NEW len, NEW h, NEW g, h \subseteq g, FirstFit(len, h) = 0
  PROVE  FirstFit(len, g) = 0
<1> DEFINE taken(x) == UNION {FramesOf(r) : r \in x}
           fits(x)  == {f \in Frame : f + len - 1 <= NumFrames /\ f..(f + len - 1) \cap taken(x) = {}}
<1>1. \A x : FirstFit(len, x) = IF fits(x) = {} THEN 0 ELSE CHOOSE f \in fits(x) : \A m \in fits(x) : f <= m
  BY DEF FirstFit
<1>2. fits(g) \subseteq fits(h)
  OBVIOUS
<1>3. fits(h) \subseteq Nat /\ 0 \notin fits(h)
  BY UserMemAssumption DEF Frame
<1> HIDE DEF fits
<1>4. fits(h) = {}
  <2> SUFFICES ASSUME fits(h) # {} PROVE FALSE
    OBVIOUS
  <2>1. \E f \in fits(h) : \A m \in fits(h) : f <= m
    BY <1>3, LeastElement
  <2> QED BY <2>1, <1>1, <1>3
<1> QED BY <1>1, <1>2, <1>4

\* r is a region of the heap that lies apart from the regions of h.
Fresh(r, h) ==
  /\ r \in Region
  /\ FramesOf(r) \subseteq Frame
  /\ r.start \in FramesOf(r)
  /\ \A s \in h : Apart(r, s) /\ Apart(s, r)

\* kzalloc gives a region of the heap that lies apart from all others.
LEMMA NewRegion ==
  ASSUME NEW len \in Nat \ {0}, NEW owner \in Proc \cup {Nobody}, NEW use \in Use, NEW h,
         Kzalloc(len, owner, use, h).start # 0
  PROVE  Fresh(Kzalloc(len, owner, use, h), h)
<1> DEFINE r == Kzalloc(len, owner, use, h)
<1>1. /\ r = [start |-> FirstFit(len, h), len |-> len, owner |-> owner, use |-> use]
      /\ r.start = FirstFit(len, h) /\ r.len = len
  BY DEF Kzalloc
<1>2. /\ r.start \in Frame /\ r.start + len - 1 <= NumFrames
      /\ \A s \in h : r.start..(r.start + len - 1) \cap FramesOf(s) = {}
  BY <1>1, FirstFitFree
<1>3. r.start \in Nat /\ len \in 1..NumFrames
  BY <1>2, UserMemAssumption DEF Frame
<1> QED BY <1>1, <1>2, <1>3, UserMemAssumption DEF Region, FramesOf, Frame, Apart, Fresh

\* A new region keeps the regions apart.
LEMMA RegionAdded ==
  ASSUME NEW h, AllApart(h), NEW r, Fresh(r, h)
  PROVE  AllApart(h \cup {r})
BY DEF AllApart, Fresh

\* The memory of the regions in use may be cleared.
LEMMA HeapWritten ==
  ASSUME NEW h, NEW w, NEW x, NEW st, HeapInv(h, w, x, st), NEW v, NEW y,
         \A r \in h : \A f \in FramesOf(r) : v[f] \subseteq w[f] /\ y[f] \subseteq x[f]
  PROVE  HeapInv(h, v, y, st)
<1>1. ASSUME NEW r \in h, OwnBytes(r, w, x) PROVE OwnBytes(r, v, y)
  BY <1>1 DEF OwnBytes
<1> QED BY <1>1 DEF HeapInv, RegionInv

\* What kzalloc clears, and what it leaves.
LEMMA ClearedRegions ==
  ASSUME NEW w \in [Frame -> SUBSET Proc], NEW x \in [Frame -> SUBSET Proc], NEW R
  PROVE  /\ Cleared(w, R) \in [Frame -> SUBSET Proc]
         /\ ClearedTail(w, x, R) \in [Frame -> SUBSET Proc]
         /\ \A f \in Frame : \A r \in R : f \in FramesOf(r) => Cleared(w, R)[f] = {}
         /\ \A f \in Frame : \A r \in R : f \in FramesOf(r) =>
              ClearedTail(w, x, R)[f] = {} \/ \E s \in R : Padded(s, f)
         /\ \A f \in Frame : (\A r \in R : f \notin FramesOf(r) /\ ~Padded(r, f)) =>
              Cleared(w, R)[f] = w[f] /\ ClearedTail(w, x, R)[f] = x[f]
<1>1. \A y \in [Frame -> SUBSET Proc] :
        /\ Cleared(y, R) \in [Frame -> SUBSET Proc]
        /\ \A f \in Frame : Cleared(y, R)[f] = IF \E r \in R : f \in FramesOf(r) THEN {} ELSE y[f]
  BY DEF Cleared
<1>2. \A f \in Frame : ClearedTail(w, x, R)[f] =
        IF \E r \in R : Padded(r, f) THEN w[f] \cup x[f] ELSE Cleared(x, R)[f]
  BY DEF ClearedTail
<1>3. ClearedTail(w, x, R) \in [Frame -> SUBSET Proc]
  BY <1>1 DEF ClearedTail
<1> QED BY <1>1, <1>2, <1>3

\* What p may have written.
LEMMA WrittenRegions ==
  ASSUME NEW w \in [Frame -> SUBSET Proc], NEW R, NEW p \in Proc
  PROVE  /\ Written(w, R, p) \in [Frame -> SUBSET Proc]
         /\ \A f \in Frame : Written(w, R, p)[f] \subseteq w[f] \cup {p}
         /\ \A f \in Frame : (\A r \in R : f \notin FramesOf(r)) => Written(w, R, p)[f] = w[f]
BY DEF Written

\* The end of the last page lies in the region.
LEMMA PaddedInside ==
  ASSUME NEW r, r.start \in Nat, r.len \in Nat \ {0}, NEW f, Padded(r, f)
  PROVE  f \in FramesOf(r)
BY DEF Padded, FramesOf

\* A page of memory that kzalloc gives, or the null pointer, lies apart from the
\* regions in use.
LEMMA OnePage ==
  ASSUME NEW owner, NEW use, NEW h, NEW r, r = Kzalloc(1, owner, use, h)
  PROVE  /\ r.start \in Nat /\ r.len = 1 /\ r.owner = owner /\ r.use = use
         /\ FramesOf(r) = {r.start}
         /\ \A s \in h : FramesOf(s) \subseteq Frame => Apart(r, s)
         /\ \A f : Padded(r, f) => f = r.start
<1>1. r.start = FirstFit(1, h) /\ r.len = 1 /\ r.owner = owner /\ r.use = use
  BY DEF Kzalloc
<1>2. CASE r.start = 0
  <2>1. FramesOf(r) = {0}
    BY <1>1, <1>2 DEF FramesOf
  <2>2. 0 \notin Frame
    BY DEF Frame
  <2> QED BY <1>1, <1>2, <2>1, <2>2 DEF Apart, Padded
<1>3. CASE r.start # 0
  <2>1. /\ r.start \in Frame
        /\ \A s \in h : r.start..(r.start + 1 - 1) \cap FramesOf(s) = {}
    BY <1>1, <1>3, FirstFitFree
  <2>2. r.start \in Nat
    BY <2>1, UserMemAssumption DEF Frame
  <2>3. FramesOf(r) = r.start..(r.start + 1 - 1) /\ r.start..(r.start + 1 - 1) = {r.start}
    BY <1>1, <2>2 DEF FramesOf
  <2> QED BY <1>1, <2>1, <2>2, <2>3 DEF Apart, Padded
<1> QED BY <1>2, <1>3

-----------------------------------------------------------------------------
(* The page tables *)

\* The numbers of pages and frames.
LEMMA PageNumbers ==
  /\ \A v \in Page : v \in Nat /\ v # 0
  /\ \A v \in Frame : v \in Page /\ v \in Nat /\ v # 0 /\ v \notin UserPage
  /\ \A v \in UserPage : v \in Page
  /\ \A v \in Page : v > NumFrames <=> v \in UserPage
  /\ StackPage \in UserPage /\ TextPage \in UserPage /\ BssPage \in UserPage
  /\ \A v \in Page : DirOf(v) \in Dirs
  /\ NumFrames \in Nat /\ NumPages \in Nat
BY UserMemAssumption DEF Frame, UserPage, Page, StackPage, TextPage, BssPage, Dirs

\* User code reaches nothing through an entry without the user flag.
LEMMA NoUserAccess ==
  ASSUME NEW table, NEW v, "USER" \notin table.entry[v].flags
  PROVE  Access(table, v) = {}
BY DEF Access, ReadOnly

\* What user code may do when both levels let users through.
LEMMA UserAccess ==
  ASSUME NEW table, NEW v,
         table.entry[v].flags \in {ReadOnly, Writable},
         table.dir[DirOf(v)] \in {ReadOnly, Writable}
  PROVE  /\ ReadOnly \subseteq Access(table, v)
         /\ Access(table, v) \subseteq table.entry[v].flags
         /\ Access(table, v) # {}
         /\ table.entry[v].flags = Writable /\ table.dir[DirOf(v)] # ReadOnly =>
              Access(table, v) = Writable
BY DEF Access, ReadOnly, Writable

\* m is table with the pages start..end-1 mapped to the frames from frame on.
Maps(m, table, start, frame, end, flags) ==
  /\ m \in Table
  /\ \A v \in Page : m.entry[v] = IF v \in start..(end - 1)
                                THEN [frame |-> frame + (v - start), flags |-> flags]
                                ELSE table.entry[v]
  /\ \A v \in Page : m.dir[DirOf(v)] \in {table.dir[DirOf(v)], flags}
  /\ \A v \in Page : v \in start..(end - 1) => m.dir[DirOf(v)] = flags

\* paging_map_memory_region changes the pages that it maps, and their directory
\* entries.
LEMMA Mapped ==
  ASSUME NEW table \in Table, NEW start \in Page, NEW end \in Nat, NEW frame \in Frame,
         NEW flags \in {ReadOnly, Writable}, frame + (end - start) - 1 <= NumFrames
  PROVE  Maps(paging_map_memory_region(table, start, frame, end, flags), table, start, frame, end, flags)
<1> DEFINE m     == paging_map_memory_region(table, start, frame, end, flags)
           entry == [v \in Page |-> IF v \in start..(end - 1)
                                   THEN [frame |-> frame + (v - start), flags |-> flags]
                                   ELSE table.entry[v]]
           dir   == [d \in Dirs |-> IF \E v \in start..(end - 1) : DirOf(v) = d
                                   THEN flags ELSE table.dir[d]]
<1>1. /\ DOMAIN table.entry = Page /\ DOMAIN table.dir = Dirs
      /\ \A v \in Page : table.entry[v] \in Entry
      /\ \A d \in Dirs : table.dir[d] \in SUBSET Flag
  BY DEF Table
<1>2. m = [entry |-> entry, dir |-> dir]
  BY <1>1 DEF paging_map_memory_region
<1>3. flags \in SUBSET Flag
  BY DEF ReadOnly, Writable, Flag
<1>4. entry \in [Page -> Entry]
  <2> SUFFICES ASSUME NEW v \in Page, v \in start..(end - 1)
               PROVE  frame + (v - start) \in Frame
    BY <1>1, <1>3 DEF Entry, Page
  <2> QED BY PageNumbers DEF Frame
<1>5. dir \in [Dirs -> SUBSET Flag]
  BY <1>1, <1>3
<1>6. m \in Table /\ m.entry = entry /\ m.dir = dir
  BY <1>2, <1>4, <1>5 DEF Table
<1>7. \A v \in Page : DirOf(v) \in Dirs
  BY PageNumbers
<1> QED BY <1>6, <1>7 DEF Maps

\* m is table with one more page mapped.
MapsPage(m, table, v, frame, flags) ==
  /\ m \in Table
  /\ \A u \in Page : m.entry[u] = IF u = v THEN [frame |-> frame, flags |-> flags] ELSE table.entry[u]
  /\ \A u \in Page : m.dir[DirOf(u)] \in {table.dir[DirOf(u)], flags}
  /\ m.dir[DirOf(v)] = flags

\* paging_map_memory_region of a single page.
LEMMA MappedPage ==
  ASSUME NEW table \in Table, NEW v \in Page, NEW frame \in Frame, NEW flags \in {ReadOnly, Writable}
  PROVE  MapsPage(paging_map_memory_region(table, v, frame, v + 1, flags), table, v, frame, flags)
<1>1. PICK m : m = paging_map_memory_region(table, v, frame, v + 1, flags)
  OBVIOUS
<1>2. v + 1 \in Nat /\ frame + ((v + 1) - v) - 1 <= NumFrames
  BY PageNumbers DEF Frame
<1>3. Maps(m, table, v, frame, v + 1, flags)
  BY <1>1, <1>2, Mapped
<1>4. v..((v + 1) - 1) = {v} /\ frame + (v - v) = frame
  BY PageNumbers
<1> QED BY <1>1, <1>3, <1>4, Zenon DEF Maps, MapsPage

\* paging_free_va changes the entries of its pages only.
LEMMA Unmapped ==
  ASSUME NEW table \in Table, NEW start, NEW end,
         NEW m, m = paging_free_va(table, start, end)
  PROVE  /\ m \in Table
         /\ \A v \in Page : m.entry[v] = IF v \in start..(end - 1) THEN NoPage ELSE table.entry[v]
         /\ m.dir = table.dir
<1> DEFINE entry == [v \in Page |-> IF v \in start..(end - 1) THEN NoPage ELSE table.entry[v]]
<1>1. /\ DOMAIN table.entry = Page /\ \A v \in Page : table.entry[v] \in Entry
      /\ table \in Table
  BY DEF Table
<1>2. m = [table EXCEPT !.entry = entry]
  BY <1>1 DEF paging_free_va
<1>3. NoPage \in Entry
  BY DEF NoPage, Entry
<1>4. entry \in [Page -> Entry]
  BY <1>1, <1>3
<1>5. m \in Table /\ m.entry = entry /\ m.dir = table.dir
  BY <1>1, <1>2, <1>4 DEF Table
<1> QED BY <1>5
-----------------------------------------------------------------------------
(* The invariant *)

\* A process that a step leaves alone keeps its invariant.
LEMMA OtherInv ==
  ASSUME NEW q \in Proc, ProcInv(q),
         Running(q)' <=> Running(q),
         pt'[q] = pt[q], blocks'[q] = blocks[q], asked'[q] = asked[q],
         stale'[q] \subseteq stale[q],
         \A r \in heap : r.owner = q => r \in heap'
  PROVE  ProcInv(q)'
<1>1. \A f : (Owned(q, f) => Owned(q, f)') /\ (InBss(q, f) => InBss(q, f)')
  BY DEF Owned, InBss
<1> QED BY <1>1 DEF ProcInv, PageInv, KernelPageInv

\* The invariant holds before the first process.
LEMMA InitInv == Init => IInv
<1> SUFFICES ASSUME Init PROVE IInv
  OBVIOUS
<1>1. NoTable \in Table /\ NoBlock \in Block
  BY DEF NoTable, Table, Entry, NoPage, Dirs, NoBlock, Block
<1>2. TypeInv
  BY <1>1, Zenon DEF Init, TypeInv
<1>3. HeapInv(heap, wrote, tail, status)
  BY DEF Init, HeapInv, AllApart
<1>4. \A p \in Proc : ProcInv(p)
  BY DEF Init, ProcInv, Running
<1> QED BY <1>2, <1>3, <1>4 DEF IInv

\* paging_switch keeps the invariant.
LEMMA SwitchInv ==
  ASSUME IInv, NEW p \in Proc, paging_switch(p)
  PROVE  IInv'
<1>1. TypeInv'
  BY DEF paging_switch, IInv, TypeInv
<1>2. HeapInv(heap, wrote, tail, status)'
  BY DEF paging_switch, IInv, HeapInv
<1>3. ASSUME NEW q \in Proc PROVE ProcInv(q)'
  <2>1. stale'[q] \subseteq stale[q]
    BY DEF paging_switch, IInv, TypeInv
  <2> QED BY <2>1, OtherInv DEF paging_switch, IInv, Running
<1> QED BY <1>1, <1>2, <1>3 DEF IInv

\* Asking for access changes the pages asked for.
LEMMA Asked ==
  ASSUME TypeInv, NEW p \in Proc, NEW pages, NEW flags \in SUBSET Flag
  PROVE  /\ Ask(p, pages, flags) \in [Proc -> [UserPage -> SUBSET Flag]]
         /\ \A v \in UserPage : Ask(p, pages, flags)[p][v] = IF v \in pages THEN flags ELSE asked[p][v]
         /\ \A q \in Proc : q # p => Ask(p, pages, flags)[q] = asked[q]
BY DEF TypeInv, Ask

\* munmap keeps the invariant.
LEMMA MunmapInv ==
  ASSUME IInv, NEW p \in Proc, NEW v \in Page, syscall_munmap(p, v)
  PROVE  IInv'
<1> USE DEF IInv
<1>1. PICK i \in 1..MaxBlocks :
        /\ status[p] = "CAN_START"
        /\ blocks[p][i].start = v
        /\ pt' = [pt EXCEPT ![p] = paging_free_va(@, v, blocks[p][i].end)]
        /\ stale' = [stale EXCEPT ![p] = {t \in @ : t[1] \notin
                       {u \in Pages(blocks[p][i]) : "PRESENT" \in pt[p].entry[u].flags}}]
        /\ blocks' = [blocks EXCEPT ![p][i] = NoBlock]
        /\ asked' = Ask(p, Pages(blocks[p][i]), {})
        /\ UNCHANGED <<status, heap, wiped, wrote, tail>>
  BY Zenon DEF syscall_munmap
<1> DEFINE b == blocks[p][i]
           m == paging_free_va(pt[p], v, b.end)
<1>2. /\ m \in Table /\ m.dir = pt[p].dir
      /\ \A u \in Page : m.entry[u] = IF u \in Pages(b) THEN NoPage ELSE pt[p].entry[u]
  <2>1. pt[p] \in Table /\ Pages(b) = v..(b.end - 1)
    BY <1>1 DEF TypeInv, Pages
  <2> QED BY <2>1, Unmapped
<1>3. /\ asked' \in [Proc -> [UserPage -> SUBSET Flag]]
      /\ \A u \in UserPage : asked'[p][u] = IF u \in Pages(b) THEN {} ELSE asked[p][u]
      /\ \A q \in Proc : q # p => asked'[q] = asked[q]
  BY <1>1, Asked, SMTT(40)
<1>4. TypeInv'
  <2>1. pt' \in [Proc -> Table]
    BY <1>1, <1>2, SMTT(40) DEF TypeInv
  <2>2. stale' \in [Proc -> SUBSET (UserPage \X Frame \X SUBSET Flag)]
    BY <1>1 DEF TypeInv
  <2>3. blocks' \in [Proc -> [1..MaxBlocks -> Block]]
    BY <1>1 DEF TypeInv, NoBlock, Block
  <2> QED BY <1>1, <1>3, <2>1, <2>2, <2>3, SMTT(40) DEF TypeInv
<1>5. HeapInv(heap, wrote, tail, status)'
  BY <1>1, ZenonT(40) DEF HeapInv
<1>6. ProcInv(p)'
  <2>0. pt'[p] = m /\ stale'[p] \subseteq stale[p] /\ heap' = heap /\ Running(p) /\ Running(p)'
    BY <1>1 DEF TypeInv, Running
  <2>b. \A k \in 1..MaxBlocks : blocks'[p][k] = IF k = i THEN NoBlock ELSE blocks[p][k]
    <3>1. blocks \in [Proc -> [1..MaxBlocks -> Block]]
      BY DEF TypeInv
    <3>2. blocks' = [blocks EXCEPT ![p][i] = NoBlock]
      BY <1>1, SMTT(40)
    <3> QED BY <3>1, <3>2, Zenon
  <2>1. \A f : Owned(p, f)' = Owned(p, f) /\ InBss(p, f)' = InBss(p, f)
    BY <2>0 DEF Owned, InBss
  <2>2. ASSUME NEW u \in UserPage PROVE PageInv(p, u)'
    <3>0. PageInv(p, u) /\ u \in Page
      BY <2>0 DEF ProcInv, Page
    <3>1. CASE u \in Pages(b)
      <4>1. asked'[p][u] = {} /\ pt'[p].entry[u] = NoPage
        BY <3>0, <3>1, <2>0, <1>2, <1>3, Zenon
      <4> QED BY <4>1 DEF PageInv, NoPage
    <3>2. CASE u \notin Pages(b)
      BY <3>0, <3>2, <2>0, <2>1, <1>2, <1>3, Zenon DEF PageInv
    <3> QED BY <3>1, <3>2
  <2>3. ASSUME NEW u \in Frame PROVE KernelPageInv(p, u)'
    <3>0. KernelPageInv(p, u) /\ u \in Page /\ (u \in Pages(b) => InBss(p, u))
      BY <2>0, Zenon DEF ProcInv, Page
    <3> QED BY <3>0, <2>0, <2>1, <1>2, Zenon DEF KernelPageInv
  <2>4. ASSUME NEW k \in 1..MaxBlocks, NEW u \in Frame, u \in Pages(blocks'[p][k])
        PROVE  InBss(p, u)'
    <3>1. Pages(NoBlock) \cap Frame = {}
      BY PageNumbers DEF Pages, NoBlock, Frame
    <3>2. k # i /\ blocks'[p][k] = blocks[p][k]
      BY <3>1, <2>4, <2>b
    <3> QED BY <3>2, <2>4, <2>0, <2>1 DEF ProcInv
  <2>5. ASSUME NEW t \in stale'[p] PROVE asked'[p][t[1]] # {}
    <3>1. /\ t \in stale[p] /\ asked[p][t[1]] # {} /\ t[1] \in UserPage
          /\ ~(t[1] \in Pages(b) /\ "PRESENT" \in pt[p].entry[t[1]].flags)
      <4>1. t \in stale[p]
        BY <2>0, Zenon
      <4>2. asked[p][t[1]] # {}
        BY <4>1, <2>0, Zenon DEF ProcInv
      <4>3. t[1] \in UserPage /\ stale \in [Proc -> SUBSET (UserPage \X Frame \X SUBSET Flag)]
        BY <4>1 DEF TypeInv
      <4>4. stale'[p] = {x \in stale[p] : x[1] \notin {u \in Pages(b) : "PRESENT" \in pt[p].entry[u].flags}}
        BY <4>3, <1>1, Zenon
      <4> QED BY <4>1, <4>2, <4>3, <4>4, Zenon
    <3>2. "PRESENT" \in pt[p].entry[t[1]].flags
      <4>1. PageInv(p, t[1])
        BY <3>1, <2>0, Zenon DEF ProcInv
      <4>2. pt[p].entry[t[1]].flags \in {ReadOnly, Writable}
        BY <4>1, <3>1, Zenon DEF PageInv
      <4>3. "PRESENT" \in ReadOnly /\ "PRESENT" \in Writable
        BY DEF ReadOnly, Writable
      <4> QED BY <4>2, <4>3, Zenon
    <3>3. t[1] \notin Pages(b)
      BY <3>1, <3>2, Zenon
    <3> QED BY <3>1, <3>3, <1>3, Zenon
  <2> QED BY <2>0, <2>1, <2>2, <2>3, <2>4, <2>5, SMTT(40) DEF ProcInv
<1>7. ASSUME NEW q \in Proc, q # p PROVE ProcInv(q)'
  <2>1. pt'[q] = pt[q] /\ blocks'[q] = blocks[q] /\ stale'[q] = stale[q] /\ asked'[q] = asked[q]
    BY <1>1, <1>3, <1>7 DEF TypeInv
  <2> QED BY <2>1, <1>1, OtherInv, SMTT(40) DEF Running
<1> QED BY <1>4, <1>5, <1>6, <1>7

\* process_exit keeps the invariant.
LEMMA ExitInv ==
  ASSUME IInv, NEW p \in Proc, process_exit(p)
  PROVE  IInv'
<1> USE DEF IInv
<1> DEFINE entry == [v \in Page |-> IF \E i \in 1..MaxBlocks : v \in Pages(blocks[p][i])
                                  THEN NoPage ELSE pt[p].entry[v]]
<1>1. /\ status' = [status EXCEPT ![p] = "ZOMBIE"]
      /\ heap' = {r \in heap : r.owner = p => r.use \notin ExitFrees}
      /\ pt' = [pt EXCEPT ![p].entry = entry]
      /\ blocks' = [blocks EXCEPT ![p] = [i \in 1..MaxBlocks |-> NoBlock]]
      /\ stale' = [stale EXCEPT ![p] = {}]
      /\ UNCHANGED <<wiped, asked, wrote, tail>>
  BY DEF process_exit
<1>2. TypeInv'
  <2>1. entry \in [Page -> Entry]
    <3>1. NoPage \in Entry /\ \A v \in Page : pt[p].entry[v] \in Entry
      BY DEF TypeInv, Table, NoPage, Entry
    <3> QED BY <3>1
  <2>2. pt' \in [Proc -> Table]
    BY <1>1, <2>1, ZenonT(40) DEF TypeInv, Table
  <2>3. blocks' \in [Proc -> [1..MaxBlocks -> Block]]
    BY <1>1 DEF TypeInv, NoBlock, Block
  <2>4. stale' \in [Proc -> SUBSET (UserPage \X Frame \X SUBSET Flag)]
    BY <1>1 DEF TypeInv
  <2> QED BY <1>1, <2>2, <2>3, <2>4 DEF TypeInv
<1>3. HeapInv(heap, wrote, tail, status)'
  <2>1. ASSUME NEW r \in heap' PROVE RegionInv(r, wrote, tail, status)'
    <3>1. r \in heap /\ RegionInv(r, wrote, tail, status) /\ (r.owner = p => r.use \notin {"file", "stack"})
      BY <1>1 DEF HeapInv, ExitFrees
    <3> QED BY <3>1, <1>1 DEF RegionInv, OwnBytes, TypeInv
  <2> QED BY <2>1, <1>1, Zenon DEF HeapInv, AllApart
<1>4. ASSUME NEW q \in Proc PROVE ProcInv(q)'
  <2>1. CASE q = p
    BY <2>1, <1>1 DEF ProcInv, Running, TypeInv
  <2>2. CASE q # p
    <3>1. pt'[q] = pt[q] /\ blocks'[q] = blocks[q] /\ stale'[q] = stale[q] /\ status'[q] = status[q]
      BY <1>1, <2>2 DEF TypeInv
    <3>2. \A r \in heap : r.owner = q => r \in heap'
      BY <1>1, <2>2
    <3> QED BY <3>1, <3>2, <1>1, OtherInv, Zenon DEF Running
  <2> QED BY <2>1, <2>2
<1> QED BY <1>2, <1>3, <1>4

\* process_reap keeps the invariant.
LEMMA ReapInv ==
  ASSUME IInv, NEW p \in Proc, process_reap(p)
  PROVE  IInv'
<1> USE DEF IInv
<1> DEFINE kept == {s \in heap : ~(s.owner = p /\ s.use = "tables")}
           left(r) == IF r.owner = p THEN [r EXCEPT !.owner = Nobody] ELSE r
<1>1. /\ status[p] = "ZOMBIE"
      /\ status' = [status EXCEPT ![p] = "UNUSED"]
      /\ heap' = {left(r) : r \in kept}
      /\ pt' = [pt EXCEPT ![p] = NoTable]
      /\ asked' = [asked EXCEPT ![p] = [v \in UserPage |-> {}]]
      /\ UNCHANGED <<blocks, wiped, stale, wrote, tail>>
  BY DEF process_reap
<1>2. ASSUME NEW r \in kept
      PROVE  /\ left(r) \in Region
             /\ FramesOf(left(r)) = FramesOf(r)
             /\ left(r).use = r.use
             /\ left(r).owner = IF r.owner = p THEN Nobody ELSE r.owner
  <2>1. r \in Region
    BY DEF TypeInv
  <2> QED BY <2>1 DEF Region, FramesOf
<1>3. TypeInv'
  <2>1. NoTable \in Table
    BY DEF NoTable, Table, Entry, NoPage, Dirs
  <2>2. heap' \subseteq Region
    BY <1>1, <1>2, Zenon
  <2> QED BY <1>1, <2>1, <2>2 DEF TypeInv
<1> HIDE DEF left
<1>4. HeapInv(heap, wrote, tail, status)'
  <2>1. ASSUME NEW r \in kept PROVE RegionInv(left(r), wrote', tail', status')
    <3>1. RegionInv(r, wrote, tail, status) /\ (r.owner = p => r.use # "tables") /\ r \in Region
      BY DEF HeapInv, TypeInv
    <3>2. r.owner = p => r.use \in {"mmap", "bss", "elf_file", "lost"}
      BY <3>1, <1>1, SMTT(40) DEF RegionInv, Region, Use
    <3>3. CASE r.owner = p
      BY <3>1, <3>2, <3>3, <1>1, <1>2, UserMemAssumption, SMTT(40) DEF RegionInv, TypeInv
    <3>4. CASE r.owner # p
      <4>1. left(r) = r
        BY <3>4 DEF left
      <4> QED BY <4>1, <3>1, <3>4, <1>1 DEF RegionInv, OwnBytes, TypeInv
    <3> QED BY <3>3, <3>4
  <2>2. ASSUME NEW r \in kept, NEW s \in kept, left(r) # left(s)
        PROVE  Apart(left(r), left(s))
    <3>1. r # s /\ Apart(r, s)
      BY <2>2 DEF HeapInv, AllApart
    <3> QED BY <3>1, <1>2 DEF Apart
  <2>3. \A r \in heap' : RegionInv(r, wrote', tail', status')
    BY <2>1, <1>1, Zenon
  <2>4. AllApart(heap')
    BY <2>2, <1>1 DEF AllApart
  <2> QED BY <2>3, <2>4 DEF HeapInv
<1>5. ASSUME NEW q \in Proc PROVE ProcInv(q)'
  <2>1. CASE q = p
    BY <2>1, <1>1 DEF ProcInv, Running, TypeInv
  <2>2. CASE q # p
    <3>1. pt'[q] = pt[q] /\ asked'[q] = asked[q] /\ status'[q] = status[q]
      BY <1>1, <2>2 DEF TypeInv
    <3>2. \A r \in heap : r.owner = q => r \in heap'
      BY <1>1, <2>2, SMTT(40) DEF left
    <3> QED BY <3>1, <3>2, <1>1, OtherInv, Zenon DEF Running
  <2> QED BY <2>1, <2>2
<1> QED BY <1>3, <1>4, <1>5

\* A new region whose memory is its owner's or cleared is in order.
LEMMA NewRegionInv ==
  ASSUME NEW r, NEW h, Fresh(r, h), NEW w, NEW x, NEW st,
         \/ r.owner = Nobody /\ r.use = "lost"
         \/ /\ r.owner \in Proc /\ st[r.owner] # "ZOMBIE"
            /\ OwnBytes(r, w, x)
  PROVE  RegionInv(r, w, x, st)
BY UserMemAssumption DEF RegionInv, Fresh

\* A process_new that fails keeps the invariant.
LEMMA NewFailsInv ==
  ASSUME IInv, NEW p \in Proc, process_new_fails(p)
  PROVE  IInv'
<1>0. TypeInv /\ HeapInv(heap, wrote, tail, status) /\ \A q \in Proc : ProcInv(q)
  BY DEF IInv
<1>a. PICK stack : stack = Kzalloc(1, Nobody, "lost", heap)
  OBVIOUS
<1>b. PICK h1 : h1 = heap \cup {stack}
  BY Zenon
<1>c. PICK elf_file : elf_file = Kzalloc(1, Nobody, "lost", h1)
  OBVIOUS
<1>d. PICK h2 : h2 = heap \cup {stack, elf_file}
  BY Zenon
<1>e. PICK file : file = Kzalloc(1, Nobody, "lost", h2)
  OBVIOUS
<1>f. PICK h3 : h3 = heap \cup {stack, elf_file, file}
  BY Zenon
<1>g. PICK tables : tables = Kzalloc(1, Nobody, "lost", h3)
  OBVIOUS
<1>h. PICK new : new = {stack, elf_file, file, tables}
  BY Zenon
<1>1. /\ stack.start # 0
      /\ \/ heap' = h1
         \/ tables.start # 0 /\ heap' = heap \cup new
      /\ wrote' = Cleared(wrote, new)
      /\ tail' = ClearedTail(wrote, tail, new)
      /\ UNCHANGED <<status, pt, blocks, wiped, stale, asked>>
  BY <1>a, <1>b, <1>c, <1>d, <1>e, <1>f, <1>g, <1>h, Zenon DEF process_new_fails
<1>2. /\ h1 = heap \cup {stack} /\ h2 = h1 \cup {elf_file} /\ h3 = h2 \cup {file}
      /\ heap \cup new = h3 \cup {tables}
  BY <1>b, <1>d, <1>f, <1>h
<1>3. tables.start # 0 => file.start # 0 /\ elf_file.start # 0
  <2>1. elf_file.start = FirstFit(1, h1) /\ file.start = FirstFit(1, h2) /\ tables.start = FirstFit(1, h3)
    BY <1>c, <1>e, <1>g DEF Kzalloc
  <2>2. h1 \subseteq h2 /\ h2 \subseteq h3
    BY <1>2
  <2> QED BY <2>1, <2>2, FirstFitFails
<1>4. Fresh(stack, heap) /\ (tables.start # 0 => Fresh(elf_file, h1) /\ Fresh(file, h2) /\ Fresh(tables, h3))
  <2>1. 1 \in Nat \ {0} /\ Nobody \in Proc \cup {Nobody} /\ "lost" \in Use
    BY DEF Use
  <2> QED BY <2>1, <1>1, <1>3, <1>a, <1>c, <1>e, <1>g, NewRegion
<1>5. \A r \in new :
        /\ r.owner = Nobody /\ r.use = "lost"
        /\ \A s \in heap : \A f \in FramesOf(s) : f \notin FramesOf(r) /\ ~Padded(r, f)
  <2>1. \A s \in heap : FramesOf(s) \subseteq Frame
    BY <1>0 DEF HeapInv, RegionInv
  <2>2. ASSUME NEW r, NEW h, heap \subseteq h, r = Kzalloc(1, Nobody, "lost", h)
        PROVE  /\ r.owner = Nobody /\ r.use = "lost"
               /\ \A s \in heap : \A f \in FramesOf(s) : f \notin FramesOf(r) /\ ~Padded(r, f)
    <3>1. /\ r.owner = Nobody /\ r.use = "lost" /\ FramesOf(r) = {r.start}
          /\ \A f : Padded(r, f) => f = r.start
          /\ \A s \in h : FramesOf(s) \subseteq Frame => Apart(r, s)
      BY <2>2, OnePage
    <3> QED BY <2>1, <2>2, <3>1 DEF Apart
  <2>3. heap \subseteq h1 /\ heap \subseteq h2 /\ heap \subseteq h3
    BY <1>2
  <2> QED BY <2>2, <2>3, <1>a, <1>c, <1>e, <1>g, <1>h, SMTT(40)
<1>6. /\ wrote' \in [Frame -> SUBSET Proc] /\ tail' \in [Frame -> SUBSET Proc]
      /\ \A s \in heap : \A f \in FramesOf(s) : wrote'[f] = wrote[f] /\ tail'[f] = tail[f]
  <2>1. wrote \in [Frame -> SUBSET Proc] /\ tail \in [Frame -> SUBSET Proc]
    BY <1>0 DEF TypeInv
  <2>2. \A s \in heap : FramesOf(s) \subseteq Frame
    BY <1>0 DEF HeapInv, RegionInv
  <2> QED BY <2>1, <2>2, <1>1, <1>5, ClearedRegions
<1>7. TypeInv'
  <2>1. heap' \subseteq Region
    BY <1>0, <1>1, <1>2, <1>4 DEF TypeInv, Fresh
  <2> QED BY <1>0, <1>1, <1>6, <2>1, ZenonT(40) DEF TypeInv
<1>8. HeapInv(heap, wrote, tail, status)'
  <2>1. HeapInv(heap, wrote', tail', status)
    BY <1>0, <1>6, HeapWritten
  <2>2. AllApart(heap')
    <3>1. AllApart(h1)
      BY <1>0, <1>2, <1>4, RegionAdded DEF HeapInv
    <3>2. tables.start # 0 => AllApart(h2)
      BY <3>1, <1>2, <1>4, RegionAdded
    <3>3. tables.start # 0 => AllApart(h3)
      BY <3>2, <1>2, <1>4, RegionAdded
    <3>4. tables.start # 0 => AllApart(heap \cup new)
      BY <3>3, <1>2, <1>4, RegionAdded, SMTT(40)
    <3> QED BY <3>1, <3>4, <1>1
  <2>3. ASSUME NEW r \in heap', r \notin heap PROVE RegionInv(r, wrote', tail', status)
    <3>1. r \in new /\ \E h : Fresh(r, h)
      BY <2>3, <1>1, <1>2, <1>4, <1>h
    <3> QED BY <3>1, <1>5, NewRegionInv
  <2>4. \A r \in heap' : RegionInv(r, wrote', tail', status')
    BY <2>1, <2>3, <1>1, SMTT(40) DEF HeapInv
  <2> QED BY <2>2, <2>4 DEF HeapInv
<1>9. ASSUME NEW q \in Proc PROVE ProcInv(q)'
  BY <1>0, <1>1, <1>2, OtherInv, SMTT(40) DEF Running
<1> QED BY <1>7, <1>8, <1>9 DEF IInv

\* The frames that Outdated holds belong to the process, which asked for the pages.
LEMMA OutdatedOwned ==
  ASSUME IInv, NEW p \in Proc, Running(p), NEW table, NEW t \in Outdated(p, table)
  PROVE  t \in UserPage \X Frame \X SUBSET Flag /\ Owned(p, t[2]) /\ asked[p][t[1]] # {}
<1>1. PICK v \in UserPage : Access(pt[p], v) # {} /\ t = <<v, pt[p].entry[v].frame, Access(pt[p], v)>>
  BY SMTT(40) DEF Outdated
<1>2. PageInv(p, v)
  BY DEF IInv, ProcInv
<1>3. Owned(p, pt[p].entry[v].frame) /\ asked[p][v] # {}
  BY <1>1, <1>2, NoUserAccess, Zenon DEF PageInv
<1>4. pt[p].entry[v].frame \in Frame
  BY <1>3 DEF IInv, Owned, HeapInv, RegionInv
<1>5. Access(pt[p], v) \subseteq Flag
  <2>1. pt[p].entry[v].flags \subseteq Flag
    BY <1>2, <1>3 DEF PageInv, ReadOnly, Writable, Flag
  <2> QED BY <2>1, SMTT(40) DEF Access
<1> QED BY <1>1, <1>3, <1>4, <1>5, SMTT(40)

\* The first free block is one of the blocks.
LEMMA FirstFreeBlock ==
  ASSUME NEW p, FreeBlocks(p) # {}
  PROVE  (CHOOSE k \in FreeBlocks(p) : \A l \in FreeBlocks(p) : k <= l) \in 1..MaxBlocks
<1>1. FreeBlocks(p) \subseteq Nat /\ FreeBlocks(p) \subseteq 1..MaxBlocks
  BY UserMemAssumption DEF FreeBlocks
<1>2. \E k \in FreeBlocks(p) : \A l \in FreeBlocks(p) : k <= l
  BY <1>1, LeastElement
<1> QED BY <1>1, <1>2

\* An mmap that finds a block keeps the invariant.
LEMMA MmapMapsInv ==
  ASSUME IInv, NEW p \in Proc, NEW start \in Page, NEW end \in Page,
         NEW flags \in {ReadOnly, Writable},
         syscall_mmap(p, start, end, flags), FreeBlocks(p) # {},
         Kzalloc(end - start, p, "mmap", heap).start # 0
  PROVE  IInv'
<1>0. TypeInv /\ HeapInv(heap, wrote, tail, status) /\ \A q \in Proc : ProcInv(q)
  BY DEF IInv
<1> DEFINE pages == start..(end - 1)
<1>a. PICK r : r = Kzalloc(end - start, p, "mmap", heap)
  OBVIOUS
<1>b. PICK table : table = paging_map_memory_region(pt[p], start, r.start, end, flags)
  OBVIOUS
<1>c. PICK i : i = CHOOSE k \in FreeBlocks(p) : \A l \in FreeBlocks(p) : k <= l
  BY SMTT(40)
<1>1. /\ status[p] = "CAN_START"
      /\ start > NumFrames /\ start < end
      /\ r.start # 0
      /\ heap' = heap \cup {r}
      /\ blocks' = [blocks EXCEPT ![p][i] = [start |-> start, end |-> end]]
      /\ pt' = [pt EXCEPT ![p] = table]
      /\ stale' = [stale EXCEPT ![p] = @ \cup Outdated(p, table)]
      /\ asked' = Ask(p, pages, flags)
      /\ wrote' = Written(Cleared(wrote, {r}), IF flags = Writable THEN {r} ELSE {}, p)
      /\ tail' = Written(ClearedTail(wrote, tail, {r}), IF flags = Writable THEN {r} ELSE {}, p)
      /\ status' = status /\ wiped' = wiped
  BY <1>a, <1>b, <1>c DEF syscall_mmap, verify_user_pointer, Overwritten
<1>2. i \in 1..MaxBlocks
  BY <1>c, FirstFreeBlock, SMTT(40)
<1>3. start \in UserPage /\ end \in UserPage /\ end - start \in Nat \ {0}
  BY <1>1, PageNumbers
<1>4. pages \subseteq UserPage
  BY <1>3, PageNumbers, SMTT(40) DEF UserPage
<1>5. Fresh(r, heap) /\ r.owner = p /\ r.use = "mmap" /\ r.len = end - start
  BY <1>a, <1>1, <1>3, NewRegion, SMTT(40) DEF Use, Kzalloc
<1>6. Maps(table, pt[p], start, r.start, end, flags)
  <2>1. r.start \in Frame /\ FramesOf(r) = r.start..(r.start + (end - start) - 1) /\ FramesOf(r) \subseteq Frame
    BY <1>5 DEF Fresh, FramesOf
  <2>2. r.start + (end - start) - 1 <= NumFrames
    <3>1. r.start \in Nat /\ end - start \in Nat \ {0}
      BY <2>1, <1>3, PageNumbers
    <3>2. r.start + (end - start) - 1 \in r.start..(r.start + (end - start) - 1)
      BY <3>1
    <3> QED BY <3>2, <2>1 DEF Frame
  <2>3. pt[p] \in Table
    BY <1>0 DEF TypeInv
  <2>4. end \in Nat
    BY PageNumbers
  <2> QED BY <1>b, <2>1, <2>2, <2>3, <2>4, Mapped, SMTT(40)
<1>7. flags \in SUBSET Flag /\ flags # {}
  BY SMTT(40) DEF ReadOnly, Writable, Flag
<1> HIDE DEF pages
<1>8. /\ asked' \in [Proc -> [UserPage -> SUBSET Flag]]
      /\ \A v \in UserPage : asked'[p][v] = IF v \in pages THEN flags ELSE asked[p][v]
      /\ \A q \in Proc : q # p => asked'[q] = asked[q]
  BY <1>0, <1>1, <1>7, Asked, SMTT(60)
<1>9. /\ wrote' \in [Frame -> SUBSET Proc] /\ tail' \in [Frame -> SUBSET Proc]
      /\ \A f \in Frame : f \in FramesOf(r) => wrote'[f] \subseteq {p} /\ tail'[f] \subseteq {p}
      /\ \A f \in Frame : f \notin FramesOf(r) => wrote'[f] = wrote[f] /\ tail'[f] = tail[f]
  <2>1. wrote \in [Frame -> SUBSET Proc] /\ tail \in [Frame -> SUBSET Proc]
    BY <1>0 DEF TypeInv
  <2>2. \A f : ~Padded(r, f)
    BY <1>5 DEF Padded
  <2>3. PICK w : w = Cleared(wrote, {r})
    OBVIOUS
  <2>4. PICK x : x = ClearedTail(wrote, tail, {r})
    BY SMTT(40)
  <2>5. /\ w \in [Frame -> SUBSET Proc] /\ x \in [Frame -> SUBSET Proc]
        /\ \A f \in Frame : f \in FramesOf(r) => w[f] = {} /\ x[f] = {}
        /\ \A f \in Frame : f \notin FramesOf(r) => w[f] = wrote[f] /\ x[f] = tail[f]
    BY <2>1, <2>2, <2>3, <2>4, ClearedRegions, SMTT(40)
  <2>6. PICK R : R = IF flags = Writable THEN {r} ELSE {}
    BY Zenon
  <2>7. wrote' = Written(w, R, p) /\ tail' = Written(x, R, p)
    BY <1>1, <2>3, <2>4, <2>6, Zenon
  <2>8. \A f : f \notin FramesOf(r) => \A s \in R : f \notin FramesOf(s)
    BY <2>6, ZenonT(40)
  <2>9. /\ wrote' \in [Frame -> SUBSET Proc] /\ tail' \in [Frame -> SUBSET Proc]
        /\ \A f \in Frame : wrote'[f] \subseteq w[f] \cup {p} /\ tail'[f] \subseteq x[f] \cup {p}
        /\ \A f \in Frame : f \notin FramesOf(r) => wrote'[f] = w[f] /\ tail'[f] = x[f]
    BY <2>5, <2>7, <2>8, WrittenRegions
  <2> QED BY <2>5, <2>9
<1>10. TypeInv'
  <2>1. pt' \in [Proc -> Table]
    BY <1>0, <1>1, <1>6 DEF TypeInv, Maps
  <2>2. [start |-> start, end |-> end] \in Block
    BY SMTT(40) DEF Block
  <2>3. blocks' \in [Proc -> [1..MaxBlocks -> Block]]
    BY <1>0, <1>1, <1>2, <2>2, SMTT(40) DEF TypeInv
  <2>4. Outdated(p, table) \subseteq UserPage \X Frame \X SUBSET Flag
    BY <1>1, OutdatedOwned, SMTT(40) DEF Running
  <2>5. stale' \in [Proc -> SUBSET (UserPage \X Frame \X SUBSET Flag)]
    BY <1>0, <1>1, <2>4 DEF TypeInv
  <2> QED BY <1>0, <1>1, <1>5, <1>8, <1>9, <2>1, <2>3, <2>5, ZenonT(40) DEF TypeInv, Fresh
<1>11. HeapInv(heap, wrote, tail, status)'
  <2>1. \A s \in heap : \A f \in FramesOf(s) : wrote'[f] = wrote[f] /\ tail'[f] = tail[f]
    BY <1>0, <1>5, <1>9 DEF HeapInv, RegionInv, Fresh, Apart
  <2>2. HeapInv(heap, wrote', tail', status)
    <3>1. \A s \in heap : \A f \in FramesOf(s) : wrote'[f] \subseteq wrote[f] /\ tail'[f] \subseteq tail[f]
      BY <2>1, Zenon
    <3> QED BY <1>0, <3>1, HeapWritten, Zenon
  <2>3. RegionInv(r, wrote', tail', status)
    <3>1. OwnBytes(r, wrote', tail')
      BY <1>5, <1>9, SMTT(40) DEF Fresh, OwnBytes
    <3>2. status[r.owner] # "ZOMBIE" /\ r.owner \in Proc
      BY <1>1, <1>5
    <3> QED BY <3>1, <3>2, <1>5, NewRegionInv, ZenonT(40)
  <2>4. AllApart(heap \cup {r})
    BY <2>2, <1>5, RegionAdded DEF HeapInv
  <2>5. HeapInv(heap \cup {r}, wrote', tail', status)
    BY <2>2, <2>3, <2>4, ZenonT(40) DEF HeapInv
  <2> QED BY <2>5, <1>1, ZenonT(40)
<1>12. ProcInv(p)'
  <2>0. /\ pt'[p] = table /\ stale'[p] = stale[p] \cup Outdated(p, table)
        /\ Running(p) /\ Running(p)' /\ ProcInv(p)
    BY <1>0, <1>1 DEF TypeInv, Running
  <2>b. \A k \in 1..MaxBlocks : blocks'[p][k] = IF k = i THEN [start |-> start, end |-> end]
                                              ELSE blocks[p][k]
    <3>1. blocks \in [Proc -> [1..MaxBlocks -> Block]]
      BY <1>0, SMTT(40) DEF TypeInv
    <3>2. blocks' = [blocks EXCEPT ![p][i] = [start |-> start, end |-> end]]
      BY <1>1, SMTT(40)
    <3> QED BY <3>1, <3>2, <1>2, Zenon
  <2>1. \A f : (Owned(p, f) => Owned(p, f)') /\ (InBss(p, f) => InBss(p, f)')
    BY <1>1 DEF Owned, InBss
  <2>2. ASSUME NEW v \in UserPage PROVE PageInv(p, v)'
    <3>0. PageInv(p, v) /\ v \in Page
      BY <2>0, ZenonT(40) DEF ProcInv, Page
    <3>1. CASE v \in pages
      <4>1. /\ asked'[p][v] = flags
            /\ pt'[p].entry[v] = [frame |-> r.start + (v - start), flags |-> flags]
            /\ pt'[p].dir[DirOf(v)] = flags
        BY <3>0, <3>1, <2>0, <1>6, <1>8, ZenonT(40) DEF Maps, pages
      <4>2. r.start + (v - start) \in FramesOf(r)
        BY <3>1, <1>3, <1>5, PageNumbers, SMTT(30) DEF pages, FramesOf, Fresh, Region
      <4>3. Owned(p, r.start + (v - start))'
        BY <4>2, <1>1, <1>5, SMTT(60) DEF Owned, UserUse
      <4>4. pt'[p].entry[v].flags = flags /\ Owned(p, pt[p].entry[v].frame)'
        BY <4>1, <4>3, SMTT(40) DEF Owned
      <4> QED BY <4>1, <4>4, <1>7, SMTT(20) DEF PageInv
    <3>2. CASE v \notin pages
      <4>1. /\ asked'[p][v] = asked[p][v]
            /\ pt'[p].entry[v] = pt[p].entry[v]
            /\ pt'[p].dir[DirOf(v)] \in {pt[p].dir[DirOf(v)], flags}
        <5>1. /\ table.entry[v] = pt[p].entry[v]
              /\ table.dir[DirOf(v)] \in {pt[p].dir[DirOf(v)], flags}
          BY <3>0, <3>2, <1>6, Zenon DEF Maps, pages
        <5>2. asked'[p][v] = asked[p][v]
          BY <3>2, <1>8, Zenon
        <5> QED BY <5>1, <5>2, <2>0, Zenon
      <4>2. CASE asked[p][v] = {}
        <5>1. "USER" \notin pt[p].entry[v].flags
          BY <4>2, <3>0, Zenon DEF PageInv
        <5>2. asked'[p][v] = {} /\ "USER" \notin pt'[p].entry[v].flags
          BY <5>1, <4>1, <4>2, ZenonT(40)
        <5> QED BY <5>2, Zenon DEF PageInv
      <4>3. CASE asked[p][v] # {}
        BY <4>1, <4>3, <3>0, <2>1 DEF PageInv
      <4> QED BY <4>2, <4>3
    <3> QED BY <3>1, <3>2, Zenon
  <2>3. ASSUME NEW v \in Frame PROVE KernelPageInv(p, v)'
    <3>1. KernelPageInv(p, v) /\ v \in Page /\ v \notin pages
      BY <2>0, <1>4, PageNumbers DEF ProcInv
    <3>2. pt'[p].entry[v] = pt[p].entry[v]
      BY <3>1, <2>0, <1>6, ZenonT(40) DEF Maps, pages
    <3> QED BY <3>1, <3>2, <2>1, ZenonT(40) DEF KernelPageInv
  <2>4. ASSUME NEW k \in 1..MaxBlocks, NEW v \in Frame, v \in Pages(blocks'[p][k])
        PROVE  InBss(p, v)'
    <3>1. Pages([start |-> start, end |-> end]) \cap Frame = {}
      BY <1>4, PageNumbers DEF Pages, pages
    <3>2. k # i /\ blocks'[p][k] = blocks[p][k]
      BY <3>1, <2>4, <2>b, Zenon
    <3> QED BY <3>2, <2>4, <2>0, <2>1, Zenon DEF ProcInv
  <2>5. ASSUME NEW t \in stale'[p] PROVE Owned(p, t[2])' /\ asked'[p][t[1]] # {}
    <3>1. Owned(p, t[2]) /\ asked[p][t[1]] # {}
      BY <2>0, OutdatedOwned, SMTT(40) DEF ProcInv
    <3>2. t[1] \in UserPage
      BY <1>10, <2>5 DEF TypeInv
    <3> QED BY <3>1, <3>2, <2>1, <1>7, <1>8, ZenonT(40)
  <2> QED BY <2>0, <2>2, <2>3, <2>4, <2>5, ZenonT(40) DEF ProcInv
<1>13. ASSUME NEW q \in Proc, q # p PROVE ProcInv(q)'
  <2>1. pt'[q] = pt[q] /\ blocks'[q] = blocks[q] /\ stale'[q] = stale[q] /\ asked'[q] = asked[q]
    BY <1>0, <1>1, <1>8, <1>13 DEF TypeInv
  <2> QED BY <2>1, <1>0, <1>1, OtherInv, ZenonT(40) DEF Running
<1> QED BY <1>10, <1>11, <1>12, <1>13 DEF IInv

\* mmap keeps the invariant.
LEMMA MmapInv ==
  ASSUME IInv, NEW p \in Proc, NEW start \in Page, NEW end \in Page,
         NEW flags \in {ReadOnly, Writable}, syscall_mmap(p, start, end, flags)
  PROVE  IInv'
<1>0. TypeInv /\ HeapInv(heap, wrote, tail, status) /\ \A q \in Proc : ProcInv(q)
  BY DEF IInv
<1>a. PICK r : r = Kzalloc(end - start, p, "mmap", heap)
  OBVIOUS
<1>1. CASE r.start = 0
  <2>1. UNCHANGED <<pt, asked, blocks, heap, stale, status, wrote, tail>> /\ wiped' = (end - start >= WipePages)
    BY <1>a, <1>1, Zenon DEF syscall_mmap, FailMmap
  <2>2. wiped' \in BOOLEAN
    BY <2>1
  <2>3. TypeInv'
    BY <1>0, <2>1, <2>2, Zenon DEF TypeInv
  <2>4. HeapInv(heap, wrote, tail, status)'
    BY <1>0, <2>1, SMTT(40)
  <2>5. ASSUME NEW q \in Proc PROVE ProcInv(q)'
    BY <1>0, <2>1, OtherInv DEF Running
  <2> QED BY <2>3, <2>4, <2>5 DEF IInv
<1>2. CASE r.start # 0 /\ FreeBlocks(p) = {}
  <2>1. /\ wrote' = Cleared(wrote, {r}) /\ tail' = ClearedTail(wrote, tail, {r})
        /\ UNCHANGED <<pt, asked, blocks, heap, wiped, stale, status>>
        /\ start > NumFrames /\ start < end
    BY <1>a, <1>2, Zenon DEF syscall_mmap, UndoMmap, verify_user_pointer
  <2>2. Fresh(r, heap) /\ r.use = "mmap"
    <3>1. end - start \in Nat \ {0}
      BY <2>1, PageNumbers, SMTT(40)
    <3> QED BY <3>1, <1>a, <1>2, NewRegion DEF Use, Kzalloc
  <2>3. /\ wrote' \in [Frame -> SUBSET Proc] /\ tail' \in [Frame -> SUBSET Proc]
        /\ \A s \in heap : \A f \in FramesOf(s) : wrote'[f] = wrote[f] /\ tail'[f] = tail[f]
    <3>1. wrote \in [Frame -> SUBSET Proc] /\ tail \in [Frame -> SUBSET Proc]
      BY <1>0, ZenonT(40) DEF TypeInv
    <3>2. \A s \in heap : \A f \in FramesOf(s) : f \in Frame /\ f \notin FramesOf(r) /\ ~Padded(r, f)
      BY <1>0, <2>2 DEF HeapInv, RegionInv, Fresh, Apart, Padded
    <3> QED BY <3>1, <3>2, <2>1, ClearedRegions
  <2>4. TypeInv'
    BY <1>0, <2>1, <2>3, Zenon DEF TypeInv
  <2>5. HeapInv(heap, wrote', tail', status)
    BY <1>0, <2>3, HeapWritten
  <2>6. HeapInv(heap, wrote, tail, status)'
    BY <2>1, <2>5, ZenonT(40)
  <2>7. ASSUME NEW q \in Proc PROVE ProcInv(q)'
    BY <1>0, <2>1, OtherInv DEF Running
  <2> QED BY <2>4, <2>6, <2>7 DEF IInv
<1>3. CASE r.start # 0 /\ FreeBlocks(p) # {}
  BY <1>a, <1>3, MmapMapsInv
<1> QED BY <1>1, <1>2, <1>3

\* process_new keeps the invariant.
LEMMA NewInv ==
  ASSUME IInv, NEW p \in Proc, process_new(p)
  PROVE  IInv'
<1>0. TypeInv /\ HeapInv(heap, wrote, tail, status) /\ \A q \in Proc : ProcInv(q)
  BY DEF IInv
<1>a. PICK stack : stack = Kzalloc(1, p, "stack", heap)
  OBVIOUS
<1>b. PICK h1 : h1 = heap \cup {stack}
  BY Zenon
<1>c. PICK elf_file : elf_file = Kzalloc(1, p, "elf_file", h1)
  OBVIOUS
<1>d. PICK h2 : h2 = heap \cup {stack, elf_file}
  BY Zenon
<1>e. PICK file : file = Kzalloc(1, p, "file", h2)
  OBVIOUS
<1>f. PICK h3 : h3 = heap \cup {stack, elf_file, file}
  BY Zenon
<1>g. PICK tables : tables = Kzalloc(1, p, "tables", h3)
  OBVIOUS
<1>k. PICK h4 : h4 = heap \cup {stack, elf_file, file, tables}
  BY Zenon
<1>l. PICK bss : bss = Kzalloc(1, p, "bss", h4)
  OBVIOUS
<1>m. PICK new : new = {stack, elf_file, file, tables, bss}
  BY Zenon
<1>h. PICK text_t : text_t = paging_map_memory_region(IdentityTable(Page), TextPage, file.start, TextPage + 1, ReadOnly)
  OBVIOUS
<1>i. PICK bss_t : bss_t = paging_map_memory_region(text_t, BssPage, bss.start, BssPage + 1, Writable)
  OBVIOUS
<1>j. PICK table : table = paging_map_memory_region(bss_t, StackPage, stack.start, StackPage + 1, Writable)
  OBVIOUS
<1>1. /\ stack.start # 0 /\ elf_file.start # 0 /\ file.start # 0 /\ tables.start # 0 /\ bss.start # 0
      /\ status' = [status EXCEPT ![p] = "CAN_START"]
      /\ heap' = heap \cup new
      /\ pt' = [pt EXCEPT ![p] = table]
      /\ blocks' = [blocks EXCEPT ![p] = [k \in 1..MaxBlocks |->
                      IF k = 1 THEN [start |-> bss.start, end |-> bss.start + 1] ELSE NoBlock]]
      /\ asked' = [asked EXCEPT ![p] = [v \in UserPage |->
                      CASE v = TextPage -> ReadOnly
                        [] v \in {StackPage, BssPage} -> Writable
                        [] OTHER -> {}]]
      /\ wrote' = Written(Cleared(wrote, heap' \ heap), {stack, bss}, p)
      /\ tail' = Written(ClearedTail(wrote, tail, heap' \ heap), {stack, bss}, p)
      /\ stale' = stale /\ wiped' = wiped /\ status[p] = "UNUSED"
  BY <1>a, <1>b, <1>c, <1>d, <1>e, <1>f, <1>g, <1>h, <1>i, <1>j, <1>k, <1>l, <1>m, ZenonT(40) DEF process_new
<1>2. /\ Fresh(stack, heap) /\ stack.owner = p /\ stack.use = "stack" /\ stack.len = 1
      /\ Fresh(elf_file, h1) /\ elf_file.owner = p /\ elf_file.len = 1
      /\ Fresh(file, h2) /\ file.owner = p /\ file.use = "file" /\ file.len = 1
      /\ Fresh(tables, h3) /\ tables.owner = p /\ tables.len = 1
      /\ Fresh(bss, h4) /\ bss.owner = p /\ bss.use = "bss" /\ bss.len = 1
  <2>1. 1 \in Nat \ {0} /\ p \in Proc \cup {Nobody}
        /\ {"stack", "elf_file", "file", "tables", "bss"} \subseteq Use
    BY DEF Use
  <2>2. ASSUME NEW use \in Use, NEW h, NEW r, r = Kzalloc(1, p, use, h), r.start # 0
        PROVE  Fresh(r, h) /\ r.owner = p /\ r.use = use /\ r.len = 1
    <3>1. Fresh(r, h)
      BY <2>1, <2>2, NewRegion
    <3> QED BY <3>1, <2>2 DEF Kzalloc
  <2>3. Fresh(stack, heap) /\ stack.owner = p /\ stack.use = "stack" /\ stack.len = 1
    BY <1>1, <1>a, <2>1, <2>2
  <2>4. Fresh(elf_file, h1) /\ elf_file.owner = p /\ elf_file.len = 1
    BY <1>1, <1>c, <2>1, <2>2
  <2>5. Fresh(file, h2) /\ file.owner = p /\ file.use = "file" /\ file.len = 1
    BY <1>1, <1>e, <2>1, <2>2
  <2>6. Fresh(tables, h3) /\ tables.owner = p /\ tables.len = 1
    BY <1>1, <1>g, <2>1, <2>2
  <2>7. Fresh(bss, h4) /\ bss.owner = p /\ bss.use = "bss" /\ bss.len = 1
    BY <1>1, <1>l, <2>1, <2>2
  <2> QED BY <2>3, <2>4, <2>5, <2>6, <2>7
<1>n. /\ h1 = heap \cup {stack} /\ h2 = h1 \cup {elf_file} /\ h3 = h2 \cup {file}
      /\ h4 = h3 \cup {tables} /\ heap' = h4 \cup {bss}
  BY <1>1, <1>b, <1>d, <1>f, <1>k, <1>m, SMTT(40)
<1>3. /\ stack.start \in Frame /\ stack.start \in FramesOf(stack)
      /\ file.start \in Frame /\ file.start \in FramesOf(file)
      /\ bss.start \in Frame /\ FramesOf(bss) = {bss.start}
  <2>1. stack.start \in Frame /\ stack.start \in FramesOf(stack) /\ file.start \in Frame /\ file.start \in FramesOf(file)
    BY <1>2, SMTT(40) DEF Fresh
  <2>2. bss.start \in Frame /\ FramesOf(bss) = bss.start..(bss.start + 1 - 1)
    BY <1>2 DEF Fresh, FramesOf
  <2>3. \A x \in Nat : x..(x + 1 - 1) = {x}
    OBVIOUS
  <2>4. bss.start \in Nat
    BY <2>2, PageNumbers
  <2> QED BY <2>1, <2>2, <2>3, <2>4, SMTT(40)
<1>4. /\ table \in Table
      /\ \A v \in Page : table.entry[v] =
           CASE v = StackPage -> [frame |-> stack.start, flags |-> Writable]
             [] v = TextPage -> [frame |-> file.start, flags |-> ReadOnly]
             [] v = BssPage -> [frame |-> bss.start, flags |-> Writable]
             [] OTHER -> IdentityEntry(v)
      /\ \A v \in {StackPage, TextPage, BssPage} : table.dir[DirOf(v)] \in {ReadOnly, Writable}
  <2>1. /\ IdentityTable(Page) \in Table
        /\ \A v \in Page : IdentityTable(Page).entry[v] = IdentityEntry(v)
    BY DEF IdentityTable, Table, Entry, IdentityEntry, Dirs, Flag
  <2>2. /\ StackPage \in Page /\ TextPage \in Page /\ BssPage \in Page
        /\ StackPage # TextPage /\ StackPage # BssPage /\ TextPage # BssPage
    BY PageNumbers, SMTT(40) DEF StackPage, TextPage, BssPage, Page
  <2>3. MapsPage(text_t, IdentityTable(Page), TextPage, file.start, ReadOnly)
    BY <1>h, <1>3, <2>1, <2>2, MappedPage
  <2>4. MapsPage(bss_t, text_t, BssPage, bss.start, Writable)
    <3>1. text_t \in Table
      BY <2>3 DEF MapsPage
    <3> QED BY <3>1, <1>i, <1>3, <2>2, MappedPage, Zenon
  <2>5. MapsPage(table, bss_t, StackPage, stack.start, Writable)
    <3>1. bss_t \in Table
      BY <2>4, Zenon DEF MapsPage
    <3> QED BY <3>1, <1>j, <1>3, <2>2, MappedPage
  <2>6. \A v \in Page : table.entry[v] =
           IF v = StackPage THEN [frame |-> stack.start, flags |-> Writable]
           ELSE IF v = BssPage THEN [frame |-> bss.start, flags |-> Writable]
           ELSE IF v = TextPage THEN [frame |-> file.start, flags |-> ReadOnly]
           ELSE IdentityEntry(v)
    BY <2>1, <2>3, <2>4, <2>5, ZenonT(40) DEF MapsPage
  <2>7. \A v \in {StackPage, TextPage, BssPage} : table.dir[DirOf(v)] \in {ReadOnly, Writable}
    BY <2>2, <2>3, <2>4, <2>5, SMTT(40) DEF MapsPage
  <2> QED BY <2>2, <2>5, <2>6, <2>7, SMTT(40) DEF MapsPage
<1>5. /\ asked' \in [Proc -> [UserPage -> SUBSET Flag]]
      /\ \A v \in UserPage : asked'[p][v] =
           IF v = TextPage THEN ReadOnly ELSE IF v \in {StackPage, BssPage} THEN Writable ELSE {}
      /\ \A q \in Proc : q # p => asked'[q] = asked[q]
  <2>1. TextPage \notin {StackPage, BssPage} /\ ReadOnly \in SUBSET Flag /\ Writable \in SUBSET Flag
    BY PageNumbers DEF StackPage, TextPage, BssPage, ReadOnly, Writable, Flag
  <2>2. asked' = [asked EXCEPT ![p] = [v \in UserPage |->
           IF v = TextPage THEN ReadOnly ELSE IF v \in {StackPage, BssPage} THEN Writable ELSE {}]]
    BY <1>1, <2>1, Zenon
  <2> QED BY <1>0, <2>1, <2>2 DEF TypeInv
<1>o. AllApart(heap')
  <2>1. AllApart(h1)
    BY <1>0, <1>2, <1>n, RegionAdded, SMTT(40) DEF HeapInv
  <2>2. AllApart(h2)
    BY <2>1, <1>2, <1>n, RegionAdded, SMTT(40)
  <2>3. AllApart(h3)
    BY <2>2, <1>2, <1>n, RegionAdded, SMTT(40)
  <2>4. AllApart(h4)
    BY <2>3, <1>2, <1>n, RegionAdded, SMTT(60)
  <2> QED BY <2>4, <1>2, <1>n, RegionAdded, SMTT(40)
<1>p. \A r \in new : /\ r.owner = p /\ r \in Region /\ r.len = 1
                     /\ \E h : heap \subseteq h /\ Fresh(r, h)
  <2>1. heap \subseteq h1 /\ heap \subseteq h2 /\ heap \subseteq h3 /\ heap \subseteq h4
    BY <1>n, ZenonT(40)
  <2> QED BY <2>1, <1>2, <1>m DEF Fresh
<1>6. /\ wrote' \in [Frame -> SUBSET Proc] /\ tail' \in [Frame -> SUBSET Proc]
      /\ \A r \in new : OwnBytes(r, wrote', tail')
      /\ \A s \in heap : \A f \in FramesOf(s) : wrote'[f] = wrote[f] /\ tail'[f] = tail[f]
  <2>0. wrote \in [Frame -> SUBSET Proc] /\ tail \in [Frame -> SUBSET Proc]
    BY <1>0 DEF TypeInv
  <2>1. heap' \ heap = new
    <3>1. \A r \in new : r \notin heap
      BY <1>p DEF Fresh, Apart
    <3> QED BY <3>1, <1>1
  <2>2. PICK w : w = Cleared(wrote, new)
    OBVIOUS
  <2>3. PICK x : x = ClearedTail(wrote, tail, new)
    BY SMTT(40)
  <2>4. /\ w \in [Frame -> SUBSET Proc] /\ x \in [Frame -> SUBSET Proc]
        /\ \A f \in Frame : \A r \in new : f \in FramesOf(r) => w[f] = {}
        /\ \A f \in Frame : \A r \in new : f \in FramesOf(r) => x[f] = {} \/ \E s \in new : Padded(s, f)
        /\ \A f \in Frame : (\A r \in new : f \notin FramesOf(r) /\ ~Padded(r, f)) =>
             w[f] = wrote[f] /\ x[f] = tail[f]
    BY <2>0, <2>2, <2>3, ClearedRegions
  <2>5. wrote' = Written(w, {stack, bss}, p) /\ tail' = Written(x, {stack, bss}, p)
    BY <1>1, <2>1, <2>2, <2>3, Zenon
  <2>6. \A r \in new : \A f : Padded(r, f) => f \in FramesOf(r)
    BY <1>p, PaddedInside, UserMemAssumption, SMTT(30) DEF Region, Frame
  <2>7. /\ wrote' \in [Frame -> SUBSET Proc] /\ tail' \in [Frame -> SUBSET Proc]
        /\ \A f \in Frame : wrote'[f] \subseteq w[f] \cup {p} /\ tail'[f] \subseteq x[f] \cup {p}
        /\ \A f \in Frame : f \notin FramesOf(stack) /\ f \notin FramesOf(bss) => wrote'[f] = w[f] /\ tail'[f] = x[f]
    <3>1. \A f : f \notin FramesOf(stack) /\ f \notin FramesOf(bss) => \A r \in {stack, bss} : f \notin FramesOf(r)
      BY Zenon
    <3>2. ASSUME NEW y \in [Frame -> SUBSET Proc], NEW z, z = Written(y, {stack, bss}, p)
          PROVE  /\ z \in [Frame -> SUBSET Proc]
                 /\ \A f \in Frame : z[f] \subseteq y[f] \cup {p}
                 /\ \A f \in Frame : f \notin FramesOf(stack) /\ f \notin FramesOf(bss) => z[f] = y[f]
      <4>1. PICK R : R = {stack, bss}
        BY Zenon
      <4>2. z = Written(y, R, p)
        BY <3>2, <4>1, Zenon
      <4>3. \A f : f \notin FramesOf(stack) /\ f \notin FramesOf(bss) => \A r \in R : f \notin FramesOf(r)
        BY <3>1, <4>1, Zenon
      <4> QED BY <4>2, <4>3, WrittenRegions
    <3>3. w \in [Frame -> SUBSET Proc] /\ x \in [Frame -> SUBSET Proc]
      BY <2>4, Zenon
    <3> QED BY <2>5, <3>2, <3>3, Zenon
  <2>8. ASSUME NEW r \in new PROVE OwnBytes(r, wrote', tail')
    <3> SUFFICES ASSUME NEW f \in FramesOf(r)
                 PROVE  wrote'[f] \subseteq {p} /\ (tail'[f] \subseteq {p} \/ Padded(r, f))
      BY <1>p DEF OwnBytes
    <3>1. f \in Frame
      BY <1>p, SMTT(40) DEF Fresh
    <3>2. w[f] = {} /\ (x[f] = {} \/ \E s \in new : Padded(s, f))
      BY <3>1, <2>4
    <3>3. ASSUME NEW s \in new, Padded(s, f) PROVE s = r
      <4>1. f \in FramesOf(s)
        BY <3>3, <2>6
      <4>2. s \in heap' /\ r \in heap'
        BY <1>1, Zenon
      <4> QED BY <4>1, <4>2, <1>o DEF AllApart, Apart
    <3> QED BY <3>1, <3>2, <3>3, <2>7, ZenonT(40)
  <2>9. ASSUME NEW s \in heap, NEW f \in FramesOf(s)
        PROVE  wrote'[f] = wrote[f] /\ tail'[f] = tail[f]
    <3>1. f \in Frame
      BY <1>0 DEF HeapInv, RegionInv
    <3>2. \A r \in new : f \notin FramesOf(r)
      BY <1>p DEF Fresh, Apart
    <3>3. stack \in new /\ bss \in new
      BY <1>m
    <3> QED BY <3>1, <3>2, <3>3, <2>4, <2>6, <2>7, ZenonT(40)
  <2> QED BY <2>7, <2>8, <2>9
<1>7. TypeInv'
  <2>1. pt' \in [Proc -> Table]
    BY <1>0, <1>1, <1>4, ZenonT(40) DEF TypeInv
  <2>2. [start |-> bss.start, end |-> bss.start + 1] \in Block /\ NoBlock \in Block
    <3>1. bss.start \in Page /\ bss.start + 1 \in Page
      BY <1>3, UserMemAssumption DEF Page, Frame, UserPage
    <3> QED BY <3>1, SMTT(40) DEF Block, NoBlock
  <2>3. blocks' \in [Proc -> [1..MaxBlocks -> Block]]
    BY <1>0, <1>1, <2>2 DEF TypeInv
  <2>4. heap' \subseteq Region
    BY <1>0, <1>1, <1>p DEF TypeInv
  <2> QED BY <1>0, <1>1, <1>5, <1>6, <2>1, <2>3, <2>4, Zenon DEF TypeInv
<1>8. HeapInv(heap, wrote, tail, status)'
  <2>0. status'[p] # "ZOMBIE" /\ \A q \in Proc : q # p => status'[q] = status[q]
    BY <1>0, <1>1 DEF TypeInv
  <2>1. HeapInv(heap, wrote', tail', status)
    BY <1>0, <1>6, HeapWritten, SMTT(30)
  <2>2. HeapInv(heap, wrote', tail', status')
    BY <2>0, <2>1, ZenonT(40) DEF HeapInv, RegionInv
  <2>3. \A r \in new : RegionInv(r, wrote', tail', status')
    BY <2>0, <1>6, <1>p, NewRegionInv
  <2>4. \A r \in heap' : RegionInv(r, wrote', tail', status')
    <3>1. heap' = heap \cup new
      BY <1>1
    <3>2. \A r \in heap : RegionInv(r, wrote', tail', status')
      BY <2>2, ZenonT(40) DEF HeapInv
    <3> QED BY <3>1, <3>2, <2>3, Zenon
  <2> QED BY <2>4, <1>o DEF HeapInv
<1>9. ProcInv(p)'
  <2>0. /\ pt'[p] = table /\ stale'[p] = stale[p]
        /\ \A k \in 1..MaxBlocks : blocks'[p][k] = IF k = 1 THEN [start |-> bss.start, end |-> bss.start + 1]
                                                   ELSE NoBlock
    BY <1>0, <1>1 DEF TypeInv
  <2>1. ASSUME NEW v \in UserPage PROVE PageInv(p, v)'
    <3>1. Owned(p, stack.start)' /\ Owned(p, file.start)' /\ Owned(p, bss.start)'
      <4>1. stack \in heap' /\ file \in heap' /\ bss \in heap'
        BY <1>1, <1>m, Zenon
      <4> QED BY <4>1, <1>2, <1>3 DEF Owned, UserUse
    <3>2. v \in Page /\ StackPage # TextPage /\ StackPage # BssPage /\ TextPage # BssPage
      BY PageNumbers, SMTT(60) DEF Page, StackPage, TextPage, BssPage
    <3>3. CASE v \in {StackPage, TextPage, BssPage}
      <4>1. pt'[p].dir[DirOf(v)] \in {ReadOnly, Writable}
        BY <3>3, <2>0, <1>4
      <4>2. /\ asked'[p][v] \in {ReadOnly, Writable}
            /\ pt'[p].entry[v].flags = asked'[p][v]
            /\ pt'[p].entry[v].frame \in {stack.start, file.start, bss.start}
        BY <3>2, <3>3, <2>0, <1>4, <1>5, SMTT(30)
      <4>3. Owned(p, pt[p].entry[v].frame)'
        BY <4>2, <3>1, ZenonT(40) DEF Owned
      <4> QED BY <4>1, <4>2, <4>3 DEF PageInv, ReadOnly, Writable
    <3>4. CASE v \notin {StackPage, TextPage, BssPage}
      <4>1. asked'[p][v] = {} /\ pt'[p].entry[v] = IdentityEntry(v)
        BY <3>2, <3>4, <2>0, <1>4, <1>5
      <4> QED BY <4>1, SMTT(30) DEF PageInv, IdentityEntry
    <3> QED BY <3>3, <3>4, SMTT(40)
  <2>2. ASSUME NEW v \in Frame PROVE KernelPageInv(p, v)'
    <3>1. v \in Page /\ v \notin {StackPage, TextPage, BssPage}
      BY PageNumbers, SMTT(40) DEF Page
    <3> QED BY <3>1, <2>0, <1>4, SMTT(60) DEF KernelPageInv
  <2>3. ASSUME NEW k \in 1..MaxBlocks, NEW v \in Frame, v \in Pages(blocks'[p][k])
        PROVE  InBss(p, v)'
    <3>1. Pages(NoBlock) \cap Frame = {} /\ Pages([start |-> bss.start, end |-> bss.start + 1]) = {bss.start}
      BY <1>3, PageNumbers, SMTT(60) DEF Pages, NoBlock, Frame
    <3>2. v \in FramesOf(bss)
      BY <3>1, <2>0, <2>3, <1>3
    <3>3. bss \in heap'
      BY <1>1, <1>m
    <3> QED BY <3>2, <3>3, <1>2, SMTT(40) DEF InBss
  <2>4. stale[p] = {}
    BY <1>0, <1>1 DEF ProcInv, Running
  <2> QED BY <2>0, <2>1, <2>2, <2>3, <2>4 DEF ProcInv
<1>10. ASSUME NEW q \in Proc, q # p PROVE ProcInv(q)'
  <2>1. pt'[q] = pt[q] /\ blocks'[q] = blocks[q] /\ stale'[q] = stale[q] /\ asked'[q] = asked[q] /\ status'[q] = status[q]
    BY <1>0, <1>1, <1>5, <1>10, SMTT(40) DEF TypeInv
  <2> QED BY <2>1, <1>0, <1>1, OtherInv DEF Running
<1> QED BY <1>7, <1>8, <1>9, <1>10 DEF IInv

\* The invariant is inductive.
LEMMA StepInv == IInv /\ [Next]_vars => IInv'
<1> SUFFICES ASSUME IInv, [Next]_vars PROVE IInv'
  OBVIOUS
<1>1. CASE UNCHANGED vars
  <2>1. TypeInv'
    BY <1>1 DEF vars, IInv, TypeInv
  <2>2. HeapInv(heap, wrote, tail, status)'
    BY <1>1, ZenonT(40) DEF vars, IInv
  <2>3. ASSUME NEW p \in Proc PROVE ProcInv(p)'
    BY <1>1, OtherInv DEF vars, IInv, Running
  <2> QED BY <2>1, <2>2, <2>3, SMTT(40) DEF IInv
<1>2. ASSUME NEW p \in Proc, process_new(p) \/ process_new_fails(p) \/ paging_switch(p)
                            \/ process_exit(p) \/ process_reap(p)
      PROVE  IInv'
  BY <1>2, NewInv, NewFailsInv, SwitchInv, ExitInv, ReapInv
<1>3. ASSUME NEW p \in Proc, NEW start \in Page, NEW end \in Page, NEW flags \in {ReadOnly, Writable},
             syscall_mmap(p, start, end, flags)
      PROVE  IInv'
  BY <1>3, MmapInv
<1>4. ASSUME NEW p \in Proc, NEW v \in Page, syscall_munmap(p, v)
      PROVE  IInv'
  BY <1>4, MunmapInv
<1> QED BY <1>1, <1>2, <1>3, <1>4 DEF Next

\* Every behaviour satisfies the invariant.
LEMMA AlwaysInv == Spec => []IInv
BY InitInv, StepInv, PTL DEF Spec
-----------------------------------------------------------------------------
(* What the invariant says *)

\* A page that user code may use is one that it asked for, and user code never
\* has access to the kernel's pages.
LEMMA AccessAsked ==
  ASSUME IInv, NEW p \in Proc, Running(p)
  PROVE  /\ \A v \in UserPage : Access(pt[p], v) # {} => asked[p][v] # {}
         /\ \A v \in Frame : Access(pt[p], v) = {}
<1>1. (\A v \in UserPage : PageInv(p, v)) /\ (\A v \in Frame : KernelPageInv(p, v))
  BY ZenonT(40) DEF IInv, ProcInv
<1>2. \A v \in UserPage : Access(pt[p], v) # {} => asked[p][v] # {}
  BY <1>1, NoUserAccess, SMTT(40) DEF PageInv
<1>3. ASSUME NEW v \in Frame PROVE "USER" \notin pt[p].entry[v].flags
  <2>1. pt[p].entry[v] = IdentityEntry(v) \/ pt[p].entry[v] = NoPage
    BY <1>1 DEF KernelPageInv
  <2>2. IdentityEntry(v).flags = {"PRESENT", "WRITE"} /\ NoPage.flags = {}
    BY DEF IdentityEntry, NoPage
  <2> QED BY <2>1, <2>2
<1> QED BY <1>2, <1>3, NoUserAccess, Zenon

\* What user code reaches belongs to its process.
LEMMA ReachableOwned ==
  ASSUME IInv, NEW p \in Proc, Running(p), NEW f \in Reachable(p)
  PROVE  Owned(p, f)
<1>1. CASE \E v \in Page : Access(pt[p], v) # {} /\ f = pt[p].entry[v].frame
  <2>1. PICK v \in Page : Access(pt[p], v) # {} /\ f = pt[p].entry[v].frame
    BY <1>1
  <2>2. v \in UserPage /\ asked[p][v] # {}
    BY <2>1, AccessAsked, ZenonT(40) DEF Page
  <2>3. PageInv(p, v)
    BY <2>2 DEF IInv, ProcInv
  <2> QED BY <2>1, <2>2, <2>3 DEF PageInv
<1>2. CASE \E t \in stale[p] : f = t[2]
  <2>1. \A t \in stale[p] : Owned(p, t[2])
    BY DEF IInv, ProcInv
  <2> QED BY <1>2, <2>1, ZenonT(40)
<1> QED BY <1>1, <1>2, ZenonT(40) DEF Reachable

\* In every behaviour, for any number of processes, frames, pages and blocks:
\* the frames that user code of a running process reaches, through its page
\* table or a cached translation, belong to that process.
THEOREM FramesOwned == Spec => []UserFramesOwned
<1>1. IInv => UserFramesOwned
  BY ReachableOwned DEF UserFramesOwned, Owned
<1> QED BY <1>1, AlwaysInv, PTL

\* Two running processes never reach the same frame.
NoPageSharing ==
  \A p, q \in Proc : p # q /\ Running(p) /\ Running(q) => Reachable(p) \cap Reachable(q) = {}

\* no_page_sharing (src/invariants.h): no frame is reachable from two running
\* processes, whatever they map and unmap and however slots are reused.
THEOREM PagesNotShared == Spec => []NoPageSharing
<1>1. ASSUME IInv, NEW p \in Proc, NEW q \in Proc, p # q, Running(p), Running(q),
             NEW f \in Reachable(p), f \in Reachable(q)
      PROVE  FALSE
  <2>1. PICK r \in heap : r.owner = p /\ f \in FramesOf(r)
    BY <1>1, ReachableOwned DEF Owned
  <2>2. PICK s \in heap : s.owner = q /\ f \in FramesOf(s)
    BY <1>1, ReachableOwned DEF Owned
  <2>3. Apart(r, s)
    BY <1>1, <2>1, <2>2 DEF IInv, HeapInv, AllApart
  <2> QED BY <2>1, <2>2, <2>3 DEF Apart
<1>2. IInv => NoPageSharing
  BY <1>1 DEF NoPageSharing
<1> QED BY <1>2, AlwaysInv, PTL

\* Up to the size that kzalloc was asked for, no process ever reaches what
\* another one wrote; behind it, only on the last page of its file or its bss.
THEOREM LeftoversCleared == Spec => []NoLeftovers
<1>1. ASSUME IInv, NEW p \in Proc, Running(p), NEW f \in Reachable(p)
      PROVE  /\ wrote[f] \subseteq {p}
             /\ \/ tail[f] \subseteq {p}
                \/ \E r \in heap : r.owner = p /\ r.use \in {"file", "bss"} /\ f = r.start + r.len - 1
  <2>1. PICK r \in heap : r.owner = p /\ r.use \in UserUse /\ f \in FramesOf(r)
    BY <1>1, ReachableOwned, ZenonT(40) DEF Owned
  <2>2. wrote[f] \subseteq {p} /\ (tail[f] \subseteq {p} \/ Padded(r, f))
    BY <1>1, <2>1, UserMemAssumption, SMTT(40) DEF IInv, HeapInv, RegionInv, OwnBytes
  <2> QED BY <2>1, <2>2 DEF Padded, UserUse
<1>2. IInv => NoLeftovers
  BY <1>1 DEF NoLeftovers
<1> QED BY <1>2, AlwaysInv, PTL

\* The page table gives user code no access that the last mapping did not ask
\* for, and none to the kernel's pages; no translation of an unmapped page stays
\* in the processor.
THEOREM AccessBounded == Spec => []NoExtraAccess
<1>1. ASSUME IInv, NEW p \in Proc, Running(p), NEW v \in UserPage
      PROVE  Access(pt[p], v) \subseteq asked[p][v]
  <2>1. CASE asked[p][v] = {}
    BY <1>1, <2>1, AccessAsked, Zenon
  <2>2. CASE asked[p][v] # {}
    <3>1. /\ asked[p][v] \in {ReadOnly, Writable} /\ pt[p].entry[v].flags = asked[p][v]
          /\ pt[p].dir[DirOf(v)] \in {ReadOnly, Writable}
      <4>1. PageInv(p, v)
        BY <1>1, Zenon DEF IInv, ProcInv
      <4> QED BY <2>2, <4>1, Zenon DEF PageInv
    <3> QED BY <3>1, UserAccess, SMTT(30)
  <2> QED BY <2>1, <2>2
<1>2. ASSUME IInv, NEW p \in Proc, Running(p) PROVE \A t \in stale[p] : asked[p][t[1]] # {}
  BY <1>2, SMTT(40) DEF IInv, ProcInv
<1>3. IInv => NoExtraAccess
  BY <1>1, <1>2, AccessAsked DEF NoExtraAccess
<1> QED BY <1>3, AlwaysInv, PTL

\* A page that a process asked for stays readable until it is unmapped, and
\* writable while the directory entry allows it.
THEOREM AccessGiven == Spec => []AccessKept
<1>1. ASSUME IInv, NEW p \in Proc, Running(p), NEW v \in UserPage, asked[p][v] # {}
      PROVE  /\ ReadOnly \subseteq Access(pt[p], v)
             /\ asked[p][v] = Writable /\ pt[p].dir[DirOf(v)] # ReadOnly => Access(pt[p], v) = Writable
  <2>1. /\ asked[p][v] \in {ReadOnly, Writable} /\ pt[p].entry[v].flags = asked[p][v]
        /\ pt[p].dir[DirOf(v)] \in {ReadOnly, Writable}
    <3>1. PageInv(p, v)
      BY <1>1, ZenonT(40) DEF IInv, ProcInv
    <3> QED BY <1>1, <3>1, Zenon DEF PageInv
  <2> QED BY <2>1, UserAccess, SMTT(30)
<1>2. IInv => AccessKept
  BY <1>1 DEF AccessKept
<1> QED BY <1>2, AlwaysInv, PTL

\* The kernel stays mapped to itself in the table of every process that can run,
\* except for the memory of the process's own bss.
THEOREM KernelStaysMapped == Spec => []KernelMapped
<1>1. IInv => KernelMapped
  BY Zenon DEF IInv, ProcInv, KernelPageInv, InBss, KernelMapped
<1> QED BY <1>1, AlwaysInv, PTL

\* Of a reaped process the heap keeps only pages that it mapped, its bss and its
\* struct elf_file.
THEOREM LossesBounded == Spec => []OnlyPagesLost
<1>1. IInv => OnlyPagesLost
  BY DEF IInv, HeapInv, RegionInv, OnlyPagesLost
<1> QED BY <1>1, AlwaysInv, PTL

\* The variables keep their types.
THEOREM MemoryTyped == Spec => []TypeOK
<1>1. ASSUME IInv PROVE TypeOK
  <2>1. TypeInv
    BY <1>1 DEF IInv
  <2>2. ASSUME NEW p \in Proc, NEW v \in Page
        PROVE  /\ pt[p].entry[v].frame \in Page \cup {0} /\ pt[p].entry[v].flags \subseteq Flag
               /\ pt[p].dir[DirOf(v)] \subseteq Flag
    <3>1. pt[p] \in Table /\ DirOf(v) \in Dirs
      BY <2>1, PageNumbers DEF TypeInv
    <3>2. pt[p].entry[v] \in Entry /\ pt[p].dir[DirOf(v)] \in SUBSET Flag
      BY <3>1 DEF Table
    <3> QED BY <3>2, SMTT(40) DEF Entry
  <2>3. ASSUME NEW p \in Proc, NEW i \in 1..MaxBlocks
        PROVE  /\ blocks[p][i].start \in Page \cup {0}
               /\ blocks[p][i].end \in Page \cup {0, NumFrames + NumPages + 1}
    <3>1. blocks[p][i] \in Block
      BY <2>1, Zenon DEF TypeInv
    <3> QED BY <3>1 DEF Block
  <2> QED BY <2>1, <2>2, <2>3, Zenon DEF TypeInv, TypeOK
<1> QED BY <1>1, AlwaysInv, PTL
==============================================================================
