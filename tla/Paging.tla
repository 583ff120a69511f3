------------------------------- MODULE Paging --------------------------------
(***************************************************************************)
(* The two-level page tables of src/memory/paging/paging.c as values.  A   *)
(* table has an entry for every page and the flags of every directory      *)
(* entry, which covers DirSpan pages.  Pages and frames are numbered.      *)
(***************************************************************************)
EXTENDS Integers

CONSTANT DirSpan      \* pages per entry of the page directory (1024)

ASSUME PagingAssumption == DirSpan \in Nat \ {0}

Flag     == {"PRESENT", "USER", "WRITE"}
ReadOnly == {"PRESENT", "USER"}
Writable == {"PRESENT", "USER", "WRITE"}
NoPage   == [frame |-> 0, flags |-> {}]

DirOf(v) == v \div DirSpan

\* paging_create_4gb_page_tables: every page mapped to itself, not for users.
IdentityEntry(v) == [frame |-> v, flags |-> {"PRESENT", "WRITE"}]

IdentityTable(pages) ==
  [entry |-> [v \in pages |-> IdentityEntry(v)],
   dir   |-> [d \in {DirOf(v) : v \in pages} |-> {"PRESENT", "WRITE"}]]

\* paging_map_memory_region: paging_new_vpn_to_pfn, overwriting, for the pages
\* start..end-1 and the frames from frame on.  The flags of every directory
\* entry on the way become those of this region.
paging_map_memory_region(pt, start, frame, end, flags) ==
  [entry |-> [v \in DOMAIN pt.entry |->
                IF v \in start..(end - 1)
                THEN [frame |-> frame + (v - start), flags |-> flags]
                ELSE pt.entry[v]],
   dir   |-> [d \in DOMAIN pt.dir |->
                IF \E v \in start..(end - 1) : DirOf(v) = d THEN flags ELSE pt.dir[d]]]

\* As if paging_free_vpn returned before it cleared the entry.
FreeVaKept(pt, start, end) == pt

\* As if paging_free_vpn cleared the directory entry as well.
FreeVaWithDir(pt, start, end) ==
  [entry |-> [v \in DOMAIN pt.entry |-> IF v \in start..(end - 1) THEN NoPage ELSE pt.entry[v]],
   dir   |-> [d \in DOMAIN pt.dir |->
                IF \E v \in start..(end - 1) : DirOf(v) = d THEN {} ELSE pt.dir[d]]]

\* paging_free_va: the entries are cleared, the directory and the frames stay.
paging_free_va(pt, start, end) ==
  [pt EXCEPT !.entry = [v \in DOMAIN pt.entry |->
                          IF v \in start..(end - 1) THEN NoPage ELSE pt.entry[v]]]

\* The access that the processor gives user code to page v: both levels must
\* allow it.
Access(pt, v) ==
  LET both == pt.entry[v].flags \cap pt.dir[DirOf(v)]
  IN IF ReadOnly \subseteq both THEN both ELSE {}
==============================================================================
