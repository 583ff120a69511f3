----------------------------- MODULE MCUserHeap ------------------------------
(* Programs of one or two segments for TLC. *)
EXTENDS UserHeap

\* A segment of the program's pages; its address and its offset in the file
\* agree within a page, as in every ELF file.
MCSegment ==
  {[type |-> "LOAD", offset |-> o, vaddr |-> a, filesz |-> fs, memsz |-> ms, write |-> w] :
     o \in 0..(FileSize - 1),
     a \in (EntryPage * PageSize)..((EntryPage + 3) * PageSize - 1),
     fs \in 0..FileSize, ms \in 0..(2 * PageSize), w \in BOOLEAN}

MCGoodSegment ==
  {g \in MCSegment :
     /\ g.offset % PageSize = g.vaddr % PageSize
     /\ g.offset + g.filesz <= FileSize
     /\ g.filesz <= g.memsz
     /\ g.vaddr + g.memsz <= (EntryPage + 3) * PageSize}

MCNote == [type |-> "NOTE", offset |-> 0, vaddr |-> 0, filesz |-> 1, memsz |-> 1, write |-> FALSE]
MCBad  == [type |-> "LOAD", offset |-> 0, vaddr |-> EntryPage * PageSize, filesz |-> 2, memsz |-> 1, write |-> FALSE]

\* Segments that reach the end of the address space.
MCWrapping ==
  {[type |-> "LOAD", offset |-> 0, vaddr |-> AddrSpace - PageSize, filesz |-> fs, memsz |-> ms, write |-> TRUE] :
     fs \in 1..2, ms \in 2..3}

\* Two segments that follow each other in memory as they do in the file.
MCPairs ==
  LET inOrder == {g \in MCGoodSegment : g.offset = g.vaddr - EntryPage * PageSize /\ g.memsz > 0}
  IN {<<g, h>> : g \in {x \in inOrder : x.offset < PageSize}, h \in {x \in inOrder : x.offset >= PageSize}}

MCElf(phdrs) == [header |-> "elf", phdrs |-> phdrs]

MCFiles ==
  {[header |-> "flat", phdrs |-> <<>>], MCElf(<<MCNote>>), MCElf(<<MCBad>>)}
    \cup {MCElf(<<g>>) : g \in MCGoodSegment \cup MCWrapping}
    \cup {MCElf(p) : p \in {q \in MCPairs : q[1].vaddr + q[1].memsz <= q[2].vaddr}}
==============================================================================
