----------------------------- MODULE ProcessImage ----------------------------
(***************************************************************************)
(* How process_new makes a program file into the memory of a process:      *)
(* elf_load of src/loader/elfloader.c, and process_load_data,              *)
(* process_map_elf and process_map_memory of src/task/process.c, down to   *)
(* the bytes that the process sees through its page table.                 *)
(*                                                                         *)
(* Addresses are numbers of bytes.  The user's pages are 1..TopPage, the   *)
(* stack is StackPage and DEFAULT_USER_PROG_ENTRY is EntryPage.  The       *)
(* frames of the kernel's heap follow; kzalloc takes them one after the    *)
(* other.  task_new, whose failures are in Kernel, succeeds.  The byte of  *)
(* the file at offset o is o + 1, Zero is a cleared byte and Other a byte  *)
(* of memory that was not given to this process.  An address is a number   *)
(* modulo AddrSpace, as a pointer is modulo 2^32.  What kzalloc writes at   *)
(* address 0 when it has no memory is UserMem's.                           *)
(***************************************************************************)
EXTENDS Paging, Sequences, FiniteSetsExt, SequencesExt

CONSTANTS
  PageSize,     \* PAGE_SIZE (4096)
  AddrSpace,    \* 2^32
  TopPage,      \* the last user page
  NumFrames,    \* heap blocks
  MaxBlocks,    \* PROCESS_VMEM_MAX_BLOCKS (10)
  FileSize,     \* the size of a program file
  Files,        \* program files: header and program headers
  Faults        \* the steps of process_new that can fail

AllFaults == {"stack_oom", "elf_oom", "open", "stat", "file_oom", "read", "bss_oom"}

ASSUME ProcessImageAssumption ==
  /\ PageSize \in Nat \ {0}
  /\ TopPage \in Nat /\ TopPage > 3
  /\ AddrSpace \in Nat /\ AddrSpace % PageSize = 0 /\ AddrSpace > (TopPage + 1) * PageSize
  /\ NumFrames \in Nat /\ MaxBlocks \in Nat \ {0}
  /\ FileSize \in Nat
  /\ Faults \subseteq AllFaults

StackPage == 1
EntryPage == 2
UserPage  == 1..TopPage
Frame     == (TopPage + 1)..(TopPage + NumFrames)
StackFrame == TopPage + 1    \* the stack is allocated first

Zero  == 0
Other == -1

\* status.h
STATUS_OK                  == 0
STATUS_IO_ERROR            == 1
STATUS_NOT_ENOUGH_MEM      == 3
STATUS_INVALID_EXEC_FORMAT == 10

Panic == 99   \* panic(): not a status

VARIABLES
  file,       \* the file that was loaded
  phase,      \* "idle", "ready" (PROC_CREATING), "failed" or "panic"
  mem,        \* physical memory, by byte
  pt,         \* the page table of the process's task
  next,       \* the first free frame
  held,       \* what process_new has acquired and not released
  blocks      \* vmem_blocks_start and vmem_blocks_end

vars == <<file, phase, mem, pt, next, held, blocks>>

NoFile == [header |-> "none", phdrs |-> <<>>]

Init ==
  /\ file = NoFile
  /\ phase = "idle"
  /\ mem = [a \in ((TopPage + 1) * PageSize)..((TopPage + NumFrames + 1) * PageSize - 1) |-> Other]
  /\ pt = IdentityTable(UserPage)
  /\ next = TopPage + 1
  /\ held = {}
  /\ blocks = <<>>

-----------------------------------------------------------------------------
\* The blocks of len bytes.
PagesOf(len) == (len + PageSize - 1) \div PageSize

\* The process under construction: status so far, file_type, frame of the file.
State == [res |-> STATUS_OK, kind |-> "none", data |-> 0, mem |-> mem, pt |-> pt,
          next |-> next, held |-> held, blocks |-> blocks]

Take(s, what) == [s EXCEPT !.held = @ \cup {what}]

Return(s, freed, status) == [s EXCEPT !.held = @ \ freed, !.res = status]

HasFrames(s, len) == s.next + PagesOf(len) <= TopPage + NumFrames + 1

\* A block that the process never sees.
Hidden(s) == [s EXCEPT !.next = @ + 1]

\* kzalloc of len bytes at frame s.next, then filled: byte i is content(i).  What
\* follows them on the last page stays as it was.
Filled(s, len, content(_)) ==
  [s EXCEPT !.next = @ + PagesOf(len),
            !.mem = [a \in DOMAIN @ |->
                       LET i == a - s.next * PageSize
                       IN IF i \in 0..(len - 1) THEN content(i) ELSE @[a]]]

\* The file as kfread leaves it, and its type.
WithFile(s, kind) ==
  [Filled(s, FileSize, LAMBDA i : i + 1)
     EXCEPT !.kind = kind, !.data = s.next]

elf_validate_loaded(f) == f.header = "elf"

\* As if the descriptor were forgotten when there is no memory for the file.
FreedButFd == {"elf_file"}

\* What elf_load gives back when there is no memory for the file.
FreedWithoutMemory == {"fd", "elf_file"}

\* elf_load: the struct, the descriptor and the memory of the file are acquired
\* in turn, and every early return gives back what it has.
elf_load(s, f, fault) ==
  LET s1  == Take(Hidden(s), "elf_file")
      s2  == Take(s1, "fd")
      s3  == Take(s2, "elf_memory")
      all == {"fd", "elf_memory", "elf_file"}
  IN CASE fault = "elf_oom" \/ ~HasFrames(s, PageSize) -> Return(s, {}, -STATUS_NOT_ENOUGH_MEM)
       [] fault = "open" -> Return(s1, {"elf_file"}, -STATUS_IO_ERROR)
       [] fault = "stat" -> Return(s2, {"fd", "elf_file"}, -STATUS_IO_ERROR)
       [] fault = "file_oom" \/ ~HasFrames(s1, FileSize) -> Return(s2, FreedWithoutMemory, -STATUS_NOT_ENOUGH_MEM)
       [] fault = "read" -> Return(s3, all, -STATUS_IO_ERROR)
       [] ~elf_validate_loaded(f) -> Return(s3, all, -STATUS_INVALID_EXEC_FORMAT)
       [] OTHER -> Return(WithFile(s3, "elf"), {"fd"}, STATUS_OK)

\* process_load_binary, whose return after a failed kfstat keeps the descriptor.
process_load_binary(s, fault) ==
  LET s1 == Take(s, "fd")
      s2 == Take(s1, "program_data")
  IN CASE fault = "open" -> Return(s, {}, -STATUS_IO_ERROR)
       [] fault = "stat" -> Return(s1, {}, -STATUS_IO_ERROR)
       [] fault = "file_oom" \/ ~HasFrames(s, FileSize) -> Return(s1, {"fd"}, -STATUS_NOT_ENOUGH_MEM)
       [] fault = "read" -> Return(s2, {"fd", "program_data"}, -STATUS_IO_ERROR)
       [] OTHER -> Return(WithFile(s2, "binary"), {"fd"}, STATUS_OK)

\* process_load_data: process_load_elf, then the binary format if that returned
\* STATUS_INVALID_EXEC_FORMAT.
process_load_data(s, f, fault) ==
  LET r == elf_load(s, f, fault)
  IN IF r.res = STATUS_INVALID_EXEC_FORMAT THEN process_load_binary(r, fault) ELSE r

-----------------------------------------------------------------------------
MapStack(s) ==
  [s EXCEPT !.pt = paging_map_memory_region(@, StackPage, StackFrame, StackPage + 1, Writable)]

process_map_binary(s) ==
  MapStack([s EXCEPT !.pt = paging_map_memory_region(@, EntryPage, s.data, EntryPage + PagesOf(FileSize), Writable)])

\* process_add_vmem_block; its failure goes unnoticed.
AddBlock(bs, start, end) ==
  IF Len(bs) < MaxBlocks THEN Append(bs, [start |-> start, end |-> end]) ELSE bs

\* As if memcpy took p_memsz bytes of the file.
CopyMemsz(s, ph, i) == s.mem[s.data * PageSize + ph.offset + i]

\* A byte of the memory made for a segment that is longer than its part of the
\* file: first the bytes of the file, then zeros.
CopyFilesz(s, ph, i) ==
  IF i < ph.filesz THEN s.mem[s.data * PageSize + ph.offset + i] ELSE Zero

\* As if PF_W were not looked at.
AllWritable(ph) == Writable

PageFlags(ph) == IF ph.write THEN Writable ELSE ReadOnly

\* The pages start..end-1 of a segment.  The end of one that reaches the end of
\* the address space comes before its start.
StartPage(ph) == ph.vaddr \div PageSize
EndPage(ph)   == PagesOf((ph.vaddr + ph.memsz) % AddrSpace) % (AddrSpace \div PageSize)

\* One turn of the loop of process_map_elf; a status other than STATUS_OK has
\* left it.
MapSegment(s, ph, fault) ==
  LET start == StartPage(ph)
      end   == EndPage(ph)
      own   == ph.filesz # ph.memsz
      t     == IF own THEN [Filled(s, ph.memsz, LAMBDA i : CopyFilesz(s, ph, i))
                              EXCEPT !.blocks = AddBlock(@, s.next * PageSize, s.next * PageSize + ph.memsz)]
                      ELSE s
      frame == IF own THEN s.next ELSE s.data + (ph.offset \div PageSize)
  IN CASE s.res # STATUS_OK \/ ph.type # "LOAD" \/ ph.memsz = 0 -> s
       [] ph.filesz > ph.memsz -> [s EXCEPT !.res = Panic]
       [] own /\ (fault = "bss_oom" \/ ~HasFrames(s, ph.memsz)) -> [s EXCEPT !.res = -STATUS_NOT_ENOUGH_MEM]
       [] end <= start -> t
       [] OTHER -> [t EXCEPT !.pt = paging_map_memory_region(@, start, frame, end, PageFlags(ph))]

process_map_elf(s, f, fault) ==
  LET r == FoldLeft(LAMBDA t, ph : MapSegment(t, ph, fault), s, f.phdrs)
  IN IF r.res = STATUS_OK THEN MapStack(r) ELSE r

process_map_memory(s, f, fault) ==
  IF s.kind = "binary" THEN process_map_binary(s) ELSE process_map_elf(s, f, fault)

\* process_new, with the step fault failing ("none" for no step).
process_new(f, fault) ==
  LET s0  == Take(Filled(State, PageSize, LAMBDA i : Zero), "stack")
      s1  == process_load_data(s0, f, fault)
      s2  == Take(Hidden(s1), "task")
      end == CASE fault = "stack_oom" -> [State EXCEPT !.res = -STATUS_NOT_ENOUGH_MEM]
               [] s1.res < 0 -> s1
               [] OTHER -> process_map_memory(s2, f, fault)
  IN /\ phase = "idle"
     /\ file' = f
     /\ phase' = CASE end.res = STATUS_OK -> "ready" [] end.res = Panic -> "panic" [] OTHER -> "failed"
     /\ mem' = end.mem /\ pt' = end.pt /\ next' = end.next
     /\ held' = end.held /\ blocks' = end.blocks

Next == \E f \in Files, fault \in Faults \cup {"none"} : process_new(f, fault)

Spec == Init /\ [][Next]_vars

-----------------------------------------------------------------------------
\* The segments with memory, and those of them that are mapped.
Segments == {i \in DOMAIN file.phdrs : file.phdrs[i].type = "LOAD" /\ file.phdrs[i].memsz > 0}
Loads == {i \in Segments : StartPage(file.phdrs[i]) < EndPage(file.phdrs[i])}
BytesOf(ph) == ph.vaddr..(ph.vaddr + ph.memsz - 1)
PagesOfSegment(ph) == {a \div PageSize : a \in BytesOf(ph)}

\* The byte behind user address a.
Physical(a) == pt.entry[a \div PageSize].frame * PageSize + (a % PageSize)

\* What programs/*/linker.ld makes of a program: segments that end below the end
\* of the address space, share no page and, where zeros follow the bytes of the
\* file, start on one.
Linked(f) ==
  /\ Loads = Segments
  /\ \A i, j \in Loads : i # j => PagesOfSegment(f.phdrs[i]) \cap PagesOfSegment(f.phdrs[j]) = {}
  /\ \A i \in Loads : f.phdrs[i].filesz # f.phdrs[i].memsz => f.phdrs[i].vaddr % PageSize = 0

Shows(ph) ==
  \A a \in BytesOf(ph) :
    mem[Physical(a)] = IF a - ph.vaddr < ph.filesz THEN ph.offset + (a - ph.vaddr) + 1 ELSE Zero

\* In a process that process_new has made from a program as the linker script
\* lays it out, every byte of every segment reads as the file says: the bytes
\* of the file at their addresses and zeros behind them, whether the segment
\* lies in the copy of the file or in memory of its own.
ImageFaithful ==
  phase = "ready" /\ Linked(file) => \A i \in Loads : Shows(file.phdrs[i])

\* User code has no more access to a page of the program than a segment on that
\* page asks for; it has all of it if no read-only segment follows a writable
\* one, since the last segment rules the directory entry.
SegmentAccess ==
  phase = "ready" =>
    \A v \in UNION {PagesOfSegment(file.phdrs[i]) : i \in Loads} :
      LET here == {i \in Loads : v \in PagesOfSegment(file.phdrs[i])}
          ask  == PageFlags(file.phdrs[Max(here)])
      IN /\ Access(pt, v) \subseteq (IF \E i \in here : file.phdrs[i].write THEN Writable ELSE ReadOnly)
         /\ (\A i, j \in Loads : i < j /\ file.phdrs[i].write => file.phdrs[j].write) => Access(pt, v) = ask

\* process_new keeps no descriptor, and a file that cannot be loaded leaves
\* nothing of elf_load behind: what is still held is the stack alone, or
\* everything of a process whose task was already made.
LoadBalanced ==
  /\ "fd" \notin held
  /\ phase # "idle" => held \in {{}, {"stack"}, {"stack", "elf_file", "elf_memory", "task"}}
  /\ phase = "ready" => "task" \in held

\* "the bytes from the file are mapped to the beginning of the memory segment"
\* (process.c:297), wherever the segment starts.
PaddedFaithful ==
  phase = "ready" => \A i \in Loads : file.phdrs[i].filesz < file.phdrs[i].memsz => Shows(file.phdrs[i])

\* "Could not load ELF file, trying binary format" (process.c:76): a file that is
\* not ELF is loaded as a binary.
BinaryTried == file.header = "flat" => phase # "failed"
==============================================================================
