# AmogOS in TLA+

A TLA+ model of the AmogOS kernel: what its parts do, what is checked about
them with TLC on small instances, and what is proved about them with TLAPS for
every instance. The reference is the code under `src/`; a path such as
`src/task/task.c` below is relative to the root of the repository.

## The system and its parts

AmogOS is a 32-bit x86 kernel for one CPU. After boot it loads a shell from a
FAT16 volume and from then on only reacts: to the clock, to the keyboard, to
exceptions and to the system calls of user programs. Every entry into the
kernel runs with interrupts off until it returns to user mode or halts
(`assert_interrupt_handler_cli_always`, `assert_single_cpu`), so a handler is
atomic. What interleaves is user code, clock ticks, key presses and calls.

| part | code | module |
|---|---|---|
| kernel heap | `src/memory/heap/kheap.c` | `KHeap`, abstract: `Allocator` |
| task list | `src/task/task.c` (`next`, `prev`, head, tail) | `TaskList`, abstract: `TaskQueue` |
| scheduling, exit, exceptions | `src/task/task.c`, `src/idt/idt.c` | `Kernel` |
| processes: create, wait, reap | `src/task/process.c`, `src/syscall/proc_mgmt.c` | `Kernel` |
| the kernel on its task list | the two rows above | `KernelTasks` |
| page tables | `src/memory/paging/paging.c` | `Paging` (operators) |
| user memory: mmap, munmap, exit, reap | `src/syscall/umem.c`, `src/task/process.c` | `UserMem` |
| program image, ELF loader | `src/loader/elfloader.c`, `src/task/process.c` | `ProcessImage` |
| user `malloc` | `programs/stdlib/src/stdlib.c` | `UserHeap` |
| keyboard | `src/dev/ps2.c`, `src/dev/keyboard.c`, `src/syscall/user_io.c` | `Keyboard` |
| open files | `src/fs/file.c`, `src/fs/fat/fat16.c` | `FileTable` |
| FAT16: reading a file | `src/fs/fat/fat16.c` | `Fat16File` |
| FAT16: finding a file | `src/fs/fat/fat16.c` | `Fat16Dir` |
| disk stream | `src/disk/streamer.c` | `DiskStream` |
| shell, path parser, arguments | `programs/shell/shell.c`, `programs/stdlib/src/stdlib.c`, `src/fs/utils.c`, `src/task/process.c` | `Shell` |
| console | `src/console/console.c` | `Console` (operators) |
| prompt, echo and output | `programs/stdlib/src/stdlib.c`, `src/syscall/user_io.c` | `Terminal` |

How they fit together: `Kernel` uses the task list as a queue, which
`TaskList` shows the linked list to be; `KernelTasks` runs the two together.
Everything the kernel allocates comes from `kmalloc`; `KHeap` is shown to
implement `Allocator`, and the other modules rely on that promise ("memory that
is given out belongs to nobody else"). The promise is for requests too small to
make a failing `kzalloc` clear the heap's own table; `UserMem`, where a user may ask
for more, has that outcome as a state of its own (`wiped`). `Keyboard` and `UserMem` take from
`Kernel` that processes are switched, exit, are reaped, and that their slots are
used again. `UserMem` and `ProcessImage` share the page tables of `Paging`: the
first has several processes and whole pages, the second one process and bytes,
and `UserHeap` goes on where `ProcessImage` ends. `FileTable` keeps the
descriptors that `Fat16Dir` finds and whose contents `Fat16File` reads through
`DiskStream`. `Shell` is the user program that turns the keys it reads into the
path that `Fat16Dir` looks up and the arguments of a process that `Kernel`
creates; `Terminal` is the same prompt as the user sees it on the `Console`.

## The modules

**KHeap.** `entries` is the table of one byte per block, each a set of flags.
`kmalloc` is first fit; its inner loop is not bounded by the table, so the bytes
after the table are part of the state and hold anything at boot. `kfree` follows
`HAS_NEXT` up to the end of the table. `kzalloc_null` is `kzalloc` when `kmalloc`
fails: it clears `size` bytes from address 0. `live` and `overruns` are ghosts.
`Beyond` bounds the bytes past the table; the assumption says no search goes
further. Callers free only what they hold, once.

**TaskList, TaskQueue.** The pointers `tasks_ll_head`, `tasks_ll_tail`, `next`
and `prev` under `task_new` and `task_free`, with a ghost queue.

**Kernel.** One variable per field of `struct process` and `struct task` that
matters, the globals `curr_task` and `current_proc`, and the CPU: the page table
in use (`cr3`), the registers (`cpu`) and `mode`, which is `"user"`, `"spin"`
when a handler loops for ever, or the panic that halted the machine. Registers
are abstracted to the number of steps a task's code has done, which a ghost
counts on its own. Actions: `user_step`, `idt_handle_clock`,
`idt_handle_exception`, `syscall_exit`, `syscall_wait_pid`,
`syscall_create_process` and `copy_data_from_user_panic`. `Faults` chooses which
of the failures of a creation can happen:

| fault | where | what is left |
|---|---|---|
| `stack_oom`, `load_failed` | before `task_new` | nothing: the slot is unused |
| `task_oom` | `task_new` returns 0 | `process_new` reports success, the caller panics |
| `bad_segment` | `process_map_elf`, after `task_new`: a segment with `p_filesz > p_memsz` | panic ("invalid segment") |
| `map_failed` | after `task_new` | a ready task whose slot looks unused |
| `args_too_long` | `process_add_arguments` | a ready task of a process that cannot start |
| `bad_pointer` | `copy_data_from_user`, in any system call that copies from the user, and in a creation for the arguments, once the process exists | panic |

**KernelTasks.** A step of `Kernel` together with what `task_new` or
`task_free` does to `tasks_ll_head`, `tasks_ll_tail`, `next` and `prev`; a freed
task keeps its pointers until its memory is handed out again.

**Paging.** A page table is an entry per page and the flags of every directory
entry. Flags are sets, and user code has the access that both levels allow.
`paging_map_memory_region` overwrites the flags of the directory entries on its
way; `paging_free_va` clears entries and leaves the directory.

**UserMem.** A page table per process, the blocks `mmap` notes, and the heap as a
set of regions with a ghost owner and use. A program has a page of text, of bss
and of stack, all page aligned, as the linker scripts of the programs make them.
The processor may go on using a translation that the page table no longer has:
`stale` holds those, with the access they give, until `munmap` invalidates the page or
CR3 is loaded. `asked`, `wrote` and `tail` are ghosts: the access a process last asked
for, and whose bytes may be in a frame, up to the size that `kzalloc` was asked for and
therefore cleared, and behind it on the last page (a process is taken to write at once
wherever it may, which is the worst case). A failing `mmap` of `WipePages` pages or more
clears the table of the heap (`wiped`), and the model ends there: what follows is
arbitrary. `struct elf_file` is memory of the process that nothing frees. Creations
that fail for want of memory for the file or the bss are an action; the other
failures end in the states `Kernel` describes, in which the process does not run.

**ProcessImage.** `process_new` as one action with every early return: stack,
`elf_load`, the copy of each program header to memory and the page tables, byte
by byte. A byte of the file is its own offset, so what the process reads says
where it came from. A segment whose end page is not behind its start page is skipped,
which happens when it reaches the end of the address space and the sum wraps. `held` is what has been acquired and not released.

**UserHeap.** `malloc` in the process that `ProcessImage` makes: it grows the heap
downwards with `mmap` and writes a `struct malloc_info` below each block. The
arithmetic is modulo the address space. `free` does nothing in the code.

**Keyboard.** The ring buffer of each process, caps lock, and the translation
of scan codes, by the classes that the driver tells apart. The bound check on
scan codes lets the index one past the table through; the byte read there can be
any character.

**FileTable.** The descriptor table, the driver's descriptors behind it, and
what the holders of open files know (`held`, a ghost). Kernel code passes only
descriptors that it holds, or that the table refuses.

**Fat16File, DiskStream.** A byte of the disk is its own position, so what a read
returns says where each byte came from. The walk along the cluster chain keeps
both widths: FAT entries have 2 bytes, the driver reads 4, and positions wrap at
2^32 (`EntryMod` and `EntryMod^2`). `boot.asm` has 128 sectors of 512 bytes in a
cluster, that is 2^16, which is why the assumption has `ClusterBytes` a multiple of
`EntryMod`.

**Fat16Dir.** The raw entries of the root and of every subdirectory, deleted ones
included, each with the first cluster it leads to, so that directories nest and have
`.` and `..`; the count of entries, the search by that count, and `fat16_open`: the
descent along a path with the objects it allocates and frees, any one of which may be
refused. No allocation follows one that failed, so one failure per open is the general
case. The `..` of a directory in the root has cluster 0, where the driver looks for a
directory as at any other cluster; the model has arbitrary entries there. (With the
sizes of `boot.asm` the place is in the second FAT.) A part of a path may begin with
0xE5 and so be equal to the name of a deleted entry (`Erased`).

**Shell.** The buffer of the shell byte by byte, where a byte is a letter,
small or capital, a slash, a space or Nul, and the static pointer of `strtok`. A command is one
action, `str_to_lower` on the first token included: built-in commands begin with a letter and may be any such line. `path` is
what `parse_path` makes of the name, and `frame` the stack as
`process_add_arguments` leaves it: words and bytes at their addresses, from which
the properties read `argc` and `argv` as `main` would. The buffer holds anything at
first. A process may fail to be created at any time, and is otherwise waited for.

**Console, Terminal.** The cells of the video memory and the cursor, which wraps
at the end of a row, goes back over it on a backspace, and never scrolls: rows
below the screen are written all the same, and `Rows` bounds them. `Terminal` has
the prompt, the echo of `readline_terminal`, output of commands, `cls`, and numbers
through `itoa` in the width of `int`. `syscall_print` shows nothing when it has no
memory for its copy of the string.

## Model checking

Run TLC in this directory, for instance
`tlc -workers 2 -config Kernel.cfg MCKernel`. The `MC` modules only add symmetry
sets and sets of inputs or volumes; the `.cfg` files only give values to the constants.

| run | checks | instance and why it is enough |
|---|---|---|
| `kheap` | blocks are never shared, the table agrees with the callers, chains end, requests are covered, one overrun at most, implements `Allocator` | 5 blocks, 3 bytes beyond, sizes of 0, 1, 2 and 3 blocks: splitting, merging, reuse and overrun at the end all happen |
| `kernel` | processes and tasks are one to one, zombies are the dead tasks, panics only on a bad pointer, at an invalid segment or with nobody left, the dead stay dead | 4 processes and tasks, early failures, invalid segments and bad pointers: a parent, a child, a grandchild and one more, so that slots and pids are reused while others are alive |
| `kernel_faults` | on the linked list, with every failure: CPU, task, page table and process agree, registers survive, the pointers lead through the existing tasks, slots change hands only when reaped, and `ReadyTaskRuns` under a fair clock | 3 processes, 3 tasks, all faults: head, middle and tail can each be unlinked |
| `keyboard` | order, no loss, nobody else's keys | 2 processes, a buffer of 3, 4 keys: the buffer wraps |
| `user_mem` | frames reached belong to the process, also through cached translations, and hold nothing another process wrote except behind the end of the file and the bss; the page table gives the access asked for and no more; the kernel stays mapped; only mapped pages, the bss and `struct elf_file` are lost | 2 processes, 11 frames, 4 user pages, 2 pages per directory entry, 2 blocks, 2 mapped regions, a wipe from 3 pages on: both processes can run at once, memory and blocks run out, regions overlap, share and cross directory entries, and an `mmap` fails below and above the wipe |
| `user_heap` | the process sees the bytes and has the access its file describes, a failed load gives back what it took, blocks of `malloc` are apart | 2 bytes per page, 9 user pages, 9 frames, 3 blocks, files of 4 bytes with every segment or pair of segments that fits, all 7 failures, then 3 allocations of 0 to 3 bytes: requests that fit, that fill a page and that need two |
| `file_table` | open files are independent, slots are released, descriptors accounted for | 3 slots, 4 objects: the table fills, the last slot is reached |
| `fat16_file` | reads return the bytes of the chain | all chains of up to 3 of 4 clusters, neighbours free or in use, sizes up to 3 clusters less one byte |
| `fat16_dir` | lookups are sound, complete without deletions and with memory, and free what they allocate whichever allocation fails | 246 volumes of a root and two subdirectories, side by side or one in the other, with `.` and `..`, deleted entries and entries at cluster 0; every path of up to 4 parts, which goes down two levels and back, each of up to 13 allocations failing |
| `shell` | the command is what was typed, `main` finds its words on the stack, the path is its first word | lines of up to 6 keys in a buffer of 8, and a stack of 40 bytes, on which the arguments of every line fit: three words, small and capital letters, spaces in front, behind and twice, full lines, and earlier lines that are longer |
| `terminal` | the screen shows the line that was read, editing never touches earlier output, numbers read back | 2 rows of 4 cells and 2 rows below, lines of up to 4 keys, 8-bit numbers: lines and numbers cross the end of a row, and output passes the end of the screen |
| `kernel_spin` (violation) | a clock tick ends with a task running | see below |

`MaxSteps`, `MaxTyped`, `MaxRead`, `MaxPos`, `MaxChain`, `MaxPath`, `MaxMaps`, `MaxAllocs` of `UserHeap` and `Rows` bound what is unbounded in
the code or far larger; all other constants scale a limit of the code down, and
are named after it; `WipePages` is 8 in the kernel (32256 bytes).

**Deadlock** is not checked in `Kernel` and `KernelTasks`, whose machine may halt,
nor in `UserMem` and `UserHeap`, where memory that is not given back runs out in the
end, nor in `Shell`, which a line of spaces ends, nor in `Terminal`, whose rows run
out.

**Fairness.** `ListSpec` of `KernelTasks` has weak fairness of
`idt_handle_clock`, as `FairSpec` of `Kernel` does, and of nothing else. The timer keeps ticking, `task_init` sets IF in the flags of
every task, and tasks run at ring 3 with IOPL 0, so that user code cannot turn
interrupts off. No program is assumed to exit, to wait or to make any call.

### Where the code and its comments disagree

One of these is a run of the project. In `kernel_spin`,
`task_switch_to_next_and_run` looks for the next ready task with `task_get_next`,
which starts from `curr_task` every time. If the task after the running one is
dead, the loop does not end, and interrupts are off. A child that exits and is not
reaped before the next tick is enough.

The others are properties of the modules that no run lists. TLC finds each one
violated with the configuration below, when it takes the place of the properties in
it (three configurations are kept for this purpose and need no change). A *P*
marks a `PROPERTY`; the others are invariants.

| property | configuration, module | what happens |
|---|---|---|
| `BelowSafeBoundary` | `KHeapBoundary.cfg`, `MCKHeap` | an allocation at the end of the heap can run past its end, and past what `src/config.h` calls the boundary if it is larger than the gap between the two (12 MB; one block in the instance) |
| `NoPageSharing` | `KHeapWipe.cfg`, `MCKHeap` | a failing `kzalloc` of a large size clears the heap's own table |
| `ArgumentsFit` | `ShellArgs.cfg`, `MCShell` | the check of `process_add_arguments` leaves out what is pushed last, so arguments that pass it can leave the stack |
| `OnlyStartableProcessesRun` | `KernelFaults.cfg`, `MCKernelTasks` | a creation refused by `process_add_arguments` leaves a ready task; switching to it panics in `set_current_process` |
| `ArgumentsOnlyWhileCreating` | `KernelFaults.cfg`, `MCKernelTasks` | `task_new` fails, `process_new` reports success |
| `SingleTaskPerProcess` | `KernelFaults.cfg`, `MCKernelTasks` | `process_map_memory` fails after `task_new`; the slot is taken again |
| `ReapsOnlyOwnChild` *P* | `Kernel.cfg`, `MCKernel` | a reused pid makes a new process the parent of an orphan |
| `KeysOnce` | `Keyboard.cfg`, `MCKeyboard` | characters are not cleared when read, so after a wrap they are read again |
| `BssFreed` | `UserMem.cfg`, `MCUserMem` | the bss is noted as a block by its physical address and never freed |
| `ElfFileFreed` | `UserMem.cfg`, `MCUserMem` | `process_exit` frees the memory of the file and not the `struct elf_file` that `elf_load` allocated |
| `PagesCleared` | `UserMem.cfg`, `MCUserMem` | `kzalloc` clears the size asked for; behind it, on the last page of a file or a bss, a process finds what another one left |
| `HeapKept` | `UserMem.cfg`, `MCUserMem` | an `mmap` of many pages for which there is no memory clears the heap's own table |
| `OldAccessGone` | `UserMem.cfg`, `MCUserMem` | a page mapped anew for reading can be written through its old translation until the next flush |
| `NoStaleTranslation` | `UserMem.cfg`, `MCUserMem` | mapping over a page in use does not invalidate its translation |
| `PaddedFaithful` | `UserHeap.cfg`, `MCUserHeap` | a segment with a bss that does not start on a page boundary is copied to the start of its first page |
| `BinaryTried` | `UserHeap.cfg`, `MCUserHeap` | a file that is not ELF is not loaded as a binary |
| `KfopenReturnsFdOrError` *P* | `FileTable.cfg`, `MCFileTable` | `kfopen` returns 0 on an error |
| `GivesUpOnlyAtEnd` | `Fat16File.cfg`, `MCFat16File` | a FAT entry is read with 4 bytes; if the next entry is an end mark the value is negative, and the walk gives up in the middle of a file |
| `EntriesEndAtNull` | `Fat16Dir.cfg`, `MCFat16Dir` | deleted entries are not counted but take up room, so the last entries are not found |
| `FoundIsLive` | `Fat16Dir.cfg`, `MCFat16Dir` | a part of a path that begins with 0xE5 finds a deleted entry |
| `DotDotIsParent` | `Fat16Dir.cfg`, `MCFat16Dir` | the `..` of a directory in the root has cluster 0, which is not taken for the root |
| `FoundIsFilled` | `Fat16Dir.cfg`, `MCFat16Dir` | when the copy of an entry cannot be allocated, the open succeeds with an item that points nowhere (no comment speaks of it; `fat16_read` and `fat16_stat` rely on it) |
| `ArgumentsJoined` | `Shell.cfg`, `MCShell` | with spaces in front or twice in a row, `argv` is not the words of the line |
| `LineOnScreen` | `Terminal.cfg`, `MCTerminal` | the console does not scroll, so a line below the last row is not seen |

## Proofs

`tlapm M.tla` checks the proofs of module `M`. Every theorem holds for all
values of the constants that satisfy the named assumptions of the module.

* **KHeapProofs**: `HeapSafety`, `HeapOverrunsOnce` and
  `HeapImplementsAllocator`, for requests no larger than the address of the table
  (`SmallRequests`; 32256 bytes in the kernel): without it they do not hold, as
  `KHeapWipe.cfg` shows. The inductive invariant adds two facts to the properties:
  the blocks of an allocation are marked past the table as well (`Marked`), and
  after an overrun the byte behind the table stays marked (`Sealed`), because
  `kfree` never clears it. `FreedExactly` is the lemma everything rests on:
  following `HAS_NEXT` from the start of an allocation clears its blocks and no
  others.
* **KernelProofs**: `KernelSafety`, when creations fail only before a task
  exists, or by the panic of `process_map_elf` or of a bad pointer (`EarlyFaultsOnly`). A switch keeps `UserModeConsistent` only if a ready
  task belongs to a process that can start; that takes `ZombieIffDead` and that
  no process stays in creation (`NoneCreating`), and those survive exit and reap
  because processes and tasks are one to one (`SingleTaskPerProcess`). The
  hypothesis is needed: `OnlyStartableProcessesRun` and `SingleTaskPerProcess` are
  violated without it.
  `KernelSurvivesFaults` is what holds with every set of faults: `UserModeConsistent`, `ContextIntact`, `DeadStaysDead` and
  `IdentityStable`. A failed creation can leave a task whose slot looks unused and is
  taken again, so tasks and processes are no longer one to one. What remains, and is
  enough, is that slots in use have different tasks, all of them in the list
  (`SlotTasks`), and that the list repeats none (`Distinct`): then a reap frees no
  other slot's task, and a task that is made again is a new one. A switch to a task
  left behind panics in `set_current_process`, or runs it as the process that has
  taken its slot, with page table and process still in agreement.

  `ListImplementsQueue` and `KernelKeepsList`, with every set of faults: the linked
  list is the queue, alone and under the kernel. The lemmas say what removing a task
  from a queue without repetitions does to its members and their order; the invariant
  adds that the queue has no repetitions (`LInv`), and carries over to `KernelTasks`
  once `Kernel` is seen to change its queue only by appending a task that is not in it
  or removing one that is.
* **KeyboardProofs**: `KeysReachTheirProcess`. Until a full buffer has been
  typed, the buffer is the sequence of keys typed (`Unwrapped`); after that, all
  it holds was at least typed into its process (`Own`).
* **FileTableProofs**: `OpenFilesIndependent` and `DescriptorsAccounted`. The
  properties of open files and the types are inductive together. The account of the
  driver's descriptors needs more (`Accounted`): address by address, what is in the
  heap is behind an open file or was lost when `kfopen` found the table full, and never
  both, so that a close frees nothing that was counted as lost.
* **UserMemProofs**: one theorem for each of the six properties of the run,
  `PagesNotShared` (what `no_page_sharing` of `src/invariants.h` promises) and
  `MemoryTyped`. The inductive invariant adds to the types: `HeapInv`, regions are apart, what
  they hold was written by their owner or cleared, the end of a last page excepted
  (`OwnBytes`), a zombie has given back its file and its stack, and of regions without
  an owner only mapped pages, a bss, a `struct elf_file` and what failed creations took
  are left; `PageInv`, a page that was asked for has exactly the flags asked
  for, a directory entry that lets users through, and memory of the process behind it,
  and any other page is closed to users; `KernelPageInv`, a page of the kernel is mapped
  to itself unless it is in the process's own bss, which takes that the blocks which
  `munmap` clears meet the kernel's pages only there; and what is in `stale` leads to
  memory of the process and is for a page that it has mapped.
* **Fat16DirProofs**: `LookupsSound`, `LookupsComplete` and `LookupsBalanced`, for
  any directories, nested in any way, paths of every length and whichever allocation
  fails. The first two leave out paths that climb back to the root, and the first also
  names that begin with 0xE5: `DotDotIsParent` and `FoundIsLive` are violated there. The
  heart is an invariant of the loop of `fat16_get_dir_entry` after `n` parts (`Good`):
  besides the descriptor exactly the parts of the current item are allocated, the item
  is what the first `n` parts name, along a sequence of directories from the root
  (`Walks`), and it is there if they name something, nothing is deleted and no
  allocation failed. That the search by the count of live entries sees all of them when
  none is deleted is a fact about cardinalities (`LiveCount`).
* **TerminalProofs**: `LinesEchoed`, `NumbersShown` and `OutputsKept` (an action
  property), for every width of the console. While a line is read, the cursor is as
  many cells behind the prompt as the line has keys, counted across rows (`Reading`);
  backspace undoes exactly one `console_write_char` (`WriteErases`). `ItoaShows` is
  that `atoi` reads back what `itoa` writes, for every `int` but the smallest: the
  loops of the two walk the same quotients from opposite ends (`DigitReads`); `NumbersShown`
  is about numbers for which `syscall_print` has memory. Two
  assumptions are about the build: `int` has at most 32 bits, and a number fits in a
  row (`NumbersFit`; 11 characters and 80 columns in the code).
* **Iteration**: the lemmas that induction is done with. The prover cannot use
  induction theorems, which take an operator as a parameter, so the loops of
  `console_write_char`, `itoa`, `atoi` and `fat16_get_dir_entry` are recursive functions,
  and these lemmas speak of sets and functions instead: a nonempty set of naturals has
  a least element, a set with 0 that is closed under successor has all of them, and
  every sequence of steps has a run (`RunExists`), which is what the recursive function
  is.

Where a module has a type invariant, it is part of the inductive invariant or follows
from it, and is proved with it.

Only model-checked:

* liveness (`ReadyTaskRuns`), which is out of the prover's reach;
* `ImageFaithful`, `SegmentAccess`, `LoadBalanced` and `BlocksUsable` of `ProcessImage`
  and `UserHeap`, `LineIsTyped`, `ArgvIsWords` and `PathIsFirstWord` of `Shell`, and
  `ReadsFollowChain` of `Fat16File`: their copies, tokens and cluster walks are folds
  and recursive operators over whole sequences. The lemmas of `Iteration` apply to
  them once they are written as recursive functions.

## Not modelled

* Boot, GDT, TSS, IDT set-up and port I/O: straight-line code that runs once.
* The ATA protocol of `disk_read_sectors`, which is taken to deliver the sector
  asked for; disk errors; `fat16_resolve` with its checks of the boot sector, and
  `fat16_stat`, which changes nothing.
* The table that system call numbers index, the string and memory routines, and the
  text of messages; of `printf`, the formats for strings and pointers.
* `paging_alloc_mapping`, `paging_init_new_mapping` and `paging_map_page`, which only
  tests call.
* Colours of the console.
* Directories of more than one cluster, and a volume that changes while it is mounted.
* Program files and bss of 32256 bytes and more for which there is no memory: the
  failing `kzalloc` would clear the heap's table, as `mmap` does in `UserMem`.
* Requests to `malloc` so large that adding the header wraps around.
* The memory of the parts of a path, which is never freed: an unbounded leak that
  only ends in the out-of-memory cases modelled elsewhere.
* User programs other than the shell. In `Kernel` user code is any sequence of steps
  and calls.

## Plan

1. Proofs about the image of a program and the blocks of `malloc` (`ProcessImage`,
   `UserHeap`).
2. The shell's loop of creating and waiting as a process of `Kernel`.
3. Heap use of a system that runs for a long time (paths, pages, stacks that are
   never freed), on top of `KHeap`.
4. Disk errors in `Fat16File` and `Fat16Dir`, with `fat16_stat` and `kfstat`.
