------------------------------- MODULE Kernel --------------------------------
(***************************************************************************)
(* Processes and tasks: src/task/task.c, src/task/process.c, the handlers  *)
(* of src/idt/idt.c and the system calls of src/syscall/proc_mgmt.c.       *)
(*                                                                         *)
(* Every entry into the kernel runs with interrupts off until it returns   *)
(* to user mode or halts, on one CPU, so a whole handler is one action.    *)
(* What interleaves is the user code of the tasks, the clock, exceptions   *)
(* and system calls.  The state is that of the CPU in user mode: mode is   *)
(* "user", "spin" when a handler loops for ever, or the panic that halted  *)
(* the kernel.                                                             *)
(*                                                                         *)
(* queue is the task list (see TaskList).  A task's registers are the      *)
(* number of steps its user code has done; steps is a ghost that counts    *)
(* them independently.  orphan[p] is a ghost: the process that created the *)
(* one in slot p has been reaped.                                          *)
(***************************************************************************)
EXTENDS TaskQueue

CONSTANTS
  Task,         \* the addresses kzalloc can give a struct task
  Null,         \* the null pointer
  MaxProcs,     \* MAX_PROCS (64)
  Faults,       \* the ways a system call can fail
  MaxSteps      \* bound on the user steps of one task

Pid == 0..(MaxProcs - 1)

AllFaults == {"stack_oom", "load_failed", "task_oom", "bad_segment", "map_failed",
              "args_too_long", "bad_pointer"}

ASSUME TaskAssumption == Null \notin Task

ASSUME KernelAssumption ==
  /\ MaxProcs \in Nat \ {0}
  /\ Task # {}
  /\ Null \notin Pid
  /\ Faults \subseteq AllFaults
  /\ MaxSteps \in Nat

VARIABLES
  status, parent_pid, pid, proc_task,      \* struct process, by slot
  state, task_proc, registers,             \* struct task, by address
  queue, curr_task, current_proc,          \* the globals of task.c, process.c
  cr3, cpu, mode,                          \* page table and registers in use
  orphan, steps                            \* ghosts

procVars == <<status, parent_pid, pid, proc_task, orphan>>
cpuVars  == <<curr_task, current_proc, cr3, cpu, mode>>
vars == <<procVars, state, task_proc, registers, queue, cpuVars, steps>>

Status    == {"UNUSED", "CREATING", "CAN_START", "ZOMBIE"}
TaskState == {"RUNNING", "READY", "DEAD"}
Panics    == {"deadlock", "process not ready", "not creating", "task not dead",
              "task not ready", "invalid user memory access", "invalid segment"}

TypeOK ==
  /\ status \in [Pid -> Status]
  /\ parent_pid \in [Pid -> Pid]
  /\ pid \in [Pid -> Pid]
  /\ proc_task \in [Pid -> Task \cup {Null}]
  /\ state \in [Task -> TaskState]
  /\ task_proc \in [Task -> Pid]
  /\ registers \in [Task -> 0..MaxSteps]
  /\ queue \in Seq(Task)
  /\ curr_task \in Task \cup {Null}
  /\ current_proc \in Pid \cup {Null}
  /\ cr3 \in Task
  /\ cpu \in 0..MaxSteps
  /\ mode \in {"user", "spin"} \cup Panics
  /\ orphan \in [Pid -> BOOLEAN]
  /\ steps \in [Task -> 0..MaxSteps]

-----------------------------------------------------------------------------
\* kernel_main: the shell is loaded into slot 0 and task_run_init_task makes it
\* its own parent and runs it.
Init ==
  /\ status = [p \in Pid |-> IF p = 0 THEN "CAN_START" ELSE "UNUSED"]
  /\ parent_pid = [p \in Pid |-> 0]
  /\ pid = [p \in Pid |-> 0]
  /\ curr_task \in Task
  /\ proc_task = [p \in Pid |-> IF p = 0 THEN curr_task ELSE Null]
  /\ state = [t \in Task |-> IF t = curr_task THEN "RUNNING" ELSE "DEAD"]
  /\ task_proc = [t \in Task |-> 0]
  /\ registers = [t \in Task |-> 0]
  /\ queue = <<curr_task>>
  /\ current_proc = 0
  /\ cr3 = curr_task
  /\ cpu = 0
  /\ mode = "user"
  /\ orphan = [p \in Pid |-> FALSE]
  /\ steps = [t \in Task |-> 0]

\* As if the handler forgot to save the frame.
SavedNothing == registers

\* The kernel is entered from user mode, with the frame of the current task.
Saved == [registers EXCEPT ![curr_task] = cpu]

task_save_current_state == mode = "user" /\ registers' = Saved

\* A running current task becomes ready again.
Preempted(st) ==
  [st EXCEPT ![curr_task] = IF @ = "RUNNING" THEN "READY" ELSE @]

\* As if task_switch did not load the page table.
PagingSwitchForgotten(t) == UNCHANGED cr3

paging_switch(t) == cr3' = t

\* The return to user mode with the registers of t.
task_return(t) == cpu' = registers'[t] /\ UNCHANGED mode

\* task_switch_and_run, from the task states st and the current process proc
\* that the caller left: the switch, the check in set_current_process, the page
\* table, and the return to user mode with the registers of t.
task_switch_and_run(t, st, proc) ==
  IF st[t] # "READY"
  THEN /\ mode' = "task not ready"
       /\ state' = st
       /\ current_proc' = proc
       /\ UNCHANGED <<curr_task, cr3, cpu>>
  ELSE /\ curr_task' = t
       /\ state' = [Preempted(st) EXCEPT ![t] = "RUNNING"]
       /\ IF status'[task_proc[t]] # "CAN_START"
          THEN /\ mode' = "process not ready"
               /\ current_proc' = proc
               /\ UNCHANGED <<cr3, cpu>>
          ELSE /\ current_proc' = task_proc[t]
               /\ paging_switch(t)
               /\ task_return(t)

\* The first ready task from the head of the list.
IsFirstReady(t, st) ==
  \E i \in 1..Len(queue) :
    /\ queue[i] = t
    /\ st[t] = "READY"
    /\ \A j \in 1..(i - 1) : st[queue[j]] # "READY"

task_switch_and_run_any(st, proc) ==
  \/ \E t \in Task : IsFirstReady(t, st) /\ task_switch_and_run(t, st, proc)
  \/ /\ \A t \in Members(queue) : st[t] # "READY"
     /\ mode' = "deadlock"
     /\ state' = st
     /\ current_proc' = proc
     /\ UNCHANGED <<curr_task, cr3, cpu>>

\* As if task_get_next always returned the head of the list.
GetNextHead == queue[1]

task_get_next == Successor(queue, curr_task)

\* The loop of task_switch_to_next_and_run asks for the task after curr_task,
\* which the loop does not change: it either stops at once or never.
task_switch_to_next_and_run ==
  LET st == Preempted(state)
      next == task_get_next
  IN \/ /\ next = curr_task \/ st[next] = "READY"
        /\ task_switch_and_run(next, st, current_proc)
     \/ /\ next # curr_task
        /\ st[next] # "READY"
        /\ mode' = "spin"
        /\ state' = st
        /\ UNCHANGED <<curr_task, current_proc, cr3, cpu>>

\* One step of the running task's own code.
user_step ==
  /\ mode = "user"
  /\ cpu < MaxSteps
  /\ cpu' = cpu + 1
  /\ steps' = [steps EXCEPT ![curr_task] = @ + 1]
  /\ UNCHANGED <<procVars, state, task_proc, registers, queue,
                 curr_task, current_proc, cr3, mode>>

idt_handle_clock ==
  /\ task_save_current_state
  /\ UNCHANGED <<procVars, task_proc, queue, steps>>
  /\ task_switch_to_next_and_run

\* As if process_exit did not mark the task dead.
KilledKeepsState(p) == state

Killed(p) == [state EXCEPT ![proc_task[p]] = "DEAD"]

\* process_exit of the current process, then any ready task.
process_exit ==
  LET p == task_proc[curr_task]
  IN /\ status' = [status EXCEPT ![p] = "ZOMBIE"]
     /\ task_switch_and_run_any(Killed(p), IF p = current_proc THEN Null ELSE current_proc)
     /\ UNCHANGED <<parent_pid, pid, proc_task, orphan, task_proc, queue, steps>>

\* Every system call starts with the registers saved; one that is unknown, or
\* that does not concern processes, does no more than that here.
intr_80h_handler == task_save_current_state

syscall_exit == intr_80h_handler /\ process_exit

idt_handle_exception == task_save_current_state /\ process_exit

\* The first slot that carries the pid: an unused slot carries 0.
get_proc_by_pid(w, q) == pid[q] = w /\ \A r \in 0..(q - 1) : pid[r] # w

\* process_init: the slot is cleared, and PROC_UNUSED is 0.
ClearedSlot(p) ==
  /\ status' = [status EXCEPT ![p] = "UNUSED"]
  /\ parent_pid' = [parent_pid EXCEPT ![p] = 0]
  /\ pid' = [pid EXCEPT ![p] = 0]
  /\ proc_task' = [proc_task EXCEPT ![p] = Null]

\* task_free and free_pid_slot, for the process in slot q.
process_reap(q) ==
  LET t == proc_task[q] IN
  IF state[t] # "DEAD"
  THEN /\ mode' = "task not dead"
       /\ UNCHANGED <<procVars, queue, curr_task>>
  ELSE /\ queue' = Without(queue, t)
       /\ curr_task' = IF t = curr_task THEN Null ELSE curr_task
       /\ ClearedSlot(q)
       /\ orphan' = [p \in Pid |-> /\ p # q
                                   /\ \/ orphan[p]
                                      \/ status[p] # "UNUSED" /\ parent_pid[p] = q]
       /\ UNCHANGED mode

\* As if process_reap did not ask for a zombie.
ReapableUnlessUnused(w, q) ==
  /\ get_proc_by_pid(w, q)
  /\ parent_pid[q] = pid[task_proc[curr_task]]
  /\ status[q] # "UNUSED"

\* As if process_waitpid did not ask for a child of the caller.
ReapableByAnyone(w, q) == get_proc_by_pid(w, q) /\ status[q] = "ZOMBIE"

\* The caller reaps the child it names, or is told an error.
Reapable(w, q) ==
  /\ get_proc_by_pid(w, q)
  /\ parent_pid[q] = pid[task_proc[curr_task]]
  /\ status[q] = "ZOMBIE"

syscall_wait_pid(w) ==
  /\ intr_80h_handler
  /\ \/ \E q \in Pid : Reapable(w, q) /\ process_reap(q)
     \/ /\ \A q \in Pid : ~Reapable(w, q)
        /\ UNCHANGED <<procVars, queue, curr_task, mode>>
  /\ UNCHANGED <<state, task_proc, current_proc, cr3, cpu, steps>>

\* As if the slot of a zombie were free.
GetUnusedOrZombieSlot(p) ==
  /\ status[p] \in {"UNUSED", "ZOMBIE"}
  /\ \A r \in 0..(p - 1) : status[r] \notin {"UNUSED", "ZOMBIE"}

get_free_slot(p) == status[p] = "UNUSED" /\ \A r \in 0..(p - 1) : status[r] # "UNUSED"

\* process_new up to task_new, when it fails before a task exists.
CreateFailsEarly(p) ==
  /\ Faults \cap {"stack_oom", "load_failed"} # {}
  /\ ClearedSlot(p)
  /\ registers' = Saved
  /\ UNCHANGED <<state, task_proc, queue, mode, steps>>

\* task_new returns 0, which process_new hands back as STATUS_OK with no process
\* stored.  process_add_arguments then reads the status of a null process: the
\* kzalloc that failed has just cleared that memory (see KHeap), so it reads
\* PROC_UNUSED, which is not the creating state it asks for.
CreateWithoutTask(p) ==
  /\ "task_oom" \in Faults
  /\ status' = status
  /\ parent_pid' = [parent_pid EXCEPT ![p] = 0]
  /\ pid' = [pid EXCEPT ![p] = p]
  /\ proc_task' = [proc_task EXCEPT ![p] = Null]
  /\ mode' = "not creating"
  /\ registers' = Saved
  /\ UNCHANGED <<state, task_proc, queue, steps>>

\* As if process_exit freed the task, so that it is linked again when reused.
FreshUnlessAlive(t) == t \in Members(queue) => state[t] = "DEAD"

\* The struct task that kzalloc gives is not one that is in the list.
Fresh(t) == t \notin Members(queue)

task_init(t, p) ==
  /\ state' = [state EXCEPT ![t] = "READY"]
  /\ task_proc' = [task_proc EXCEPT ![t] = p]
  /\ registers' = [Saved EXCEPT ![t] = 0]
  /\ steps' = [steps EXCEPT ![t] = 0]

\* The task exists, is ready and is in the list.  Then process_map_memory panics
\* at a segment that is longer in the file than in memory, or it fails; or the
\* arguments lie in the kernel, where copy_data_from_user panics, or are too long
\* for process_add_arguments; or the process can start.
LateFaults ==
  (Faults \cap {"bad_segment", "map_failed", "bad_pointer", "args_too_long"}) \cup {"none"}

StatusAfter(fault) == CASE fault \in {"bad_segment", "map_failed"}    -> "UNUSED"
                        [] fault \in {"bad_pointer", "args_too_long"} -> "CREATING"
                        [] fault = "none"                             -> "CAN_START"

CreateWithTask(p, t, fault) ==
  /\ Fresh(t)
  /\ task_init(t, p)
  /\ queue' = Append(queue, t)
  /\ pid' = [pid EXCEPT ![p] = p]
  /\ proc_task' = [proc_task EXCEPT ![p] = t]
  /\ status' = [status EXCEPT ![p] = StatusAfter(fault)]
  /\ parent_pid' = [parent_pid EXCEPT ![p] =
                      IF StatusAfter(fault) = "UNUSED" THEN 0 ELSE pid[task_proc[curr_task]]]
  /\ mode' = CASE fault = "bad_segment" -> "invalid segment"
               [] fault = "bad_pointer" -> "invalid user memory access"
               [] OTHER                 -> mode

OutOfProcs ==
  /\ \A p \in Pid : status[p] # "UNUSED"
  /\ registers' = Saved
  /\ UNCHANGED <<status, parent_pid, pid, proc_task, state, task_proc, queue, mode, steps>>

syscall_create_process ==
  /\ mode = "user"
  /\ \/ OutOfProcs
     \/ \E p \in Pid :
          /\ get_free_slot(p)
          /\ \/ CreateFailsEarly(p)
             \/ CreateWithoutTask(p)
             \/ \E t \in Task, fault \in LateFaults : CreateWithTask(p, t, fault)
  /\ UNCHANGED <<orphan, curr_task, current_proc, cr3, cpu>>

\* A system call that copies a string or a number from an address below
\* KHEAP_SAFE_BOUNDARY.
copy_data_from_user_panic ==
  /\ "bad_pointer" \in Faults
  /\ intr_80h_handler
  /\ mode' = "invalid user memory access"
  /\ UNCHANGED <<procVars, state, task_proc, queue, curr_task, current_proc,
                 cr3, cpu, steps>>

Next ==
  \/ user_step
  \/ idt_handle_clock
  \/ idt_handle_exception
  \/ syscall_exit
  \/ \E w \in Pid : syscall_wait_pid(w)
  \/ syscall_create_process
  \/ copy_data_from_user_panic

Spec == Init /\ [][Next]_vars

\* The timer keeps ticking, and user code cannot turn interrupts off: task_init
\* sets IF in eflags and the tasks run at ring 3 with IOPL 0.
FairSpec == Spec /\ WF_vars(idt_handle_clock)
-----------------------------------------------------------------------------
(* Properties *)

\* In user mode the CPU runs the one task that is marked running: it is in the
\* list, the loaded page table is its own, and current_proc is its process,
\* which can start.  Holds whatever fails.
UserModeConsistent ==
  mode = "user" =>
    /\ curr_task \in Members(queue)
    /\ \A t \in Members(queue) : state[t] = "RUNNING" <=> t = curr_task
    /\ cr3 = curr_task
    /\ current_proc = task_proc[curr_task]
    /\ status[current_proc] = "CAN_START"

\* No task is ever resumed with registers other than those it left user mode
\* with, however clock ticks, exits, exceptions and creations interleave.
ContextIntact ==
  mode = "user" =>
    /\ cpu = steps[curr_task]
    /\ \A t \in Members(queue) : t # curr_task => registers[t] = steps[t]

\* "single_task_per_process" (src/invariants.h): the tasks in the list and the
\* slots in use are one to one, so process_exit and process_reap act on the
\* task that runs the process; until the panic of process_map_elf, which halts
\* the kernel in the middle of a creation.
SingleTaskPerProcess ==
  mode # "invalid segment" =>
    /\ Distinct(queue)
    /\ \A t \in Members(queue) : proc_task[task_proc[t]] = t /\ status[task_proc[t]] # "UNUSED"
    /\ \A p \in Pid : status[p] # "UNUSED" =>
         proc_task[p] \in Members(queue) /\ task_proc[proc_task[p]] = p /\ pid[p] = p

\* A process is a zombie exactly as long as its task is dead and in the list:
\* process_reap never finds a live task, and a dead one is never lost.
ZombieIffDead ==
  \A t \in Members(queue) : state[t] = "DEAD" <=> status[task_proc[t]] = "ZOMBIE"

\* The kernel halts in panic only when the last live process has exited, when a
\* system call passes a pointer into the kernel, or when a program file has a
\* segment with p_filesz > p_memsz: never because its own tables disagree.  The
\* last two halt it while other processes are alive.
PanicsOnlyWithoutLiveTasks ==
  mode \in Panics \ {"invalid user memory access", "invalid segment"} =>
    mode = "deadlock" /\ \A t \in Members(queue) : state[t] = "DEAD"

\* A dead task is never run again before its memory is reused.
DeadStaysDead ==
  [][\A t \in Members(queue) \cap Members(queue') :
       state[t] = "DEAD" => state'[t] = "DEAD"]_vars

\* A slot in use keeps its pid, its parent and its task until the holder of the
\* parent pid reaps it as a zombie: creating processes never takes it over.
IdentityStable ==
  [][\A p \in Pid : status[p] # "UNUSED" =>
       \/ /\ status'[p] # "UNUSED"
          /\ pid'[p] = pid[p]
          /\ parent_pid'[p] = parent_pid[p]
          /\ proc_task'[p] = proc_task[p]
       \/ status[p] = "ZOMBIE" /\ pid[current_proc] = parent_pid[p]]_vars

\* Round robin: a ready task does not stay ready for ever, it gets the CPU,
\* unless the kernel stops first (or, after a creation that failed late, another
\* task of the same process takes it along when it exits).
ReadyTaskRuns ==
  \A t \in Task :
    (t \in Members(queue) /\ state[t] = "READY") ~> (state[t] # "READY" \/ mode # "user")

\* "run next task" (src/idt/idt.c): a clock tick ends with a task running.
ClockRunsATask == mode # "spin"

\* The check in set_current_process never fails.
OnlyStartableProcessesRun == mode # "process not ready"

\* The check in process_add_arguments never fails.
ArgumentsOnlyWhileCreating == mode # "not creating"

\* "Tries to reap if waitpid is my child and it is zombie" (src/task/process.c):
\* a process is reaped by the process that created it.
ReapsOnlyOwnChild ==
  [][\A p \in Pid : status[p] = "ZOMBIE" /\ status'[p] = "UNUSED" => ~orphan[p]]_vars
==============================================================================
