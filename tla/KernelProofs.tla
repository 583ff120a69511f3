----------------------------- MODULE KernelProofs ----------------------------
(***************************************************************************)
(* Proofs about Kernel and the task list under it, for every number of     *)
(* slots and tasks: what holds when creating a process fails only before   *)
(* its task exists (EarlyFaultsOnly), what holds whatever fails, and that  *)
(* the linked list of task.c is the sequence Kernel takes it for.          *)
(***************************************************************************)
EXTENDS KernelTasks, TLAPS

(* What the operators of TaskQueue return, for every sequence of tasks *)

\* The position of a member is one at which it stands.
LEMMA PositionOfMember ==
  ASSUME NEW T, NEW q \in Seq(T), NEW t \in Members(q)
  PROVE  PositionOf(q, t) \in 1..Len(q) /\ q[PositionOf(q, t)] = t
BY DEF Members, PositionOf

\* task_get_next stays in the list.
LEMMA SuccessorIsMember ==
  ASSUME NEW T, NEW q \in Seq(T), NEW t \in Members(q)
  PROVE  Successor(q, t) \in Members(q) /\ Successor(q, t) \in T
<1>1. PositionOf(q, t) \in 1..Len(q) /\ Len(q) \in Nat
  BY PositionOfMember
<1>2. \A i \in 1..Len(q) : q[i] \in Members(q) /\ q[i] \in T
  BY DEF Members
<1> QED
  BY <1>1, <1>2 DEF Successor

\* Linking a new task at the end adds it and nothing else.
LEMMA AppendMember ==
  ASSUME NEW T, NEW q \in Seq(T), NEW t \in T
  PROVE  /\ Append(q, t) \in Seq(T)
         /\ Members(Append(q, t)) = Members(q) \cup {t}
         /\ Distinct(q) /\ t \notin Members(q) => Distinct(Append(q, t))
<1>1. /\ Append(q, t) \in Seq(T)
      /\ Len(Append(q, t)) = Len(q) + 1
      /\ Len(q) \in Nat
      /\ \A i \in 1..Len(q) : Append(q, t)[i] = q[i]
      /\ Append(q, t)[Len(q) + 1] = t
  OBVIOUS
<1>2. Members(Append(q, t)) = Members(q) \cup {t}
  BY <1>1 DEF Members
<1>3. Distinct(q) /\ t \notin Members(q) => Distinct(Append(q, t))
  BY <1>1 DEF Members, Distinct
<1> QED
  BY <1>1, <1>2, <1>3

\* Where the tasks stand once t is unlinked.
LEMMA WithoutAt ==
  ASSUME NEW T, NEW q \in Seq(T), NEW t \in Members(q)
  PROVE  /\ PositionOf(q, t) \in 1..Len(q) /\ q[PositionOf(q, t)] = t
         /\ Without(q, t) \in Seq(T)
         /\ Len(Without(q, t)) = Len(q) - 1
         /\ \A i \in 1..(Len(q) - 1) :
              Without(q, t)[i] = IF i < PositionOf(q, t) THEN q[i] ELSE q[i + 1]
<1> DEFINE k == PositionOf(q, t)
           w == Without(q, t)
<1>1. /\ k \in 1..Len(q) /\ q[k] = t /\ Len(q) \in Nat
      /\ \A i \in 1..Len(q) : q[i] \in T
  BY PositionOfMember
<1>2. w = [i \in 1..(Len(q) - 1) |-> IF i < k THEN q[i] ELSE q[i + 1]]
  BY DEF Without
<1>3. w \in [1..(Len(q) - 1) -> T] /\ Len(q) - 1 \in Nat
  BY <1>1, <1>2
<1> QED
  BY <1>1, <1>2, <1>3

\* Unlinking a task removes it and nothing else.
LEMMA WithoutMember ==
  ASSUME NEW T, NEW q \in Seq(T), NEW t \in Members(q), Distinct(q)
  PROVE  /\ Without(q, t) \in Seq(T)
         /\ Members(Without(q, t)) = Members(q) \ {t}
         /\ Distinct(Without(q, t))
<1> DEFINE k == PositionOf(q, t)
           w == Without(q, t)
           from(i) == IF i < k THEN i ELSE i + 1
<1>1. /\ k \in 1..Len(q) /\ q[k] = t /\ Len(q) \in Nat
      /\ w \in Seq(T)
      /\ Len(w) = Len(q) - 1
      /\ \A i \in 1..(Len(q) - 1) : w[i] = IF i < k THEN q[i] ELSE q[i + 1]
  BY WithoutAt
<1>2. \A i \in 1..Len(q) : i # k => q[i] # t
  BY <1>1 DEF Distinct
<1>3. \A i \in 1..Len(w) : from(i) \in 1..Len(q) /\ from(i) # k /\ w[i] = q[from(i)]
  BY <1>1
<1>4. \A i, j \in 1..Len(w) : from(i) = from(j) => i = j
  BY <1>1
<1>5. Members(w) \subseteq Members(q) \ {t}
  <2>1. ASSUME NEW i \in 1..Len(w)
        PROVE  w[i] \in Members(q) /\ w[i] # t
    BY <1>2, <1>3 DEF Members
  <2> QED BY <2>1 DEF Members
<1>6. ASSUME NEW x \in Members(q), x # t
      PROVE  x \in Members(w)
  <2>1. PICK i \in 1..Len(q) : q[i] = x
    BY DEF Members
  <2>2. CASE i < k
    BY <2>1, <2>2, <1>1, SMTT(60) DEF Members
  <2>3. CASE i > k
    <3>1. i - 1 \in 1..(Len(q) - 1) /\ w[i - 1] = x
      BY <2>1, <2>3, <1>1
    <3> QED BY <3>1, <1>1 DEF Members
  <2> QED BY <2>1, <2>2, <2>3, <1>1, <1>6
<1>7. Distinct(w)
  <2> SUFFICES ASSUME NEW i \in 1..Len(w), NEW j \in 1..Len(w), w[i] = w[j]
               PROVE  i = j
    BY DEF Distinct
  <2>1. from(i) = from(j)
    BY <1>3 DEF Distinct
  <2> QED BY <2>1, <1>4
<1> QED
  BY <1>1, <1>5, <1>6, <1>7
-----------------------------------------------------------------------------
(* When creating a process fails only early *)

\* A creation fails before the task exists, or it halts the kernel.
EarlyFaultsOnly == Faults \subseteq {"stack_oom", "load_failed", "bad_segment", "bad_pointer"}

NoneCreating == mode = "user" => \A p \in Pid : status[p] # "CREATING"

\* The inductive invariant.  UserModeConsistent survives a switch because a
\* ready task belongs to a process that can start, which takes ZombieIffDead
\* and NoneCreating; those survive exit and reap because a process and its
\* task are one to one.
IInv ==
  /\ TypeOK
  /\ UserModeConsistent
  /\ ContextIntact
  /\ SingleTaskPerProcess
  /\ ZombieIffDead
  /\ NoneCreating
  /\ PanicsOnlyWithoutLiveTasks

\* The queue holds tasks (tasks_ll_head).
LEMMA MembersAreTasks ==
  ASSUME NEW q \in Seq(Task)
  PROVE  Members(q) \subseteq Task
BY DEF Members

\* The invariant holds once kernel_main has started the first task.
LEMMA InitInv == Init => IInv
<1> SUFFICES ASSUME Init PROVE IInv
  OBVIOUS
<1> USE KernelAssumption, TaskAssumption
<1>1. 0 \in Pid /\ curr_task \in Task /\ curr_task # Null
  BY DEF Init, Pid
<1>2. queue \in Seq(Task) /\ Len(queue) = 1 /\ queue[1] = curr_task
  BY <1>1 DEF Init
<1>3. Members(queue) = {curr_task} /\ Distinct(queue)
  BY <1>2 DEF Members, Distinct
<1>4. TypeOK
  BY <1>1, <1>2 DEF Init, TypeOK, Status, TaskState
<1>5. UserModeConsistent /\ ContextIntact
  BY <1>1, <1>3 DEF Init, UserModeConsistent, ContextIntact
<1>6. SingleTaskPerProcess /\ ZombieIffDead /\ NoneCreating
  BY <1>1, <1>3 DEF Init, SingleTaskPerProcess, ZombieIffDead, NoneCreating
<1>7. PanicsOnlyWithoutLiveTasks
  BY DEF Init, PanicsOnlyWithoutLiveTasks, Panics
<1> QED
  BY <1>4, <1>5, <1>6, <1>7 DEF IInv

\* What a state of user mode offers every handler.
LEMMA UserMode ==
  ASSUME IInv, mode = "user"
  PROVE  /\ curr_task \in Task /\ curr_task \in Members(queue)
         /\ state[curr_task] = "RUNNING"
         /\ current_proc = task_proc[curr_task] /\ current_proc \in Pid
         /\ status[current_proc] = "CAN_START"
         /\ proc_task[current_proc] = curr_task
         /\ Members(queue) \subseteq Task
         /\ \A t \in Members(queue) :
              /\ t # curr_task => state[t] \in {"READY", "DEAD"}
              /\ state[t] # "DEAD" => status[task_proc[t]] = "CAN_START"
<1>1. Members(queue) \subseteq Task
  BY MembersAreTasks DEF IInv, TypeOK
<1>2. curr_task \in Members(queue) /\ state[curr_task] = "RUNNING"
      /\ current_proc = task_proc[curr_task] /\ status[current_proc] = "CAN_START"
  BY DEF IInv, UserModeConsistent
<1>3. current_proc \in Pid /\ proc_task[current_proc] = curr_task
  BY <1>1, <1>2 DEF IInv, TypeOK, SingleTaskPerProcess
<1>4. \A t \in Members(queue) : t # curr_task => state[t] \in {"READY", "DEAD"}
  BY <1>1, <1>2 DEF IInv, TypeOK, TaskState, UserModeConsistent
<1>5. \A t \in Members(queue) : state[t] # "DEAD" => status[task_proc[t]] = "CAN_START"
  BY <1>1 DEF IInv, TypeOK, Status, ZombieIffDead, NoneCreating, SingleTaskPerProcess
<1> QED
  BY <1>1, <1>2, <1>3, <1>4, <1>5

\* A step of user code keeps the invariant.
LEMMA UserStepInv ==
  ASSUME IInv, user_step
  PROVE  IInv'
<1> USE KernelAssumption, TaskAssumption
<1>0. mode = "user" /\ curr_task \in Task /\ Members(queue) \subseteq Task
  BY UserMode DEF user_step
<1>1. /\ cpu' = cpu + 1 /\ cpu' \in 0..MaxSteps
      /\ steps' = [steps EXCEPT ![curr_task] = @ + 1]
      /\ UNCHANGED <<status, parent_pid, pid, proc_task, orphan, state, task_proc,
                     registers, queue, curr_task, current_proc, cr3, mode>>
  BY DEF user_step, procVars, IInv, TypeOK
<1>2. cpu = steps[curr_task]
  BY <1>0 DEF IInv, ContextIntact
<1>3. TypeOK'
  BY <1>0, <1>1, <1>2, Zenon DEF IInv, TypeOK
<1>4. ContextIntact'
  BY <1>0, <1>1, <1>2 DEF IInv, TypeOK, ContextIntact
<1>5. UserModeConsistent' /\ SingleTaskPerProcess' /\ ZombieIffDead'
      /\ NoneCreating' /\ PanicsOnlyWithoutLiveTasks'
  BY <1>1, ZenonT(40) DEF IInv, UserModeConsistent, SingleTaskPerProcess, ZombieIffDead,
              NoneCreating, PanicsOnlyWithoutLiveTasks
<1> QED
  BY <1>3, <1>4, <1>5 DEF IInv

\* A switch to t, after the handler left the current task ready or dead: the
\* CPU, the page table and the task states agree on t, and t has its registers.
LEMMA SwitchInv ==
  ASSUME IInv, mode = "user", registers' = Saved,
         NEW t \in Members(queue), NEW now \in {"READY", "DEAD"},
         state' = [[state EXCEPT ![curr_task] = now] EXCEPT ![t] = "RUNNING"],
         curr_task' = t, cpu' = registers'[t],
         UNCHANGED <<task_proc, queue, steps>>
  PROVE  /\ cpu' \in 0..MaxSteps
         /\ registers' \in [Task -> 0..MaxSteps]
         /\ state' \in [Task -> TaskState]
         /\ \A u \in Members(queue) : state'[u] = "RUNNING" <=> u = t
         /\ ContextIntact'
<1>1. /\ curr_task \in Task /\ t \in Task /\ state \in [Task -> TaskState]
      /\ Members(queue) \subseteq Task
      /\ \A u \in Members(queue) : u # curr_task => state[u] \in {"READY", "DEAD"}
      /\ registers \in [Task -> 0..MaxSteps] /\ cpu \in 0..MaxSteps
  BY UserMode DEF IInv, TypeOK
<1>2. state' \in [Task -> TaskState]
  BY <1>1 DEF TaskState
<1>3. \A u \in Members(queue) : state'[u] = "RUNNING" <=> u = t
  BY <1>1
<1>4. registers' = [registers EXCEPT ![curr_task] = cpu]
      /\ registers' \in [Task -> 0..MaxSteps]
  BY <1>1 DEF Saved
<1>5. \A u \in Members(queue) : registers'[u] = steps[u]
  BY <1>1, <1>4 DEF IInv, ContextIntact
<1>6. ContextIntact'
  BY <1>5 DEF ContextIntact
<1> QED
  BY <1>1, <1>2, <1>3, <1>4, <1>6

\* The clock: the task after the current one runs if it is ready; a dead one
\* stops the kernel, which keeps the invariant too.
LEMMA ClockInv ==
  ASSUME IInv, idt_handle_clock
  PROVE  IInv'
<1> DEFINE st == [state EXCEPT ![curr_task] = "READY"]
<1>0. /\ mode = "user" /\ registers' = Saved
      /\ UNCHANGED <<status, parent_pid, pid, proc_task, orphan, task_proc, queue, steps>>
      /\ task_switch_to_next_and_run
  BY DEF idt_handle_clock, task_save_current_state, procVars
<1>1. /\ curr_task \in Task /\ curr_task \in Members(queue)
      /\ state[curr_task] = "RUNNING"
      /\ Members(queue) \subseteq Task
      /\ \A t \in Members(queue) : state[t] # "DEAD" => status[task_proc[t]] = "CAN_START"
  BY <1>0, UserMode
<1>2. state \in [Task -> TaskState] /\ queue \in Seq(Task) /\ task_proc \in [Task -> Pid]
  BY DEF IInv, TypeOK
<1>3. PICK succ \in Members(queue) : succ = task_get_next /\ succ \in Task
  BY <1>1, <1>2, SuccessorIsMember DEF task_get_next
<1>4. Preempted(state) = st
  BY <1>1, <1>2 DEF Preempted
<1>5. \A t \in Members(queue) : st[t] = "DEAD" <=> state[t] = "DEAD"
  BY <1>1, <1>2
<1>6. SingleTaskPerProcess' /\ NoneCreating'
  BY <1>0 DEF IInv, SingleTaskPerProcess, NoneCreating
<1>7. CASE /\ succ = curr_task \/ st[succ] = "READY"
           /\ task_switch_and_run(succ, st, current_proc)
  <2>1. st[succ] = "READY"
    BY <1>1, <1>2, <1>7
  <2>2. state[succ] # "DEAD"
    BY <2>1, <1>1, <1>2, <1>3
  <2>3. status'[task_proc[succ]] = "CAN_START"
    BY <2>2, <1>0, <1>1, <1>3
  <2>4. /\ curr_task' = succ /\ cr3' = succ /\ current_proc' = task_proc[succ]
        /\ cpu' = registers'[succ] /\ mode' = mode
        /\ state' = [st EXCEPT ![succ] = "RUNNING"]
    <3>1. Preempted(st) = st
      BY <1>1, <1>2, Zenon DEF Preempted
    <3> QED BY <2>1, <2>3, <3>1, <1>7 DEF task_switch_and_run, paging_switch, task_return
  <2>5. /\ cpu' \in 0..MaxSteps
        /\ registers' \in [Task -> 0..MaxSteps]
        /\ state' \in [Task -> TaskState]
        /\ \A u \in Members(queue) : state'[u] = "RUNNING" <=> u = succ
        /\ ContextIntact'
    BY <2>1, <2>4, <1>0, <1>3, SwitchInv, Zenon
  <2>6. \A u \in Members(queue) : state'[u] = "DEAD" <=> st[u] = "DEAD"
    BY <2>1, <2>4, <1>1, <1>2
  <2>7. TypeOK'
    BY <2>4, <2>5, <1>0, <1>2, <1>3, Zenon DEF IInv, TypeOK
  <2>8. UserModeConsistent'
    BY <2>3, <2>4, <2>5, <1>0, <1>3, Zenon DEF UserModeConsistent
  <2>9. ZombieIffDead'
    BY <2>6, <1>0, <1>5 DEF IInv, ZombieIffDead
  <2>10. PanicsOnlyWithoutLiveTasks'
    BY <2>4, <1>0 DEF PanicsOnlyWithoutLiveTasks, Panics
  <2> QED BY <2>4, <2>5, <2>7, <2>8, <2>9, <2>10, <1>6 DEF IInv
<1>8. CASE /\ mode' = "spin" /\ state' = st
           /\ UNCHANGED <<curr_task, current_proc, cr3, cpu>>
  <2>1. registers' \in [Task -> 0..MaxSteps] /\ state' \in [Task -> TaskState]
    BY <1>0, <1>1, <1>2, <1>8 DEF IInv, TypeOK, Saved, TaskState
  <2>2. TypeOK'
    BY <2>1, <1>0, <1>8 DEF IInv, TypeOK
  <2>3. UserModeConsistent' /\ ContextIntact' /\ PanicsOnlyWithoutLiveTasks'
    BY <1>8 DEF UserModeConsistent, ContextIntact, PanicsOnlyWithoutLiveTasks, Panics
  <2>4. ZombieIffDead'
    BY <1>0, <1>5, <1>8 DEF IInv, ZombieIffDead
  <2> QED BY <2>2, <2>3, <2>4, <1>6 DEF IInv
<1> QED
  BY <1>0, <1>3, <1>4, <1>7, <1>8 DEF task_switch_to_next_and_run

\* Exit and exception: the process and its task die together, and the task that
\* runs succ belongs to another process.
LEMMA ExitInv ==
  ASSUME IInv, task_save_current_state, process_exit
  PROVE  IInv'
<1> DEFINE p == task_proc[curr_task]
           st == [state EXCEPT ![curr_task] = "DEAD"]
           proc == IF p = current_proc THEN Null ELSE current_proc
<1>0. /\ mode = "user" /\ registers' = Saved
      /\ curr_task \in Task /\ curr_task \in Members(queue)
      /\ p \in Pid /\ proc_task[p] = curr_task /\ p = current_proc
      /\ Members(queue) \subseteq Task
      /\ \A t \in Members(queue) :
              /\ t # curr_task => state[t] \in {"READY", "DEAD"}
              /\ state[t] # "DEAD" => status[task_proc[t]] = "CAN_START"
  BY UserMode DEF task_save_current_state
<1>1. /\ status' = [status EXCEPT ![p] = "ZOMBIE"]
      /\ task_switch_and_run_any(st, proc)
      /\ UNCHANGED <<parent_pid, pid, proc_task, orphan, task_proc, queue, steps>>
  BY <1>0 DEF process_exit, Killed
<1>2. /\ state \in [Task -> TaskState] /\ queue \in Seq(Task) /\ task_proc \in [Task -> Pid]
      /\ status \in [Pid -> Status] /\ status' \in [Pid -> Status]
  BY <1>1, Zenon DEF IInv, TypeOK, Status
<1>3. \A t \in Members(queue) : /\ t = curr_task <=> task_proc[t] = p
                                /\ task_proc[t] \in Pid
  BY <1>0, <1>2 DEF IInv, SingleTaskPerProcess
<1>4. SingleTaskPerProcess'
  <2>0. status[p] # "UNUSED" /\ p \in Pid
    BY <1>0, UserMode, Zenon
  <2>1. \A r \in Pid : status'[r] # "UNUSED" <=> status[r] # "UNUSED"
    BY <1>1, <1>2, <2>0
  <2>2. /\ Distinct(queue)
        /\ \A t \in Members(queue) : proc_task[task_proc[t]] = t /\ status[task_proc[t]] # "UNUSED"
        /\ \A r \in Pid : status[r] # "UNUSED" =>
             proc_task[r] \in Members(queue) /\ task_proc[proc_task[r]] = r /\ pid[r] = r
    BY <1>0 DEF IInv, SingleTaskPerProcess
  <2>3. \A t \in Members(queue) : status'[task_proc[t]] # "UNUSED"
    BY <1>3, <2>1, <2>2
  <2> QED BY <1>1, <2>1, <2>2, <2>3 DEF SingleTaskPerProcess
<1>5. NoneCreating'
  BY <1>0, <1>1, <1>2 DEF IInv, NoneCreating
<1>6. \A t \in Members(queue) : st[t] = "DEAD" <=> status'[task_proc[t]] = "ZOMBIE"
  BY <1>0, <1>1, <1>2, <1>3 DEF IInv, ZombieIffDead
<1>7. ASSUME NEW t \in Task, IsFirstReady(t, st), task_switch_and_run(t, st, proc)
      PROVE  IInv'
  <2>1. t \in Members(queue) /\ st[t] = "READY"
    BY <1>7 DEF IsFirstReady, Members
  <2>2. t # curr_task /\ state[t] # "DEAD"
    BY <2>1, <1>0, <1>2
  <2>3. status'[task_proc[t]] = "CAN_START"
    BY <2>1, <2>2, <1>0, <1>1, <1>2, <1>3
  <2>4. /\ curr_task' = t /\ cr3' = t /\ current_proc' = task_proc[t]
        /\ cpu' = registers'[t] /\ mode' = mode
        /\ state' = [st EXCEPT ![t] = "RUNNING"]
    <3>1. Preempted(st) = st
      BY <1>0, <1>2, Zenon DEF Preempted
    <3> QED BY <2>1, <2>3, <3>1, <1>7 DEF task_switch_and_run, paging_switch, task_return
  <2>5. /\ cpu' \in 0..MaxSteps
        /\ registers' \in [Task -> 0..MaxSteps]
        /\ state' \in [Task -> TaskState]
        /\ \A u \in Members(queue) : state'[u] = "RUNNING" <=> u = t
        /\ ContextIntact'
    BY <2>1, <2>4, <1>0, <1>1, SwitchInv, Zenon
  <2>6. \A u \in Members(queue) : state'[u] = "DEAD" <=> st[u] = "DEAD"
    BY <2>1, <2>4, <1>0, <1>2
  <2>7. TypeOK'
    BY <2>4, <2>5, <1>1, <1>2, Zenon DEF IInv, TypeOK
  <2>8. UserModeConsistent'
    BY <2>1, <2>3, <2>4, <2>5, <1>1, Zenon DEF UserModeConsistent
  <2>9. ZombieIffDead'
    <3>1. queue' = queue /\ task_proc' = task_proc
      BY <1>1
    <3> HIDE DEF st
    <3> QED BY <2>6, <3>1, <1>6 DEF ZombieIffDead
  <2>10. PanicsOnlyWithoutLiveTasks'
    BY <2>4, <1>0 DEF PanicsOnlyWithoutLiveTasks, Panics
  <2> QED BY <2>4, <2>5, <2>7, <2>8, <2>9, <2>10, <1>4, <1>5 DEF IInv
<1>8. CASE /\ \A t \in Members(queue) : st[t] # "READY"
           /\ mode' = "deadlock" /\ state' = st /\ current_proc' = proc
           /\ UNCHANGED <<curr_task, cr3, cpu>>
  <2>1. \A t \in Members(queue) : st[t] = "DEAD"
    BY <1>0, <1>2, <1>8
  <2>2. registers' \in [Task -> 0..MaxSteps] /\ state' \in [Task -> TaskState]
    BY <1>0, <1>2, <1>8 DEF IInv, TypeOK, Saved, TaskState
  <2>3. TypeOK'
    BY <2>2, <1>1, <1>2, <1>8, Zenon DEF IInv, TypeOK, Panics
  <2>4. UserModeConsistent' /\ ContextIntact' /\ PanicsOnlyWithoutLiveTasks'
    BY <2>1, <1>1, <1>8 DEF UserModeConsistent, ContextIntact, PanicsOnlyWithoutLiveTasks
  <2>5. ZombieIffDead'
    BY <1>1, <1>6, <1>8 DEF ZombieIffDead
  <2> QED BY <2>3, <2>4, <2>5, <1>4, <1>5 DEF IInv
<1> QED
  BY <1>1, <1>7, <1>8, Zenon DEF task_switch_and_run_any

\* A call that only saves the frame of the current task.
LEMMA SaveInv ==
  ASSUME IInv, task_save_current_state,
         UNCHANGED <<status, parent_pid, pid, proc_task, orphan, state, task_proc,
                     queue, curr_task, current_proc, cr3, cpu, mode, steps>>
  PROVE  IInv'
<1>0. mode = "user" /\ registers' = Saved /\ curr_task \in Task /\ curr_task \in Members(queue)
  BY UserMode DEF task_save_current_state
<1>1. registers' = [registers EXCEPT ![curr_task] = cpu]
      /\ registers' \in [Task -> 0..MaxSteps]
  BY <1>0 DEF Saved, IInv, TypeOK
<1>2. TypeOK'
  BY <1>1 DEF IInv, TypeOK
<1>3. ContextIntact'
  BY <1>0, <1>1, MembersAreTasks DEF IInv, TypeOK, ContextIntact
<1>4. UserModeConsistent' /\ SingleTaskPerProcess' /\ ZombieIffDead'
      /\ NoneCreating' /\ PanicsOnlyWithoutLiveTasks'
  BY Zenon DEF IInv, UserModeConsistent, SingleTaskPerProcess, ZombieIffDead,
         NoneCreating, PanicsOnlyWithoutLiveTasks
<1> QED
  BY <1>2, <1>3, <1>4 DEF IInv

\* Reaping: the task of a zombie is dead and is not the one that runs, and no
\* other process loses its task.
LEMMA ReapInv ==
  ASSUME IInv, task_save_current_state,
         NEW q \in Pid, status[q] = "ZOMBIE", process_reap(q),
         UNCHANGED <<state, task_proc, current_proc, cr3, cpu, steps>>
  PROVE  IInv'
<1> DEFINE t == proc_task[q]
<1>0. /\ mode = "user" /\ registers' = Saved
      /\ curr_task \in Task /\ curr_task \in Members(queue)
      /\ state[curr_task] = "RUNNING"
      /\ current_proc = task_proc[curr_task] /\ current_proc \in Pid
      /\ status[current_proc] = "CAN_START"
      /\ Members(queue) \subseteq Task
  BY UserMode, Zenon DEF task_save_current_state
<1>1. /\ t \in Members(queue) /\ task_proc[t] = q /\ state[t] = "DEAD" /\ t # curr_task
      /\ Distinct(queue)
  BY <1>0 DEF IInv, SingleTaskPerProcess, ZombieIffDead
<1>2. /\ queue' = Without(queue, t) /\ curr_task' = curr_task /\ mode' = mode
      /\ status' = [status EXCEPT ![q] = "UNUSED"]
      /\ parent_pid' = [parent_pid EXCEPT ![q] = 0]
      /\ pid' = [pid EXCEPT ![q] = 0]
      /\ proc_task' = [proc_task EXCEPT ![q] = Null]
      /\ orphan' \in [Pid -> BOOLEAN]
  <2>1. ClearedSlot(q) /\ queue' = Without(queue, t) /\ curr_task' = curr_task /\ mode' = mode
    BY <1>1 DEF process_reap
  <2>2. orphan' \in [Pid -> BOOLEAN]
    BY <1>1, Zenon DEF process_reap
  <2> QED BY <2>1, <2>2, Zenon DEF ClearedSlot
<1>3. /\ queue' \in Seq(Task)
      /\ Members(queue') = Members(queue) \ {t}
      /\ Distinct(queue')
  BY <1>1, <1>2, WithoutMember DEF IInv, TypeOK
<1>4. registers' = [registers EXCEPT ![curr_task] = cpu]
      /\ registers' \in [Task -> 0..MaxSteps]
  BY <1>0 DEF Saved, IInv, TypeOK
<1>5. \A u \in Members(queue') : u \in Members(queue) /\ u \in Task
                                /\ task_proc[u] # q /\ task_proc[u] \in Pid
  BY <1>0, <1>3, Zenon DEF IInv, TypeOK, SingleTaskPerProcess
<1>6. TypeOK'
  <2>1. 0 \in Pid
    BY KernelAssumption, TaskAssumption DEF Pid
  <2> QED BY <2>1, <1>2, <1>3, <1>4, Zenon DEF IInv, TypeOK, Status
<1>7. UserModeConsistent'
  <2>1. curr_task \in Members(queue')
    BY <1>0, <1>1, <1>3, Zenon
  <2>2. status'[current_proc] = "CAN_START"
    BY <1>0, <1>2 DEF IInv, TypeOK
  <2> QED BY <2>1, <2>2, <1>0, <1>2, <1>5, Zenon DEF IInv, UserModeConsistent
<1>8. ContextIntact'
  BY <1>0, <1>2, <1>4, <1>5, ZenonT(40) DEF IInv, TypeOK, ContextIntact
<1>9. SingleTaskPerProcess'
  <2>1. ASSUME NEW u \in Members(queue')
        PROVE  proc_task'[task_proc[u]] = u /\ status'[task_proc[u]] # "UNUSED"
    BY <1>0, <1>2, <1>5, SMTT(40) DEF IInv, TypeOK, SingleTaskPerProcess
  <2>2. ASSUME NEW p \in Pid, status'[p] # "UNUSED"
        PROVE  /\ proc_task'[p] \in Members(queue')
               /\ task_proc[proc_task'[p]] = p /\ pid'[p] = p
    <3>1. p # q
      BY <2>2, <1>2, Zenon DEF IInv, TypeOK
    <3>2. status[p] # "UNUSED" /\ proc_task'[p] = proc_task[p] /\ pid'[p] = pid[p]
      BY <2>2, <3>1, <1>2, ZenonT(40) DEF IInv, TypeOK
    <3>3. proc_task[p] \in Members(queue) /\ task_proc[proc_task[p]] = p /\ pid[p] = p
      BY <1>0, <3>2, SMTT(40) DEF IInv, SingleTaskPerProcess
    <3> QED BY <3>1, <3>2, <3>3, <1>1, <1>3
  <2> QED BY <2>1, <2>2, <1>3, Zenon DEF SingleTaskPerProcess
<1>10. ZombieIffDead'
  BY <1>2, <1>5 DEF IInv, TypeOK, ZombieIffDead
<1>11. NoneCreating' /\ PanicsOnlyWithoutLiveTasks'
  BY <1>0, <1>2 DEF IInv, TypeOK, NoneCreating, PanicsOnlyWithoutLiveTasks, Panics
<1> QED
  BY <1>6, <1>7, <1>8, <1>9, <1>10, <1>11 DEF IInv

\* syscall_wait_pid keeps the invariant.
LEMMA WaitPidInv ==
  ASSUME IInv, NEW w \in Pid, syscall_wait_pid(w)
  PROVE  IInv'
<1>1. ASSUME NEW q \in Pid, Reapable(w, q), process_reap(q)
      PROVE  IInv'
  BY <1>1, ReapInv DEF syscall_wait_pid, intr_80h_handler, Reapable
<1>2. CASE UNCHANGED <<procVars, queue, curr_task, mode>>
  BY <1>2, SaveInv DEF syscall_wait_pid, intr_80h_handler, procVars
<1> QED
  BY <1>1, <1>2, Zenon DEF syscall_wait_pid

\* A creation that fails before the task exists clears a slot that was unused.
LEMMA CreateFailsEarlyInv ==
  ASSUME IInv, mode = "user", NEW p \in Pid, status[p] = "UNUSED", CreateFailsEarly(p),
         UNCHANGED <<orphan, curr_task, current_proc, cr3, cpu>>
  PROVE  IInv'
<1>0. /\ curr_task \in Task /\ Members(queue) \subseteq Task
      /\ current_proc = task_proc[curr_task] /\ status[current_proc] = "CAN_START"
      /\ current_proc \in Pid
  BY UserMode
<1>1. /\ status' = status
      /\ parent_pid' = [parent_pid EXCEPT ![p] = 0]
      /\ pid' = [pid EXCEPT ![p] = 0]
      /\ proc_task' = [proc_task EXCEPT ![p] = Null]
      /\ registers' = Saved
      /\ UNCHANGED <<state, task_proc, queue, mode, steps>>
  BY Zenon DEF CreateFailsEarly, ClearedSlot, IInv, TypeOK
<1>2. registers' = [registers EXCEPT ![curr_task] = cpu]
      /\ registers' \in [Task -> 0..MaxSteps]
  BY <1>0, <1>1 DEF Saved, IInv, TypeOK
<1>3. TypeOK'
  <2>1. 0 \in Pid
    BY KernelAssumption, TaskAssumption, SMTT(30) DEF Pid
  <2> QED BY <2>1, <1>1, <1>2 DEF IInv, TypeOK
<1>4. UserModeConsistent' /\ ZombieIffDead' /\ NoneCreating' /\ PanicsOnlyWithoutLiveTasks'
  BY <1>1 DEF IInv, UserModeConsistent, ZombieIffDead, NoneCreating,
              PanicsOnlyWithoutLiveTasks
<1>5. ContextIntact'
  BY <1>0, <1>1, <1>2 DEF IInv, TypeOK, ContextIntact
<1>6. SingleTaskPerProcess'
  <2>1. \A r \in Pid : status[r] # "UNUSED" => proc_task'[r] = proc_task[r] /\ pid'[r] = pid[r]
    BY <1>1 DEF IInv, TypeOK
  <2>2. \A t \in Members(queue) : task_proc[t] \in Pid /\ status[task_proc[t]] # "UNUSED"
    BY <1>0 DEF IInv, TypeOK, SingleTaskPerProcess
  <2> QED BY <2>1, <2>2, <1>1, Zenon DEF IInv, SingleTaskPerProcess
<1> QED
  BY <1>3, <1>4, <1>5, <1>6 DEF IInv

\* A creation that succeeds, or that halts the kernel: the new task and its
\* process are each other's, and no task already in the list is touched.
LEMMA CreateWithTaskInv ==
  ASSUME IInv, mode = "user", NEW p \in Pid, status[p] = "UNUSED",
         NEW t \in Task, NEW fault \in {"none", "bad_segment", "bad_pointer"},
         CreateWithTask(p, t, fault),
         UNCHANGED <<orphan, curr_task, current_proc, cr3, cpu>>
  PROVE  IInv'
<1> DEFINE s == StatusAfter(fault)
           par == IF s = "UNUSED" THEN 0 ELSE pid[current_proc]
<1>s. /\ s \in {"UNUSED", "CREATING", "CAN_START"}
      /\ s = "UNUSED" <=> fault = "bad_segment"
      /\ s = "CREATING" <=> fault = "bad_pointer"
  BY SMTT(40) DEF StatusAfter
<1>0. /\ curr_task \in Task /\ curr_task \in Members(queue)
      /\ Members(queue) \subseteq Task
      /\ current_proc = task_proc[curr_task] /\ status[current_proc] = "CAN_START"
      /\ current_proc \in Pid
  BY UserMode
<1>1. /\ t \notin Members(queue)
      /\ state' = [state EXCEPT ![t] = "READY"]
      /\ task_proc' = [task_proc EXCEPT ![t] = p]
      /\ registers' = [[registers EXCEPT ![curr_task] = cpu] EXCEPT ![t] = 0]
      /\ queue' = Append(queue, t)
      /\ steps' = [steps EXCEPT ![t] = 0]
      /\ pid' = [pid EXCEPT ![p] = p]
      /\ proc_task' = [proc_task EXCEPT ![p] = t]
      /\ status' = [status EXCEPT ![p] = s]
      /\ parent_pid' = [parent_pid EXCEPT ![p] = par]
      /\ mode' = CASE fault = "bad_segment" -> "invalid segment"
                   [] fault = "bad_pointer" -> "invalid user memory access"
                   [] OTHER -> "user"
  BY <1>0 DEF CreateWithTask, task_init, Fresh, Saved
<1>m. /\ fault = "none" => mode' = "user"
      /\ fault = "bad_segment" => mode' = "invalid segment"
      /\ fault = "bad_pointer" => mode' = "invalid user memory access"
  BY <1>1
<1> HIDE DEF s, par
<1>2. /\ queue' \in Seq(Task)
      /\ Members(queue') = Members(queue) \cup {t}
      /\ Distinct(queue')
  <2>1. Distinct(queue) /\ queue \in Seq(Task)
    BY Zenon DEF IInv, TypeOK, SingleTaskPerProcess
  <2> QED BY <1>1, <2>1, AppendMember, ZenonT(40)
<1>3. TypeOK'
  <2>0. par \in Pid
    <3>1. 0 \in Pid
      BY KernelAssumption DEF Pid
    <3>2. pid[current_proc] \in Pid
      BY <1>0 DEF IInv, TypeOK
    <3> QED BY <3>1, <3>2 DEF par
  <2>1. /\ status' \in [Pid -> Status] /\ parent_pid' \in [Pid -> Pid] /\ pid' \in [Pid -> Pid]
        /\ proc_task' \in [Pid -> Task \cup {Null}]
    BY <1>s, <1>1, <2>0 DEF IInv, TypeOK, Status
  <2>2. state' \in [Task -> TaskState] /\ task_proc' \in [Task -> Pid]
    BY <1>1 DEF IInv, TypeOK, TaskState
  <2>3. registers' \in [Task -> 0..MaxSteps] /\ steps' \in [Task -> 0..MaxSteps]
    <3>1. 0 \in 0..MaxSteps /\ cpu \in 0..MaxSteps
      BY KernelAssumption, TaskAssumption DEF IInv, TypeOK
    <3> DEFINE V == 0..MaxSteps
               saved == [registers EXCEPT ![curr_task] = cpu]
    <3>2. registers \in [Task -> V] /\ steps \in [Task -> V] /\ 0 \in V /\ cpu \in V
      BY <3>1, Zenon DEF IInv, TypeOK
    <3> HIDE DEF V
    <3>3. saved \in [Task -> V]
      BY <3>2, <1>0
    <3> HIDE DEF saved
    <3>4. [saved EXCEPT ![t] = 0] \in [Task -> V] /\ [steps EXCEPT ![t] = 0] \in [Task -> V]
      BY <3>2, <3>3, Zenon
    <3> QED BY <3>4, <1>1 DEF V, saved
  <2>4. mode' \in {"user", "spin"} \cup Panics
    BY <1>m DEF Panics
  <2> QED BY <2>1, <2>2, <2>3, <2>4, <1>2, Zenon DEF IInv, TypeOK
<1>4. \A u \in Members(queue) :
        /\ u # t /\ task_proc'[u] = task_proc[u] /\ state'[u] = state[u]
        /\ steps'[u] = steps[u] /\ task_proc[u] \in Pid
        /\ task_proc[u] # p /\ status'[task_proc[u]] = status[task_proc[u]]
  <2>1. \A u \in Members(queue) : status[task_proc[u]] # "UNUSED"
    BY Zenon DEF IInv, SingleTaskPerProcess
  <2> QED BY <1>0, <1>1, <2>1 DEF IInv, TypeOK
<1>5. /\ task_proc'[t] = p /\ state'[t] = "READY" /\ steps'[t] = 0 /\ registers'[t] = 0
      /\ status'[p] = s /\ proc_task'[p] = t /\ pid'[p] = p
  BY <1>0, <1>1 DEF IInv, TypeOK
<1>6. UserModeConsistent'
  BY <1>0, <1>1, <1>2, <1>4, <1>5 DEF IInv, UserModeConsistent
<1>7. ContextIntact'
  <2>1. \A u \in Members(queue) : u # curr_task => registers'[u] = registers[u]
    BY <1>0, <1>1 DEF IInv, TypeOK
  <2>2. cpu = steps[curr_task] /\ \A u \in Members(queue) : u # curr_task => registers[u] = steps[u]
    BY DEF IInv, ContextIntact
  <2>3. cpu = steps'[curr_task]
        /\ \A u \in Members(queue') : u # curr_task => registers'[u] = steps'[u]
    BY <2>1, <2>2, <1>0, <1>2, <1>4, <1>5, Zenon
  <2> QED BY <2>3 DEF ContextIntact
<1>8. SingleTaskPerProcess'
  <2> SUFFICES ASSUME mode' # "invalid segment" PROVE SingleTaskPerProcess'
    BY DEF SingleTaskPerProcess
  <2>0. s # "UNUSED"
    BY <1>s, <1>m
  <2>1. ASSUME NEW u \in Members(queue')
        PROVE  proc_task'[task_proc'[u]] = u /\ status'[task_proc'[u]] # "UNUSED"
    <3>1. CASE u = t
      BY <2>0, <3>1, <1>5
    <3>2. CASE u \in Members(queue)
      <4>1. proc_task[task_proc[u]] = u /\ status[task_proc[u]] # "UNUSED"
        BY <3>2, Zenon DEF IInv, SingleTaskPerProcess
      <4> QED BY <3>2, <4>1, <1>1, <1>4 DEF IInv, TypeOK
    <3> QED BY <3>1, <3>2, <1>2, Zenon
  <2>2. ASSUME NEW r \in Pid, status'[r] # "UNUSED"
        PROVE  /\ proc_task'[r] \in Members(queue')
               /\ task_proc'[proc_task'[r]] = r /\ pid'[r] = r
    <3>1. CASE r = p
      BY <3>1, <1>2, <1>5, Zenon
    <3>2. CASE r # p
      <4>1. status[r] # "UNUSED" /\ proc_task'[r] = proc_task[r] /\ pid'[r] = pid[r]
        BY <2>2, <3>2, <1>1, ZenonT(40) DEF IInv, TypeOK
      <4>2. proc_task[r] \in Members(queue) /\ task_proc[proc_task[r]] = r /\ pid[r] = r
        BY <4>1, Zenon DEF IInv, SingleTaskPerProcess
      <4> QED BY <4>1, <4>2, <1>2, <1>4
    <3> QED BY <3>1, <3>2, Zenon
  <2> QED BY <2>1, <2>2, <1>2 DEF SingleTaskPerProcess
<1>9. ZombieIffDead'
  <2> SUFFICES ASSUME NEW u \in Members(queue')
               PROVE  state'[u] = "DEAD" <=> status'[task_proc'[u]] = "ZOMBIE"
    BY DEF ZombieIffDead
  <2>1. CASE u = t
    BY <2>1, <1>s, <1>5
  <2>2. CASE u \in Members(queue)
    BY <2>2, <1>4 DEF IInv, ZombieIffDead
  <2> QED BY <2>1, <2>2, <1>2
<1>10. NoneCreating'
  <2>1. ASSUME mode' = "user" PROVE s = "CAN_START"
    BY <2>1, <1>s, <1>m
  <2> QED BY <2>1, <1>1 DEF IInv, TypeOK, NoneCreating
<1>11. PanicsOnlyWithoutLiveTasks'
  BY <1>m DEF PanicsOnlyWithoutLiveTasks, Panics
<1> QED
  BY <1>11, <1>3, <1>6, <1>7, <1>8, <1>9, <1>10, Zenon DEF IInv

\* syscall_create_process keeps the invariant, on each of its paths.
LEMMA CreateInv ==
  ASSUME EarlyFaultsOnly, IInv, syscall_create_process
  PROVE  IInv'
<1>0. mode = "user" /\ UNCHANGED <<orphan, curr_task, current_proc, cr3, cpu>>
  BY DEF syscall_create_process
<1>1. CASE OutOfProcs
  BY <1>0, <1>1, SaveInv DEF OutOfProcs, task_save_current_state
<1>2. ASSUME NEW p \in Pid, get_free_slot(p), CreateFailsEarly(p)
      PROVE  IInv'
  BY <1>0, <1>2, CreateFailsEarlyInv DEF get_free_slot
<1>3. ASSUME NEW p \in Pid, get_free_slot(p), NEW t \in Task, NEW fault \in LateFaults,
             CreateWithTask(p, t, fault)
      PROVE  IInv'
  <2>1. fault \in {"none", "bad_segment", "bad_pointer"}
    BY DEF LateFaults, EarlyFaultsOnly
  <2> QED BY <2>1, <1>0, <1>3, CreateWithTaskInv DEF get_free_slot
<1>4. ASSUME NEW p \in Pid, CreateWithoutTask(p)
      PROVE  FALSE
  BY <1>4 DEF CreateWithoutTask, EarlyFaultsOnly
<1> QED
  BY <1>1, <1>2, <1>3, <1>4 DEF syscall_create_process

\* Every step of the kernel keeps the invariant.
LEMMA NextInv ==
  ASSUME EarlyFaultsOnly, IInv, [Next]_vars
  PROVE  IInv'
<1>1. CASE user_step
  BY <1>1, UserStepInv
<1>2. CASE idt_handle_clock
  BY <1>2, ClockInv
<1>3. CASE idt_handle_exception
  BY <1>3, ExitInv DEF idt_handle_exception
<1>4. CASE syscall_exit
  BY <1>4, ExitInv DEF syscall_exit, intr_80h_handler
<1>5. ASSUME NEW w \in Pid, syscall_wait_pid(w)
      PROVE  IInv'
  BY <1>5, WaitPidInv
<1>6. CASE syscall_create_process
  BY <1>6, CreateInv
<1>7. CASE copy_data_from_user_panic
  <2>1. /\ mode = "user" /\ registers' = Saved /\ mode' = "invalid user memory access"
        /\ UNCHANGED <<status, parent_pid, pid, proc_task, orphan, state, task_proc, queue,
                        curr_task, current_proc, cr3, cpu, steps>>
    BY <1>7 DEF copy_data_from_user_panic, intr_80h_handler, task_save_current_state, procVars
  <2>2. TypeOK'
    BY <2>1, UserMode, Zenon DEF Saved, IInv, TypeOK, Panics
  <2>3. UserModeConsistent' /\ ContextIntact' /\ PanicsOnlyWithoutLiveTasks'
    BY <2>1, Zenon DEF UserModeConsistent, ContextIntact, PanicsOnlyWithoutLiveTasks
  <2>4. SingleTaskPerProcess' /\ ZombieIffDead' /\ NoneCreating'
    BY <2>1, Zenon DEF IInv, SingleTaskPerProcess, ZombieIffDead, NoneCreating
  <2> QED BY <2>2, <2>3, <2>4 DEF IInv
<1>8. CASE UNCHANGED vars
  BY <1>8, ZenonT(40) DEF vars, procVars, cpuVars, IInv, TypeOK, UserModeConsistent, ContextIntact,
              SingleTaskPerProcess, ZombieIffDead, NoneCreating, PanicsOnlyWithoutLiveTasks
<1> QED
  BY <1>1, <1>2, <1>3, <1>4, <1>5, <1>6, <1>7, <1>8 DEF Next

\* For any number of processes and tasks, when creations fail only before the
\* task exists or by halting the kernel: the CPU always runs the one running task
\* under its own page table and its own registers; processes and tasks stay one
\* to one, but for the creation that an invalid segment cuts short; a zombie is
\* exactly a process whose task is dead; and the kernel panics only when no live
\* task is left, a system call passes a pointer into the kernel, or a program
\* file has a segment with p_filesz > p_memsz.
THEOREM KernelSafety ==
  ASSUME EarlyFaultsOnly
  PROVE  Spec => [](/\ TypeOK /\ UserModeConsistent /\ ContextIntact
                    /\ SingleTaskPerProcess /\ ZombieIffDead
                    /\ PanicsOnlyWithoutLiveTasks)
<1>1. IInv /\ [Next]_vars => IInv'
  BY NextInv
<1>2. IInv => /\ TypeOK /\ UserModeConsistent /\ ContextIntact
              /\ SingleTaskPerProcess /\ ZombieIffDead
              /\ PanicsOnlyWithoutLiveTasks
  BY DEF IInv
<1> QED
  BY InitInv, <1>1, <1>2, PTL DEF Spec
-----------------------------------------------------------------------------
(* Whatever fails: for every set Faults *)

\* A slot in use has a task of its own, which is in the list.
SlotTasks ==
  /\ \A p \in Pid : status[p] # "UNUSED" => proc_task[p] \in Members(queue)
  /\ \A p, r \in Pid :
       status[p] # "UNUSED" /\ status[r] # "UNUSED" /\ proc_task[p] = proc_task[r] => p = r

\* The inductive invariant.  After a creation that failed late a task may belong
\* to a slot that is unused or that was taken again, so tasks and slots are not
\* one to one; what is left is that slots have different tasks, and that is
\* enough for a reap to remove a task that is not the running one.
FInv ==
  /\ TypeOK
  /\ UserModeConsistent
  /\ ContextIntact
  /\ Distinct(queue)
  /\ SlotTasks

\* What DeadStaysDead and IdentityStable say of one step.
DeadKept ==
  \A t \in Members(queue) \cap Members(queue') : state[t] = "DEAD" => state'[t] = "DEAD"

IdentityKept ==
  \A p \in Pid : status[p] # "UNUSED" =>
    \/ /\ status'[p] # "UNUSED"
       /\ pid'[p] = pid[p]
       /\ parent_pid'[p] = parent_pid[p]
       /\ proc_task'[p] = proc_task[p]
    \/ status[p] = "ZOMBIE" /\ pid[current_proc] = parent_pid[p]

StepOK == FInv' /\ DeadKept /\ IdentityKept

\* The invariant holds once kernel_main has started the first task.
LEMMA InitFInv == Init => FInv
<1> SUFFICES ASSUME Init PROVE FInv
  OBVIOUS
<1> USE KernelAssumption, TaskAssumption
<1>1. 0 \in Pid /\ curr_task \in Task /\ curr_task # Null
  BY DEF Init, Pid
<1>2. queue \in Seq(Task) /\ Len(queue) = 1 /\ queue[1] = curr_task
  BY <1>1 DEF Init
<1>3. Members(queue) = {curr_task} /\ Distinct(queue)
  BY <1>2, SMTT(30) DEF Members, Distinct
<1>4. TypeOK
  BY <1>1, <1>2 DEF Init, TypeOK, Status, TaskState
<1>5. UserModeConsistent /\ ContextIntact
  BY <1>1, <1>3 DEF Init, UserModeConsistent, ContextIntact
<1>6. SlotTasks
  BY <1>1, <1>3 DEF Init, SlotTasks
<1> QED
  BY <1>3, <1>4, <1>5, <1>6 DEF FInv

\* What a state of user mode offers every handler.
LEMMA InUserMode ==
  ASSUME FInv, mode = "user"
  PROVE  /\ curr_task \in Task /\ curr_task \in Members(queue)
         /\ state[curr_task] = "RUNNING"
         /\ Members(queue) \subseteq Task
         /\ \A t \in Members(queue) : t # curr_task => state[t] # "RUNNING"
         /\ current_proc = task_proc[curr_task] /\ current_proc \in Pid
         /\ status[current_proc] = "CAN_START"
<1>1. Members(queue) \subseteq Task
  BY SMTT(30) DEF FInv, TypeOK, Members
<1>2. curr_task \in Members(queue) /\ current_proc = task_proc[curr_task]
  BY DEF FInv, UserModeConsistent
<1>3. current_proc \in Pid
  BY <1>1, <1>2 DEF FInv, TypeOK
<1> QED
  BY <1>1, <1>2, <1>3, Zenon DEF FInv, UserModeConsistent

\* Saving the frame leaves every task of the list with its own registers.
LEMMA SavedIntact ==
  ASSUME FInv, mode = "user"
  PROVE  /\ Saved \in [Task -> 0..MaxSteps]
         /\ \A t \in Members(queue) : Saved[t] = steps[t]
         /\ \A t \in Task : t # curr_task => Saved[t] = registers[t]
<1>1. /\ curr_task \in Task /\ Members(queue) \subseteq Task
      /\ registers \in [Task -> 0..MaxSteps] /\ cpu \in 0..MaxSteps
  BY InUserMode, Zenon DEF FInv, TypeOK
<1>2. cpu = steps[curr_task] /\ \A t \in Members(queue) : t # curr_task => registers[t] = steps[t]
  BY DEF FInv, ContextIntact
<1> QED
  BY <1>1, <1>2, Zenon DEF Saved

\* task_switch_and_run, when no task but the current one is marked running: the
\* CPU, the page table and the task states agree on t, or the kernel has
\* stopped; dead tasks stay dead.
LEMMA SwitchStep ==
  ASSUME FInv, mode = "user", registers' = Saved,
         NEW t \in Members(queue), NEW st \in [Task -> TaskState],
         \A u \in Members(queue) : u # curr_task => st[u] # "RUNNING",
         NEW proc \in Pid \cup {Null}, task_switch_and_run(t, st, proc),
         UNCHANGED <<task_proc, queue, steps>>
  PROVE  /\ state' \in [Task -> TaskState]
         /\ curr_task' \in Task
         /\ current_proc' \in Pid \cup {Null}
         /\ cr3' \in Task
         /\ cpu' \in 0..MaxSteps
         /\ mode' \in {"user", "spin"} \cup Panics
         /\ UserModeConsistent'
         /\ ContextIntact'
         /\ \A u \in Task : st[u] = "DEAD" => state'[u] = "DEAD"
<1>1. /\ curr_task \in Task /\ t \in Task /\ Members(queue) \subseteq Task
      /\ cr3 \in Task /\ cpu \in 0..MaxSteps /\ task_proc \in [Task -> Pid]
  BY InUserMode, Zenon DEF FInv, TypeOK
<1>2. /\ registers' \in [Task -> 0..MaxSteps]
      /\ \A u \in Members(queue) : registers'[u] = steps[u]
  BY SavedIntact
<1> DEFINE pre == Preempted(st)
<1>3. /\ pre \in [Task -> TaskState]
      /\ \A u \in Members(queue) : pre[u] # "RUNNING"
      /\ \A u \in Task : st[u] = "DEAD" => pre[u] = "DEAD"
  BY <1>1 DEF Preempted, TaskState
<1>4. CASE st[t] # "READY"
  BY <1>1, <1>4, Zenon DEF task_switch_and_run, UserModeConsistent, ContextIntact, Panics
<1>5. CASE st[t] = "READY"
  <2>1. curr_task' = t /\ state' = [pre EXCEPT ![t] = "RUNNING"]
    BY <1>5 DEF task_switch_and_run
  <2> HIDE DEF pre
  <2>2. /\ state' \in [Task -> TaskState]
        /\ \A u \in Members(queue) : state'[u] = "RUNNING" <=> u = t
        /\ \A u \in Task : st[u] = "DEAD" => state'[u] = "DEAD"
    BY <1>1, <1>3, <1>5, <2>1, Zenon DEF TaskState
  <2>3. CASE status'[task_proc[t]] # "CAN_START"
    BY <1>1, <1>5, <2>1, <2>2, <2>3
       DEF task_switch_and_run, UserModeConsistent, ContextIntact, Panics
  <2>4. CASE status'[task_proc[t]] = "CAN_START"
    <3>1. current_proc' = task_proc[t] /\ cr3' = t /\ cpu' = registers'[t] /\ mode' = mode
      BY <1>5, <2>4, Zenon DEF task_switch_and_run, paging_switch, task_return
    <3>2. UserModeConsistent'
      BY <2>1, <2>2, <2>4, <3>1, Zenon DEF UserModeConsistent
    <3>3. ContextIntact'
      BY <1>2, <2>1, <3>1 DEF ContextIntact
    <3> QED BY <1>1, <1>2, <2>1, <2>2, <3>1, <3>2, <3>3, Zenon
  <2> QED BY <2>3, <2>4, Zenon
<1> QED
  BY <1>4, <1>5, Zenon

\* A step of user code.
LEMMA UserStepOK ==
  ASSUME FInv, user_step
  PROVE  StepOK
<1> USE KernelAssumption
<1>0. mode = "user" /\ curr_task \in Task /\ Members(queue) \subseteq Task
  BY InUserMode, Zenon DEF user_step
<1>1. /\ cpu' = cpu + 1 /\ cpu' \in 0..MaxSteps
      /\ steps' = [steps EXCEPT ![curr_task] = @ + 1]
      /\ UNCHANGED <<status, parent_pid, pid, proc_task, orphan, state, task_proc,
                     registers, queue, curr_task, current_proc, cr3, mode>>
  BY DEF user_step, procVars, FInv, TypeOK
<1>2. cpu = steps[curr_task]
  BY <1>0, Zenon DEF FInv, ContextIntact
<1>3. TypeOK'
  BY <1>0, <1>1, <1>2, Zenon DEF FInv, TypeOK
<1>4. ContextIntact'
  BY <1>0, <1>1, <1>2, Zenon DEF FInv, TypeOK, ContextIntact
<1>5. UserModeConsistent' /\ Distinct(queue)' /\ SlotTasks'
  BY <1>1, SMTT(30) DEF FInv, UserModeConsistent, SlotTasks, Distinct, Members
<1>6. DeadKept /\ IdentityKept
  BY <1>1 DEF DeadKept, IdentityKept
<1> QED
  BY <1>3, <1>4, <1>5, <1>6 DEF FInv, StepOK

\* The clock.
LEMMA ClockOK ==
  ASSUME FInv, idt_handle_clock
  PROVE  StepOK
<1> DEFINE st == Preempted(state)
<1>0. /\ mode = "user" /\ registers' = Saved
      /\ UNCHANGED <<status, parent_pid, pid, proc_task, orphan, task_proc, queue, steps>>
      /\ task_switch_to_next_and_run
  BY Zenon DEF idt_handle_clock, task_save_current_state, procVars
<1>1. /\ curr_task \in Task /\ curr_task \in Members(queue)
      /\ Members(queue) \subseteq Task
      /\ \A t \in Members(queue) : t # curr_task => state[t] # "RUNNING"
      /\ state \in [Task -> TaskState] /\ queue \in Seq(Task) /\ current_proc \in Pid
  BY <1>0, InUserMode, Zenon DEF FInv, TypeOK
<1>2. PICK succ \in Members(queue) : succ = task_get_next
  BY <1>1, SuccessorIsMember DEF task_get_next
<1>3. /\ st \in [Task -> TaskState]
      /\ \A u \in Members(queue) : u # curr_task => st[u] # "RUNNING"
      /\ \A u \in Task : state[u] = "DEAD" => st[u] = "DEAD"
  BY <1>1 DEF Preempted, TaskState
<1>4. registers' \in [Task -> 0..MaxSteps]
  BY <1>0, SavedIntact, Zenon
<1>5. Distinct(queue)' /\ SlotTasks' /\ IdentityKept
  BY <1>0 DEF FInv, SlotTasks, Distinct, Members, IdentityKept
<1>6. CASE task_switch_and_run(succ, st, current_proc)
  <2> HIDE DEF st
  <2>1. /\ state' \in [Task -> TaskState] /\ curr_task' \in Task
        /\ current_proc' \in Pid \cup {Null} /\ cr3' \in Task
        /\ cpu' \in 0..MaxSteps /\ mode' \in {"user", "spin"} \cup Panics
        /\ UserModeConsistent' /\ ContextIntact'
        /\ \A u \in Task : st[u] = "DEAD" => state'[u] = "DEAD"
    BY <1>0, <1>1, <1>3, <1>6, SwitchStep
  <2>2. TypeOK'
    BY <1>0, <1>4, <2>1, Zenon DEF FInv, TypeOK
  <2>3. DeadKept
    BY <1>1, <1>3, <2>1 DEF DeadKept
  <2> QED BY <1>5, <2>1, <2>2, <2>3, Zenon DEF FInv, StepOK
<1>7. CASE /\ mode' = "spin" /\ state' = st
           /\ UNCHANGED <<curr_task, current_proc, cr3, cpu>>
  <2> HIDE DEF st
  <2>1. TypeOK'
    BY <1>0, <1>3, <1>4, <1>7 DEF FInv, TypeOK
  <2>2. UserModeConsistent' /\ ContextIntact'
    BY <1>7 DEF UserModeConsistent, ContextIntact
  <2>3. DeadKept
    BY <1>1, <1>3, <1>7 DEF DeadKept
  <2> QED BY <1>5, <2>1, <2>2, <2>3, Zenon DEF FInv, StepOK
<1> QED
  BY <1>0, <1>2, <1>6, <1>7 DEF task_switch_to_next_and_run

\* Exit and exception.  The task that dies is that of the slot, which need not be
\* the one that ran; the switch takes the running mark from that one.
LEMMA ExitOK ==
  ASSUME FInv, task_save_current_state, process_exit
  PROVE  StepOK
<1> DEFINE p == task_proc[curr_task]
           st == Killed(p)
           proc == IF p = current_proc THEN Null ELSE current_proc
<1>0. /\ mode = "user" /\ registers' = Saved
      /\ curr_task \in Task /\ curr_task \in Members(queue)
      /\ p = current_proc /\ p \in Pid /\ status[p] = "CAN_START"
      /\ Members(queue) \subseteq Task
      /\ \A t \in Members(queue) : t # curr_task => state[t] # "RUNNING"
      /\ state \in [Task -> TaskState] /\ status \in [Pid -> Status]
  BY InUserMode DEF task_save_current_state, FInv, TypeOK
<1>1. /\ status' = [status EXCEPT ![p] = "ZOMBIE"]
      /\ task_switch_and_run_any(st, proc)
      /\ UNCHANGED <<parent_pid, pid, proc_task, orphan, task_proc, queue, steps>>
  BY DEF process_exit
<1>2. proc_task[p] \in Members(queue)
  BY <1>0, Zenon DEF FInv, SlotTasks
<1>3. /\ st \in [Task -> TaskState]
      /\ \A u \in Members(queue) : u # curr_task => st[u] # "RUNNING"
      /\ \A u \in Task : state[u] = "DEAD" => st[u] = "DEAD"
  BY <1>0, <1>2 DEF Killed, TaskState
<1>4. registers' \in [Task -> 0..MaxSteps]
  BY <1>0, SavedIntact
<1>5. status' \in [Pid -> Status] /\ \A r \in Pid : status'[r] # "UNUSED" <=> status[r] # "UNUSED"
  BY <1>0, <1>1, Zenon DEF Status
<1>6. Distinct(queue)' /\ SlotTasks' /\ IdentityKept
  BY <1>1, <1>5 DEF FInv, SlotTasks, Distinct, Members, IdentityKept
<1>7. proc \in Pid \cup {Null}
  BY <1>0
<1> HIDE DEF st, proc
<1>8. ASSUME NEW t \in Task, IsFirstReady(t, st), task_switch_and_run(t, st, proc)
      PROVE  StepOK
  <2>1. t \in Members(queue)
    BY <1>8, Zenon DEF IsFirstReady, Members
  <2>2. /\ state' \in [Task -> TaskState] /\ curr_task' \in Task
        /\ current_proc' \in Pid \cup {Null} /\ cr3' \in Task
        /\ cpu' \in 0..MaxSteps /\ mode' \in {"user", "spin"} \cup Panics
        /\ UserModeConsistent' /\ ContextIntact'
        /\ \A u \in Task : st[u] = "DEAD" => state'[u] = "DEAD"
    BY <1>0, <1>1, <1>3, <1>7, <1>8, <2>1, SwitchStep, Zenon
  <2>3. TypeOK'
    BY <1>1, <1>4, <1>5, <2>2, Zenon DEF FInv, TypeOK
  <2>4. DeadKept
    BY <1>0, <1>3, <2>2 DEF DeadKept
  <2> QED BY <1>6, <2>2, <2>3, <2>4 DEF FInv, StepOK
<1>9. CASE /\ mode' = "deadlock" /\ state' = st /\ current_proc' = proc
           /\ UNCHANGED <<curr_task, cr3, cpu>>
  <2>1. TypeOK'
    BY <1>1, <1>3, <1>4, <1>5, <1>7, <1>9, Zenon DEF FInv, TypeOK, Panics
  <2>2. UserModeConsistent' /\ ContextIntact'
    BY <1>9 DEF UserModeConsistent, ContextIntact
  <2>3. DeadKept
    BY <1>0, <1>3, <1>9 DEF DeadKept
  <2> QED BY <1>6, <2>1, <2>2, <2>3 DEF FInv, StepOK
<1> QED
  BY <1>1, <1>8, <1>9, Zenon DEF task_switch_and_run_any

\* A call that saves the frame of the current task and may stop the kernel.
LEMMA SaveOK ==
  ASSUME FInv, mode = "user", registers' = Saved,
         mode' = mode \/ mode' \in Panics,
         UNCHANGED <<status, parent_pid, pid, proc_task, orphan, state, task_proc,
                     queue, curr_task, current_proc, cr3, cpu, steps>>
  PROVE  StepOK
<1>0. mode # "spin" /\ "user" \notin Panics
  BY Zenon DEF Panics
<1>1. /\ registers' \in [Task -> 0..MaxSteps]
      /\ \A t \in Members(queue) : registers'[t] = steps[t]
  BY SavedIntact
<1>2. TypeOK'
  BY <1>1, Zenon DEF FInv, TypeOK
<1>3. ContextIntact'
  BY <1>1, Zenon DEF FInv, ContextIntact
<1>4. UserModeConsistent' /\ Distinct(queue)' /\ SlotTasks'
  BY SMTT(30) DEF FInv, UserModeConsistent, SlotTasks, Distinct, Members
<1>5. DeadKept /\ IdentityKept
  BY DEF DeadKept, IdentityKept
<1> QED
  BY <1>2, <1>3, <1>4, <1>5 DEF FInv, StepOK

\* Reaping a zombie whose task is dead: that task is not the running one, and no
\* other slot has it.
LEMMA ReapOK ==
  ASSUME FInv, task_save_current_state, NEW w \in Pid,
         NEW q \in Pid, Reapable(w, q), process_reap(q),
         UNCHANGED <<state, task_proc, current_proc, cr3, cpu, steps>>
  PROVE  StepOK
<1> DEFINE t == proc_task[q]
<1>0. /\ mode = "user" /\ registers' = Saved
      /\ curr_task \in Task /\ curr_task \in Members(queue)
      /\ state[curr_task] = "RUNNING"
      /\ current_proc = task_proc[curr_task] /\ current_proc \in Pid
      /\ status[current_proc] = "CAN_START"
      /\ Members(queue) \subseteq Task
      /\ status[q] = "ZOMBIE" /\ pid[current_proc] = parent_pid[q]
  BY InUserMode, Zenon DEF task_save_current_state, Reapable
<1>1. CASE state[t] # "DEAD"
  <2>1. mode' = "task not dead" /\ UNCHANGED <<procVars, queue, curr_task>>
    BY <1>1 DEF process_reap
  <2> QED BY <1>0, <2>1, SaveOK, Zenon DEF procVars, Panics
<1>2. CASE state[t] = "DEAD"
  <2>1. t \in Members(queue) /\ t # curr_task
    BY <1>0, <1>2, Zenon DEF FInv, SlotTasks
  <2>2. /\ queue' = Without(queue, t) /\ curr_task' = curr_task /\ mode' = mode
        /\ status' = [status EXCEPT ![q] = "UNUSED"]
        /\ parent_pid' = [parent_pid EXCEPT ![q] = 0]
        /\ pid' = [pid EXCEPT ![q] = 0]
        /\ proc_task' = [proc_task EXCEPT ![q] = Null]
    BY <1>2, <2>1, Zenon DEF process_reap, ClearedSlot
  <2>3. orphan' \in [Pid -> BOOLEAN]
    BY <1>2, Zenon DEF process_reap
  <2>4. /\ queue' \in Seq(Task) /\ Distinct(queue')
        /\ Members(queue') = Members(queue) \ {t}
    BY <2>1, <2>2, WithoutMember, SMTT(30) DEF FInv, TypeOK
  <2>5. /\ registers' \in [Task -> 0..MaxSteps]
        /\ \A u \in Members(queue) : registers'[u] = steps[u]
    BY <1>0, SavedIntact, Zenon
  <2>6. TypeOK'
    <3>1. 0 \in Pid
      BY KernelAssumption, SMTT(30) DEF Pid
    <3> QED BY <3>1, <2>2, <2>3, <2>4, <2>5, Zenon DEF FInv, TypeOK, Status
  <2>7. \A r \in Pid : r # q => /\ status'[r] = status[r] /\ pid'[r] = pid[r]
                                /\ parent_pid'[r] = parent_pid[r]
                                /\ proc_task'[r] = proc_task[r]
    BY <2>2, Zenon DEF FInv, TypeOK
  <2>8. status'[q] = "UNUSED"
    BY <2>2, Zenon DEF FInv, TypeOK
  <2>9. UserModeConsistent'
    BY <1>0, <2>1, <2>2, <2>4, <2>7, ZenonT(40) DEF FInv, UserModeConsistent
  <2>10. ContextIntact'
    BY <1>0, <2>2, <2>4, <2>5, SMTT(60) DEF FInv, ContextIntact
  <2>11. SlotTasks'
    <3>1. \A r \in Pid : status'[r] # "UNUSED" =>
            /\ r # q /\ status[r] # "UNUSED" /\ proc_task'[r] = proc_task[r]
      BY <2>7, <2>8
    <3>2. \A r \in Pid : status[r] # "UNUSED" /\ r # q =>
            proc_task[r] \in Members(queue) /\ proc_task[r] # t
      BY <1>0, Zenon DEF FInv, SlotTasks
    <3>3. \A r \in Pid : status'[r] # "UNUSED" => proc_task'[r] \in Members(queue')
      BY <3>1, <3>2, <2>4, Zenon
    <3>4. \A r, o \in Pid : status'[r] # "UNUSED" /\ status'[o] # "UNUSED"
                            /\ proc_task'[r] = proc_task'[o] => r = o
      BY <3>1 DEF FInv, SlotTasks
    <3> QED BY <3>3, <3>4, SMTT(60) DEF SlotTasks
  <2>12. DeadKept
    BY Zenon DEF DeadKept
  <2>13. IdentityKept
    BY <1>0, <2>7 DEF IdentityKept
  <2> QED BY <2>4, <2>6, <2>9, <2>10, <2>11, <2>12, <2>13 DEF FInv, StepOK
<1> QED
  BY <1>1, <1>2, Zenon

\* syscall_wait_pid.
LEMMA WaitPidOK ==
  ASSUME FInv, NEW w \in Pid, syscall_wait_pid(w)
  PROVE  StepOK
<1>1. ASSUME NEW q \in Pid, Reapable(w, q), process_reap(q)
      PROVE  StepOK
  BY <1>1, ReapOK DEF syscall_wait_pid, intr_80h_handler
<1>2. CASE UNCHANGED <<procVars, queue, curr_task, mode>>
  BY <1>2, SaveOK DEF syscall_wait_pid, intr_80h_handler, procVars, task_save_current_state
<1> QED
  BY <1>1, <1>2 DEF syscall_wait_pid

\* A creation that changes an unused slot and no task, and may stop the kernel.
LEMMA UnusedSlotOK ==
  ASSUME FInv, mode = "user", NEW p \in Pid, status[p] = "UNUSED",
         NEW new \in Pid,
         status' = status,
         parent_pid' = [parent_pid EXCEPT ![p] = 0],
         pid' = [pid EXCEPT ![p] = new],
         proc_task' = [proc_task EXCEPT ![p] = Null],
         registers' = Saved, mode' = mode \/ mode' \in Panics,
         UNCHANGED <<state, task_proc, queue, steps, orphan, curr_task, current_proc, cr3, cpu>>
  PROVE  StepOK
<1>0. mode # "spin" /\ "user" \notin Panics
  BY DEF Panics
<1>1. /\ registers' \in [Task -> 0..MaxSteps]
      /\ \A t \in Members(queue) : registers'[t] = steps[t]
  BY SavedIntact, Zenon
<1>2. TypeOK'
  <2>1. 0 \in Pid
    BY KernelAssumption DEF Pid
  <2> QED BY <1>1, <2>1, Zenon DEF FInv, TypeOK
<1>3. \A r \in Pid : r # p => /\ pid'[r] = pid[r] /\ parent_pid'[r] = parent_pid[r]
                              /\ proc_task'[r] = proc_task[r]
  BY Zenon DEF FInv, TypeOK
<1>4. UserModeConsistent' /\ ContextIntact'
  BY <1>1 DEF FInv, UserModeConsistent, ContextIntact
<1>5. Distinct(queue)' /\ SlotTasks'
  <2>1. Distinct(queue)'
    BY DEF FInv, Distinct
  <2>2. \A r \in Pid : status'[r] # "UNUSED" =>
          status[r] # "UNUSED" /\ proc_task'[r] = proc_task[r]
    BY <1>3
  <2>3. \A r \in Pid : status'[r] # "UNUSED" => proc_task'[r] \in Members(queue')
    BY <2>2 DEF FInv, SlotTasks
  <2>4. \A r, o \in Pid : status'[r] # "UNUSED" /\ status'[o] # "UNUSED"
                          /\ proc_task'[r] = proc_task'[o] => r = o
    BY <2>2 DEF FInv, SlotTasks
  <2> QED BY <2>1, <2>3, <2>4 DEF SlotTasks
<1>6. DeadKept /\ IdentityKept
  BY <1>3 DEF DeadKept, IdentityKept
<1> QED
  BY <1>2, <1>4, <1>5, <1>6 DEF FInv, StepOK

\* A creation that reaches task_new: the new task is at the end of the list,
\* whether its process can start, is left creating, or has lost its slot.
LEMMA CreateWithTaskOK ==
  ASSUME FInv, mode = "user", NEW p \in Pid, status[p] = "UNUSED",
         NEW t \in Task, NEW fault \in LateFaults, CreateWithTask(p, t, fault),
         UNCHANGED <<orphan, curr_task, current_proc, cr3, cpu>>
  PROVE  StepOK
<1>0. /\ curr_task \in Task /\ curr_task \in Members(queue)
      /\ Members(queue) \subseteq Task
      /\ current_proc = task_proc[curr_task] /\ current_proc \in Pid
      /\ status[current_proc] = "CAN_START"
  BY InUserMode
<1>1. /\ t \notin Members(queue)
      /\ state' = [state EXCEPT ![t] = "READY"]
      /\ task_proc' = [task_proc EXCEPT ![t] = p]
      /\ registers' = [Saved EXCEPT ![t] = 0]
      /\ queue' = Append(queue, t)
      /\ steps' = [steps EXCEPT ![t] = 0]
      /\ pid' = [pid EXCEPT ![p] = p]
      /\ proc_task' = [proc_task EXCEPT ![p] = t]
      /\ mode' = mode \/ mode' \in Panics
  BY DEF CreateWithTask, task_init, Fresh, Panics
<1>2. PICK s \in Status : status' = [status EXCEPT ![p] = s]
  <2>1. fault \in {"bad_segment", "map_failed", "bad_pointer", "args_too_long", "none"}
    BY DEF LateFaults
  <2>2. StatusAfter(fault) \in Status
    BY <2>1 DEF StatusAfter, Status
  <2> QED BY <2>2, Zenon DEF CreateWithTask
<1>3. PICK par \in Pid : parent_pid' = [parent_pid EXCEPT ![p] = par]
  <2>1. 0 \in Pid
    BY KernelAssumption DEF Pid
  <2>2. pid[task_proc[curr_task]] \in Pid
    BY <1>0, Zenon DEF FInv, TypeOK
  <2> QED BY <2>1, <2>2, Zenon DEF CreateWithTask
<1>4. /\ queue' \in Seq(Task)
      /\ Members(queue') = Members(queue) \cup {t}
      /\ Distinct(queue')
  BY <1>1, AppendMember DEF FInv, TypeOK
<1>5. /\ Saved \in [Task -> 0..MaxSteps]
      /\ \A u \in Members(queue) : Saved[u] = steps[u]
  <2>1. registers \in [Task -> 0..MaxSteps] /\ cpu \in 0..MaxSteps
    BY DEF FInv, TypeOK
  <2>2. \A u \in Members(queue) : u # curr_task => registers[u] = steps[u]
    BY DEF FInv, ContextIntact
  <2>3. cpu = steps[curr_task]
    BY DEF FInv, ContextIntact
  <2> DEFINE V == 0..MaxSteps
  <2>4. registers \in [Task -> V] /\ cpu \in V
    BY <2>1, Zenon
  <2> HIDE DEF V
  <2>5. Saved \in [Task -> V] /\ \A u \in Members(queue) : Saved[u] = steps[u]
    BY <2>2, <2>3, <2>4, <1>0 DEF Saved
  <2> QED BY <2>5 DEF V
<1>6. registers' \in [Task -> 0..MaxSteps] /\ steps' \in [Task -> 0..MaxSteps]
  <2> DEFINE V == 0..MaxSteps
  <2>1. Saved \in [Task -> V] /\ steps \in [Task -> V] /\ 0 \in V
    BY <1>5, KernelAssumption, SMTT(30) DEF FInv, TypeOK
  <2> HIDE DEF V
  <2>2. [Saved EXCEPT ![t] = 0] \in [Task -> V] /\ [steps EXCEPT ![t] = 0] \in [Task -> V]
    BY <2>1
  <2> QED BY <1>1, <2>2 DEF V
<1>7. TypeOK'
  <2>1. /\ status' \in [Pid -> Status] /\ parent_pid' \in [Pid -> Pid] /\ pid' \in [Pid -> Pid]
        /\ proc_task' \in [Pid -> Task \cup {Null}]
    BY <1>1, <1>2, <1>3, Zenon DEF FInv, TypeOK
  <2>2. state' \in [Task -> TaskState] /\ task_proc' \in [Task -> Pid]
    BY <1>1, Zenon DEF FInv, TypeOK, TaskState
  <2> QED BY <1>1, <1>4, <1>6, <2>1, <2>2, Zenon DEF FInv, TypeOK
<1>8. \A u \in Members(queue) :
        /\ u # t /\ u \in Task /\ task_proc'[u] = task_proc[u] /\ state'[u] = state[u]
        /\ steps'[u] = steps[u] /\ registers'[u] = steps[u]
  BY <1>0, <1>1, <1>5, Zenon DEF FInv, TypeOK
<1>9. state'[t] = "READY" /\ steps'[t] = 0 /\ registers'[t] = 0
  BY <1>1, <1>5, Zenon DEF FInv, TypeOK
<1>10. \A r \in Pid : r # p => /\ status'[r] = status[r] /\ pid'[r] = pid[r]
                               /\ parent_pid'[r] = parent_pid[r]
                               /\ proc_task'[r] = proc_task[r]
  BY <1>1, <1>2, <1>3, Zenon DEF FInv, TypeOK
<1>11. UserModeConsistent'
  BY <1>0, <1>1, <1>4, <1>8, <1>9, <1>10, SMTT(60) DEF FInv, UserModeConsistent
<1>12. ContextIntact'
  BY <1>0, <1>4, <1>8, <1>9, Zenon DEF FInv, ContextIntact
<1>13. SlotTasks'
  <2>1. proc_task'[p] = t
    BY <1>1, Zenon DEF FInv, TypeOK
  <2>2. \A r \in Pid : r # p /\ status'[r] # "UNUSED" => proc_task'[r] \in Members(queue)
    BY <1>10, ZenonT(40) DEF FInv, SlotTasks
  <2>3. \A r \in Pid : status'[r] # "UNUSED" => proc_task'[r] \in Members(queue')
    BY <2>1, <2>2, <1>4
  <2>4. ASSUME NEW r \in Pid, NEW u \in Pid, status'[r] # "UNUSED", status'[u] # "UNUSED",
               proc_task'[r] = proc_task'[u]
        PROVE  r = u
    <3>1. CASE r = p \/ u = p
      BY <2>1, <2>2, <2>4, <3>1, <1>1, Zenon
    <3>2. CASE r # p /\ u # p
      BY <2>4, <3>2, <1>10, ZenonT(40) DEF FInv, SlotTasks
    <3> QED BY <3>1, <3>2, Zenon
  <2> QED BY <2>3, <2>4 DEF SlotTasks
<1>14. DeadKept
  BY <1>8, Zenon DEF DeadKept
<1>15. IdentityKept
  BY <1>10 DEF IdentityKept
<1> QED
  BY <1>4, <1>7, <1>11, <1>12, <1>13, <1>14, <1>15, Zenon DEF FInv, StepOK

\* syscall_create_process, on each of its paths.
LEMMA CreateOK ==
  ASSUME FInv, syscall_create_process
  PROVE  StepOK
<1>0. mode = "user" /\ UNCHANGED <<orphan, curr_task, current_proc, cr3, cpu>>
  BY DEF syscall_create_process
<1>1. CASE OutOfProcs
  BY <1>0, <1>1, SaveOK DEF OutOfProcs
<1>2. ASSUME NEW p \in Pid, get_free_slot(p), CreateFailsEarly(p)
      PROVE  StepOK
  <2>1. status[p] = "UNUSED"
    BY <1>2, Zenon DEF get_free_slot
  <2>2. status' = status
    BY <1>2, <2>1 DEF CreateFailsEarly, ClearedSlot, FInv, TypeOK
  <2>3. 0 \in Pid
    BY KernelAssumption, SMTT(30) DEF Pid
  <2> QED
    BY <1>0, <1>2, <2>1, <2>2, <2>3, UnusedSlotOK, Zenon DEF CreateFailsEarly, ClearedSlot
<1>3. ASSUME NEW p \in Pid, get_free_slot(p), CreateWithoutTask(p)
      PROVE  StepOK
  BY <1>0, <1>3, UnusedSlotOK DEF get_free_slot, CreateWithoutTask, Panics
<1>4. ASSUME NEW p \in Pid, get_free_slot(p), NEW t \in Task, NEW fault \in LateFaults,
             CreateWithTask(p, t, fault)
      PROVE  StepOK
  BY <1>0, <1>4, CreateWithTaskOK DEF get_free_slot
<1> QED
  BY <1>1, <1>2, <1>3, <1>4 DEF syscall_create_process

\* Every step, and a step that changes nothing.
LEMMA NextOK ==
  ASSUME FInv, [Next]_vars
  PROVE  StepOK
<1>1. CASE user_step
  BY <1>1, UserStepOK
<1>2. CASE idt_handle_clock
  BY <1>2, ClockOK
<1>3. CASE idt_handle_exception \/ syscall_exit
  BY <1>3, ExitOK DEF idt_handle_exception, syscall_exit, intr_80h_handler
<1>4. ASSUME NEW w \in Pid, syscall_wait_pid(w)
      PROVE  StepOK
  BY <1>4, WaitPidOK
<1>5. CASE syscall_create_process
  BY <1>5, CreateOK
<1>6. CASE copy_data_from_user_panic
  BY <1>6, SaveOK DEF copy_data_from_user_panic, intr_80h_handler,
                      task_save_current_state, procVars, Panics
<1>7. CASE UNCHANGED vars
  <2>1. FInv'
    BY <1>7, SMTT(60) DEF vars, procVars, cpuVars, FInv, TypeOK, UserModeConsistent, ContextIntact,
                Distinct, Members, SlotTasks
  <2>2. DeadKept /\ IdentityKept
    BY <1>7 DEF vars, procVars, cpuVars, DeadKept, IdentityKept
  <2> QED BY <2>1, <2>2, ZenonT(40) DEF StepOK
<1> QED
  BY <1>1, <1>2, <1>3, <1>4, <1>5, <1>6, <1>7 DEF Next

\* Whatever fails - memory, loading, a segment, mapping, arguments that are too
\* long, a bad pointer - user mode is entered only with the task, the page table and the
\* process that belong together and with the registers the task left it with; no
\* dead task runs again; and no slot changes hands but by its parent's reap.
THEOREM KernelSurvivesFaults ==
  Spec => [](UserModeConsistent /\ ContextIntact) /\ DeadStaysDead /\ IdentityStable
<1>1. Init => FInv
  BY InitFInv
<1>2. FInv /\ [Next]_vars => FInv'
  BY NextOK DEF StepOK
<1>3. FInv /\ [Next]_vars => [DeadKept]_vars /\ [IdentityKept]_vars
  BY NextOK DEF StepOK
<1>4. FInv => UserModeConsistent /\ ContextIntact
  BY DEF FInv
<1>5. DeadStaysDead <=> [][DeadKept]_vars
  BY DEF DeadStaysDead, DeadKept
<1>6. IdentityStable <=> [][IdentityKept]_vars
  BY Zenon DEF IdentityStable, IdentityKept
<1> QED
  BY <1>1, <1>2, <1>3, <1>4, <1>5, <1>6, PTL DEF Spec
-----------------------------------------------------------------------------
(* The linked list, alone and under the kernel *)

\* The inductive invariant of the list.
LInv == L!TypeOK /\ Distinct(queue) /\ L!ListIsQueue

\* TaskList has the operators of TaskQueue under other names.
LEMMA SameOperators ==
  /\ L!Members(queue) = Members(queue)
  /\ \A t : /\ L!Without(queue, t) = Without(queue, t)
            /\ L!Successor(queue, t) = Successor(queue, t)
BY DEF L!Members, Members, L!Without, Without, L!Successor, Successor, L!PositionOf, PositionOf

\* The invariant holds of the empty list.
LEMMA EmptyListInv == L!Init => LInv
<1> SUFFICES ASSUME L!Init PROVE LInv
  OBVIOUS
<1>1. queue \in Seq(Task) /\ Len(queue) = 0 /\ queue = <<>>
  BY DEF L!Init
<1>2. L!TypeOK
  BY <1>1 DEF L!Init, L!TypeOK, L!Pointer
<1> QED
  BY <1>1, <1>2 DEF L!Init, LInv, Distinct, L!ListIsQueue

\* task_new keeps the invariant.
LEMMA LinkInv ==
  ASSUME LInv, NEW t \in Task, L!task_new(t)
  PROVE  LInv'
<1> DEFINE n == Len(queue)
<1>0. /\ queue \in Seq(Task) /\ n \in Nat
      /\ next \in [Task -> L!Pointer] /\ prev \in [Task -> L!Pointer]
      /\ \A i \in 1..n : queue[i] \in Task
      /\ Null \notin Task
  BY TaskAssumption, SMTT(30) DEF LInv, L!TypeOK
<1>1. /\ t \notin Members(queue) /\ L!LinkLast(t) /\ tail' = t /\ queue' = Append(queue, t)
      /\ \A i \in 1..n : queue[i] # t
  BY SameOperators DEF L!task_new, Members
<1>2. queue' \in Seq(Task) /\ Distinct(queue')
  BY <1>0, <1>1, AppendMember, Zenon DEF LInv
<1>3. /\ Len(queue') = n + 1 /\ queue'[n + 1] = t
      /\ \A i \in 1..n : queue'[i] = queue[i]
  BY <1>0, <1>1
<1>4. CASE queue = <<>>
  <2>1. head = Null /\ n = 0
    BY <1>4, Zenon DEF LInv, L!ListIsQueue
  <2>2. /\ head' = t
        /\ next' = [next EXCEPT ![t] = Null]
        /\ prev' = [prev EXCEPT ![t] = Null]
    BY <2>1, <1>1, Zenon DEF L!LinkLast
  <2>3. L!TypeOK'
    BY <2>2, <1>0, <1>1, <1>2, Zenon DEF L!TypeOK, L!Pointer
  <2>4. L!ListIsQueue'
    BY <2>1, <2>2, <1>0, <1>1, <1>3 DEF L!ListIsQueue
  <2> QED BY <2>3, <2>4, <1>2, Zenon DEF LInv
<1>5. CASE queue # <<>>
  <2>1. n >= 1 /\ head = queue[1] /\ tail = queue[n] /\ head # Null /\ tail \in Task
    BY <1>0, <1>5, SMTT(30) DEF LInv, L!ListIsQueue
  <2>2. /\ head' = head
        /\ next' = [next EXCEPT ![tail] = t, ![t] = Null]
        /\ prev' = [prev EXCEPT ![t] = tail]
    BY <2>1, <1>1 DEF L!LinkLast
  <2>3. L!TypeOK'
    BY <2>1, <2>2, <1>0, <1>1, <1>2, Zenon DEF LInv, L!TypeOK, L!Pointer
  <2>4. head' = queue'[1] /\ tail' = queue'[n + 1] /\ queue' # <<>>
    BY <2>1, <2>2, <1>0, <1>1, <1>3, SMTT(30)
  <2>5. next'[t] = Null /\ prev'[t] = queue'[n] /\ next'[queue[n]] = t
    BY <2>1, <2>2, <1>0, <1>1, <1>3, SMTT(30)
  <2>6. ASSUME NEW i \in 1..n
        PROVE  /\ next'[queue[i]] = queue'[i + 1]
               /\ prev'[queue[i]] = IF i = 1 THEN Null ELSE queue'[i - 1]
    <3>0. /\ next[queue[i]] = IF i = n THEN Null ELSE queue[i + 1]
          /\ prev[queue[i]] = IF i = 1 THEN Null ELSE queue[i - 1]
      BY ZenonT(40) DEF LInv, L!ListIsQueue
    <3>1. prev'[queue[i]] = IF i = 1 THEN Null ELSE queue'[i - 1]
      <4>1. queue[i] \in Task /\ queue[i] # t
        BY <1>0, <1>1, Zenon
      <4>2. prev'[queue[i]] = prev[queue[i]]
        BY <4>1, <2>2, <1>0
      <4>3. i # 1 => i - 1 \in 1..n
        BY <1>0, SMTT(30)
      <4> QED BY <4>2, <4>3, <3>0, <1>3
    <3>2. CASE i = n
      BY <3>1, <3>2, <2>5, <1>3, ZenonT(40)
    <3>3. CASE i # n
      <4>0. i + 1 \in 1..n
        BY <3>3, <1>0
      <4>1. queue[i] # tail
        BY <3>3, <2>1, <1>0, SMTT(30) DEF LInv, Distinct
      <4>2. next'[queue[i]] = next[queue[i]]
        BY <4>1, <2>1, <2>2, <1>0, <1>1, Zenon
      <4> QED BY <3>0, <3>1, <3>3, <4>0, <4>2, <1>3
    <3> QED BY <3>2, <3>3, Zenon
  <2>7. ASSUME NEW i \in 1..(n + 1)
        PROVE  /\ next'[queue'[i]] = IF i = n + 1 THEN Null ELSE queue'[i + 1]
               /\ prev'[queue'[i]] = IF i = 1 THEN Null ELSE queue'[i - 1]
    <3>1. CASE i = n + 1
      <4>1. queue'[i] = t /\ i # 1 /\ i - 1 = n
        BY <3>1, <2>1, <1>0, <1>3, SMTT(30)
      <4> QED BY <4>1, <3>1, <2>5, Zenon
    <3>2. CASE i # n + 1
      <4>1. i \in 1..n /\ queue'[i] = queue[i]
        BY <3>2, <1>0, <1>3, SMTT(30)
      <4> QED BY <4>1, <3>2, <2>6, Zenon
    <3> QED BY <3>1, <3>2, Zenon
  <2>8. L!ListIsQueue'
    BY <2>4, <2>7, <1>3 DEF L!ListIsQueue
  <2> QED BY <2>3, <2>8, <1>2, Zenon DEF LInv
<1> QED
  BY <1>4, <1>5

\* task_free keeps the invariant.
LEMMA UnlinkInv ==
  ASSUME LInv, NEW t \in Task, L!task_free(t)
  PROVE  LInv'
<1> DEFINE n == Len(queue)
           k == PositionOf(queue, t)
<1>0. /\ queue \in Seq(Task) /\ n \in Nat
      /\ next \in [Task -> L!Pointer] /\ prev \in [Task -> L!Pointer]
      /\ \A i \in 1..n : queue[i] \in Task
      /\ Null \notin Task
      /\ \A i, j \in 1..n : queue[i] = queue[j] => i = j
  BY TaskAssumption DEF LInv, L!TypeOK, Distinct
<1>1. t \in Members(queue) /\ L!Unlink(t) /\ queue' = Without(queue, t)
  BY SameOperators, ZenonT(40) DEF L!task_free
<1>2. /\ k \in 1..n /\ queue[k] = t
      /\ queue' \in Seq(Task) /\ Distinct(queue')
      /\ Len(queue') = n - 1
      /\ \A i \in 1..(n - 1) : queue'[i] = IF i < k THEN queue[i] ELSE queue[i + 1]
  BY <1>0, <1>1, WithoutAt, WithoutMember, SMTT(30) DEF LInv
<1>3. /\ next[t] = IF k = n THEN Null ELSE queue[k + 1]
      /\ prev[t] = IF k = 1 THEN Null ELSE queue[k - 1]
      /\ n >= 1 /\ head = queue[1] /\ tail = queue[n]
  BY <1>0, <1>2 DEF LInv, L!ListIsQueue
<1> HIDE DEF n, k
<1>4. /\ \A i \in 1..n : i # k - 1 => next'[queue[i]] = next[queue[i]]
      /\ k # 1 => next'[queue[k - 1]] = next[t]
      /\ next' \in [Task -> L!Pointer]
  <2>1. CASE k = 1
    BY <2>1, <1>0, <1>1, <1>2, <1>3, Zenon DEF L!Unlink
  <2>2. CASE k # 1
    <3>1. prev[t] = queue[k - 1] /\ k - 1 \in 1..n /\ prev[t] \in Task /\ next[t] \in L!Pointer
      BY <2>2, <1>0, <1>2, <1>3, SMTT(40)
    <3>2. next' = [next EXCEPT ![queue[k - 1]] = next[t]]
      BY <3>1, <1>0, <1>1 DEF L!Unlink
    <3> QED BY <3>1, <3>2, <1>0, <1>2, Zenon
  <2> QED BY <2>1, <2>2, Zenon
<1>5. /\ \A i \in 1..n : i # k + 1 => prev'[queue[i]] = prev[queue[i]]
      /\ k # n => prev'[queue[k + 1]] = prev[t]
      /\ prev' \in [Task -> L!Pointer]
  <2>1. CASE k = n
    BY <2>1, <1>0, <1>1, <1>2, <1>3, Zenon DEF L!Unlink
  <2>2. CASE k # n
    <3>1. next[t] = queue[k + 1] /\ k + 1 \in 1..n /\ next[t] \in Task /\ prev[t] \in L!Pointer
      BY <2>2, <1>0, <1>2, <1>3, SMTT(30)
    <3>2. prev' = [prev EXCEPT ![queue[k + 1]] = prev[t]]
      BY <3>1, <1>0, <1>1 DEF L!Unlink
    <3> QED BY <3>1, <3>2, <1>0, <1>2, Zenon
  <2> QED BY <2>1, <2>2, Zenon
<1>6. /\ head' = IF k = 1 THEN next[t] ELSE head
      /\ tail' = IF k = n THEN prev[t] ELSE tail
  <2>1. /\ head' = IF t = head THEN next[t] ELSE head
        /\ tail' = IF t = tail THEN prev[t] ELSE tail
    BY <1>1, Zenon DEF L!Unlink
  <2>2. 1 \in 1..n /\ n \in 1..n
    <3>1. n \in Nat /\ n >= 1
      BY <1>0, <1>3, Zenon
    <3> QED BY <3>1
  <2>3. \A i \in 1..n : queue[i] = t <=> i = k
    BY <1>0, <1>2, Zenon
  <2>4. t = head <=> k = 1
    BY <2>2, <2>3, <1>3, Zenon
  <2>5. t = tail <=> k = n
    BY <2>2, <2>3, <1>3, ZenonT(40)
  <2> QED BY <2>1, <2>4, <2>5, Zenon
<1>7. L!TypeOK'
  BY <1>0, <1>2, <1>3, <1>4, <1>5, <1>6, SMTT(30) DEF L!TypeOK, L!Pointer
<1>8. queue' = <<>> <=> n = 1
  BY <1>0, <1>2, <1>3
<1>9. /\ head' = IF queue' = <<>> THEN Null ELSE queue'[1]
      /\ tail' = IF queue' = <<>> THEN Null ELSE queue'[n - 1]
  <2>1. CASE n = 1
    <3>0. k \in 1..n
      BY <1>2, Zenon
    <3>1. k = 1 /\ k = n
      BY <2>1, <3>0
    <3>2. next[t] = Null /\ prev[t] = Null
      BY <3>1, <1>3
    <3> QED BY <2>1, <3>1, <3>2, <1>6, <1>8
  <2>2. CASE n # 1
    <3>0. queue' # <<>>
      BY <2>2, <1>8
    <3>1. 1 \in 1..(n - 1) /\ n - 1 \in 1..(n - 1)
      <4>1. n \in Nat /\ n >= 1
        BY <1>0, <1>3, Zenon
      <4> QED BY <4>1, <2>2
    <3>2. head' = queue'[1]
      BY <3>1, <2>2, <1>0, <1>2, <1>3, <1>6, SMTT(30)
    <3>3. tail' = queue'[n - 1]
      BY <3>1, <2>2, <1>0, <1>2, <1>3, <1>6, SMTT(30)
    <3> QED BY <3>0, <3>2, <3>3
  <2> QED BY <2>1, <2>2, Zenon
<1>10. ASSUME NEW i \in 1..(n - 1)
       PROVE  /\ next'[queue'[i]] = IF i = n - 1 THEN Null ELSE queue'[i + 1]
              /\ prev'[queue'[i]] = IF i = 1 THEN Null ELSE queue'[i - 1]
  <2>0. \A j \in 1..n : /\ next[queue[j]] = IF j = n THEN Null ELSE queue[j + 1]
                        /\ prev[queue[j]] = IF j = 1 THEN Null ELSE queue[j - 1]
    BY Zenon DEF n, LInv, L!ListIsQueue
  <2> DEFINE at(j) == IF j < k THEN j ELSE j + 1
  <2>1. /\ at(i) \in 1..n /\ at(i) # k /\ queue'[i] = queue[at(i)]
        /\ i # n - 1 => at(i + 1) \in 1..n /\ queue'[i + 1] = queue[at(i + 1)]
        /\ i # 1 => at(i - 1) \in 1..n /\ queue'[i - 1] = queue[at(i - 1)]
    <3>1. \A j \in 1..(n - 1) : at(j) \in 1..n /\ at(j) # k /\ queue'[j] = queue[at(j)]
      BY <1>0, <1>2
    <3>2. /\ i # n - 1 => i + 1 \in 1..(n - 1)
          /\ i # 1 => i - 1 \in 1..(n - 1)
      BY <1>0
    <3> HIDE DEF at
    <3> QED BY <3>1, <3>2, Zenon
  <2>4. n \in Nat /\ k \in 1..n /\ i \in 1..(n - 1)
    BY <1>0, <1>2, Zenon
  <2>2. next'[queue[at(i)]] = IF i = n - 1 THEN Null ELSE queue[at(i + 1)]
    <3>1. CASE at(i) = k - 1
      <4>1. k # 1 /\ (i = n - 1 <=> k = n) /\ at(i + 1) = k + 1
        BY <3>1, <2>4, SMTT(30)
      <4>2. next'[queue[at(i)]] = next[t]
        BY <3>1, <4>1, <1>4, Zenon
      <4> QED BY <4>1, <4>2, <1>3, Zenon
    <3>2. CASE at(i) # k - 1
      <4>1. next'[queue[at(i)]] = IF at(i) = n THEN Null ELSE queue[at(i) + 1]
        BY <3>2, <2>0, <2>1, <1>4, ZenonT(40)
      <4>2. (at(i) = n <=> i = n - 1) /\ at(i) + 1 = at(i + 1)
        BY <3>2, <2>4, SMTT(30)
      <4> QED BY <4>1, <4>2, Zenon
    <3> QED BY <3>1, <3>2, Zenon
  <2>3. prev'[queue[at(i)]] = IF i = 1 THEN Null ELSE queue[at(i - 1)]
    <3>1. CASE at(i) = k + 1
      <4>1. k # n /\ (i = 1 <=> k = 1) /\ at(i - 1) = k - 1
        BY <3>1, <2>4, SMTT(30)
      <4>2. prev'[queue[at(i)]] = prev[t]
        BY <3>1, <4>1, <1>5, Zenon
      <4> QED BY <4>1, <4>2, <1>3, Zenon
    <3>2. CASE at(i) # k + 1
      <4>1. prev'[queue[at(i)]] = IF at(i) = 1 THEN Null ELSE queue[at(i) - 1]
        BY <3>2, <2>0, <2>1, <1>5, ZenonT(40)
      <4>2. (at(i) = 1 <=> i = 1) /\ at(i) - 1 = at(i - 1)
        BY <3>2, <2>4, SMTT(30)
      <4> QED BY <4>1, <4>2, Zenon
    <3> QED BY <3>1, <3>2, Zenon
  <2> QED BY <2>1, <2>2, <2>3
<1>11. L!ListIsQueue'
  BY <1>2, <1>9, <1>10 DEF L!ListIsQueue
<1> QED
  BY <1>2, <1>7, <1>11 DEF LInv

\* task_get_next follows the queue, round its end.
LEMMA GetNextFollows ==
  ASSUME LInv
  PROVE  L!GetNextIsSuccessor
<1> SUFFICES ASSUME NEW t \in Members(queue)
             PROVE  L!task_get_next(t) = Successor(queue, t)
  BY SameOperators DEF L!GetNextIsSuccessor
<1>1. /\ queue \in Seq(Task) /\ Len(queue) \in Nat /\ Null \notin Task
      /\ \A i \in 1..Len(queue) : queue[i] \in Task
  BY TaskAssumption DEF LInv, L!TypeOK
<1>2. PositionOf(queue, t) \in 1..Len(queue) /\ queue[PositionOf(queue, t)] = t
  BY <1>1, PositionOfMember
<1>3. head = queue[1] /\ Len(queue) >= 1
  BY <1>1, <1>2 DEF LInv, L!ListIsQueue
<1> QED
  BY <1>1, <1>2, <1>3 DEF LInv, L!ListIsQueue, L!task_get_next, Successor

\* For any number of tasks: the links of task.c are the queue Kernel uses, and
\* task_get_next is its successor.
THEOREM ListImplementsQueue == L!Spec => [](L!TypeOK /\ L!ListIsQueue /\ L!GetNextIsSuccessor)
<1>1. LInv /\ [L!Next]_(L!vars) => LInv'
  <2> SUFFICES ASSUME LInv, [L!Next]_(L!vars) PROVE LInv'
    OBVIOUS
  <2>1. CASE UNCHANGED L!vars
    BY <2>1 DEF L!vars, LInv, L!TypeOK, L!ListIsQueue, L!Pointer
  <2> QED BY <2>1, LinkInv, UnlinkInv DEF L!Next
<1>2. LInv => L!TypeOK /\ L!ListIsQueue /\ L!GetNextIsSuccessor
  BY GetNextFollows DEF LInv
<1> QED
  BY EmptyListInv, <1>1, <1>2, PTL DEF L!Spec

\* The list with the task of the shell satisfies the invariant of the list.
LEMMA ListInitInv == ListInit => LInv
<1> SUFFICES ASSUME ListInit PROVE LInv
  OBVIOUS
<1>1. curr_task \in Task /\ queue = <<curr_task>> /\ Null \notin Task
  BY TaskAssumption DEF ListInit, Init
<1>2. queue \in Seq(Task) /\ Len(queue) = 1 /\ queue[1] = curr_task /\ queue # <<>>
  BY <1>1
<1>3. L!TypeOK
  BY <1>1, <1>2 DEF ListInit, L!TypeOK, L!Pointer
<1>4. Distinct(queue)
  BY <1>2 DEF Distinct
<1>5. L!ListIsQueue
  BY <1>1, <1>2 DEF ListInit, L!ListIsQueue
<1> QED BY <1>3, <1>4, <1>5 DEF LInv

\* A step of the composition keeps the invariant of the list.
LEMMA ListStepInv ==
  ASSUME LInv, [ListNext]_allVars
  PROVE  LInv'
<1>1. CASE queue' = queue /\ UNCHANGED links
  BY <1>1 DEF links, LInv, L!TypeOK, Distinct, L!ListIsQueue
<1>2. ASSUME NEW t \in Task, L!task_new(t) \/ L!task_free(t)
      PROVE  LInv'
  BY <1>2, LinkInv, UnlinkInv
<1>3. CASE UNCHANGED allVars
  BY <1>1, <1>3, Zenon DEF allVars, vars
<1> QED BY <1>1, <1>2, <1>3, Zenon DEF ListNext, LinksFollow

\* The invariant says what the kernel's walks see.
LEMMA ListInvFollows == ASSUME LInv PROVE ListFollowsKernel
<1>1. /\ queue \in Seq(Task) /\ Len(queue) \in Nat
      /\ \A i \in 1..Len(queue) : next[queue[i]] = IF i = Len(queue) THEN Null ELSE queue[i + 1]
  BY DEF LInv, L!TypeOK, L!ListIsQueue
<1>2. L!ListIsQueue
  BY Zenon DEF LInv
<1>3. ASSUME NEW t \in Members(queue)
      PROVE  next[t] \in Members(queue) \cup {Null}
  <2>1. PICK i \in 1..Len(queue) : t = queue[i]
    BY Zenon DEF Members
  <2>2. next[t] = Null \/ (i + 1 \in 1..Len(queue) /\ next[t] = queue[i + 1])
    BY <1>1, <2>1
  <2> QED BY <2>2, Zenon DEF Members
<1>4. \A t \in Members(queue) : L!task_get_next(t) = Successor(queue, t)
  BY GetNextFollows, SameOperators DEF L!GetNextIsSuccessor
<1> QED BY <1>2, <1>3, <1>4, Zenon DEF ListFollowsKernel

\* In every run of the kernel, whatever fails and for any number of slots and
\* tasks, following next from tasks_ll_head visits exactly the tasks that exist,
\* in creation order, and task_get_next returns the successor.
THEOREM KernelKeepsList == ListSpec => []ListFollowsKernel
<1>1. ListInit => LInv
  BY ListInitInv
<1>2. LInv /\ [ListNext]_allVars => LInv'
  BY ListStepInv
<1>3. LInv => ListFollowsKernel
  BY ListInvFollows
<1> QED BY <1>1, <1>2, <1>3, PTL DEF ListSpec
==============================================================================
