------------------------------ MODULE TaskList -------------------------------
(***************************************************************************)
(* The doubly linked list of tasks in src/task/task.c: tasks_ll_head,      *)
(* tasks_ll_tail and the next and prev fields that task_new and task_free  *)
(* link and unlink.  queue is a ghost: the tasks in the order they were    *)
(* created, which is how Kernel models the list.                           *)
(***************************************************************************)
EXTENDS TaskQueue

CONSTANTS
  Task,     \* the addresses kzalloc can give a struct task
  Null      \* the null pointer

VARIABLES head, tail, next, prev, queue

vars == <<head, tail, next, prev, queue>>

Pointer == Task \cup {Null}

TypeOK ==
  /\ head \in Pointer
  /\ tail \in Pointer
  /\ next \in [Task -> Pointer]
  /\ prev \in [Task -> Pointer]
  /\ queue \in Seq(Task)

\* The fields of memory that is not in the list hold anything.
Init ==
  /\ head = Null
  /\ tail = Null
  /\ next \in [Task -> Pointer]
  /\ prev \in [Task -> Pointer]
  /\ queue = <<>>

\* As if task->prev were left zero.
LinkLastNoPrev(t) ==
  IF head = Null
  THEN /\ head' = t
       /\ next' = [next EXCEPT ![t] = Null]
       /\ prev' = [prev EXCEPT ![t] = Null]
  ELSE /\ head' = head
       /\ next' = [next EXCEPT ![tail] = t, ![t] = Null]
       /\ prev' = [prev EXCEPT ![t] = Null]

\* task_new links the zeroed task t at the end.
LinkLast(t) ==
  IF head = Null
  THEN /\ head' = t
       /\ next' = [next EXCEPT ![t] = Null]
       /\ prev' = [prev EXCEPT ![t] = Null]
  ELSE /\ head' = head
       /\ next' = [next EXCEPT ![tail] = t, ![t] = Null]
       /\ prev' = [prev EXCEPT ![t] = tail]

task_new(t) ==
  /\ t \notin Members(queue)
  /\ LinkLast(t)
  /\ tail' = t
  /\ queue' = Append(queue, t)

Unlink(t) ==
  /\ next' = IF prev[t] = Null THEN next ELSE [next EXCEPT ![prev[t]] = next[t]]
  /\ prev' = IF next[t] = Null THEN prev ELSE [prev EXCEPT ![next[t]] = prev[t]]
  /\ head' = IF t = head THEN next[t] ELSE head
  /\ tail' = IF t = tail THEN prev[t] ELSE tail

task_free(t) ==
  /\ t \in Members(queue)
  /\ Unlink(t)
  /\ queue' = Without(queue, t)

\* task_get_next, when t is the current task
task_get_next(t) == IF next[t] = Null THEN head ELSE next[t]

Next == \E t \in Task : task_new(t) \/ task_free(t)

Spec == Init /\ [][Next]_vars
-----------------------------------------------------------------------------
(* Properties *)

\* Following next from tasks_ll_head visits the tasks in creation order and
\* ends at tasks_ll_tail, and prev leads back, after any sequence of creations
\* and frees: the walk of task_switch_and_run_any sees every task once.
ListIsQueue ==
  /\ head = IF queue = <<>> THEN Null ELSE queue[1]
  /\ tail = IF queue = <<>> THEN Null ELSE queue[Len(queue)]
  /\ \A i \in 1..Len(queue) :
       /\ next[queue[i]] = IF i = Len(queue) THEN Null ELSE queue[i + 1]
       /\ prev[queue[i]] = IF i = 1 THEN Null ELSE queue[i - 1]

\* task_get_next of a task in the list is its successor, around the end.
GetNextIsSuccessor ==
  \A t \in Members(queue) : task_get_next(t) = Successor(queue, t)
==============================================================================
