---------------------------- MODULE KernelTasks ------------------------------
(***************************************************************************)
(* The kernel of Kernel running on the linked list of TaskList.  Kernel    *)
(* speaks of the tasks in the order of their creation; task.c keeps them   *)
(* in tasks_ll_head, tasks_ll_tail, next and prev.  Here every step of the *)
(* kernel that creates or frees a task links or unlinks it, and every      *)
(* other step leaves the pointers alone.  The pointers of a freed task     *)
(* keep what they held, until kzalloc hands out its memory again.          *)
(***************************************************************************)
EXTENDS Kernel

VARIABLES head, tail, next, prev

L == INSTANCE TaskList

links == <<head, tail, next, prev>>

allVars == <<vars, links>>

\* process_new has linked the task of the shell.
ListInit ==
  /\ Init
  /\ head = curr_task
  /\ tail = curr_task
  /\ next = [t \in Task |-> Null]
  /\ prev = [t \in Task |-> Null]

\* What task_new and task_free do to the pointers while the kernel does the rest.
LinksFollow ==
  \/ queue' = queue /\ UNCHANGED links
  \/ \E t \in Task : L!task_new(t) \/ L!task_free(t)

ListNext == Next /\ LinksFollow

\* The timer keeps ticking: see FairSpec of Kernel.
ListSpec ==
  /\ ListInit
  /\ [][ListNext]_allVars
  /\ WF_allVars(idt_handle_clock /\ LinksFollow)
-----------------------------------------------------------------------------
(* Properties *)

\* task_switch_and_run_any starts at tasks_ll_head and follows next until it is
\* null, and task_get_next wraps there: after any run of the kernel, whatever
\* fails, these pointers lead through exactly the tasks that exist, in creation
\* order, and none of them leads to freed memory.
ListFollowsKernel ==
  /\ L!ListIsQueue
  /\ \A t \in Members(queue) :
       /\ next[t] \in Members(queue) \cup {Null}
       /\ L!task_get_next(t) = Successor(queue, t)
==============================================================================
