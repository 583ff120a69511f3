------------------------------ MODULE TaskQueue ------------------------------
(***************************************************************************)
(* The task list of src/task/task.c as a sequence: what its walks see.     *)
(* TaskList shows that the linked list in the code behaves like this.      *)
(***************************************************************************)
EXTENDS Integers, Sequences

Members(q) == {q[i] : i \in 1..Len(q)}

\* The positions of q hold different tasks.
Distinct(q) == \A i, j \in 1..Len(q) : q[i] = q[j] => i = j

PositionOf(q, t) == CHOOSE i \in 1..Len(q) : q[i] = t

\* The task after t, the head of the list after its last task.
Successor(q, t) ==
  IF PositionOf(q, t) = Len(q) THEN q[1] ELSE q[PositionOf(q, t) + 1]

\* q after t is unlinked.
Without(q, t) ==
  [i \in 1..(Len(q) - 1) |-> IF i < PositionOf(q, t) THEN q[i] ELSE q[i + 1]]
==============================================================================
