------------------------------ MODULE MCKernel -------------------------------
(* Kernel on a few slots and tasks. *)
EXTENDS Kernel, TLC

\* The addresses of tasks are interchangeable: nothing compares or orders them.
TaskSymmetry == Permutations(Task)
==============================================================================
