--------------------------- MODULE MCKernelTasks -----------------------------
(* KernelTasks for TLC: three tasks, so that one has two neighbours. *)
EXTENDS KernelTasks
==============================================================================
