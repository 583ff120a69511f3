------------------------------ MODULE MCUserMem ------------------------------
(* UserMem with a few frames and user pages. *)
EXTENDS UserMem, TLC

ProcSymmetry == Permutations(Proc)
==============================================================================
