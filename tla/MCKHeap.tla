------------------------------- MODULE MCKHeap -------------------------------
(* KHeap on a table of a few bytes. *)
EXTENDS KHeap
==============================================================================
