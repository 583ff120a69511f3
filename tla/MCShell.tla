------------------------------- MODULE MCShell -------------------------------
(* Shell with lines of a few keys. *)
EXTENDS Shell
==============================================================================
