----------------------------- MODULE MCKeyboard ------------------------------
(* Keyboard with a buffer of a few characters. *)
EXTENDS Keyboard, TLC

ProcSymmetry == Permutations(Proc)
==============================================================================
