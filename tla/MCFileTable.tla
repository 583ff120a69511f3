----------------------------- MODULE MCFileTable -----------------------------
(* FileTable with a few descriptors, so that the table fills. *)
EXTENDS FileTable, TLC

ObjSymmetry == Permutations(Obj)
==============================================================================
