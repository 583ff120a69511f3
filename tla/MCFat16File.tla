----------------------------- MODULE MCFat16File -----------------------------
(* Fat16File on a volume of four data clusters of four sectors. *)
EXTENDS Fat16File
==============================================================================
