------------------------------ MODULE Allocator ------------------------------
(***************************************************************************)
(* What the rest of the kernel relies on kmalloc and kfree for: a caller   *)
(* is given a region that nobody else holds, and gives it back whole.      *)
(***************************************************************************)
CONSTANT Pool     \* the blocks there are

VARIABLE held     \* the regions the callers hold

Init == held = {}

Alloc == \E r \in (SUBSET (Pool \ UNION held)) \ {{}} : held' = held \cup {r}

Free == \E r \in held : held' = held \ {r}

Next == Alloc \/ Free

Spec == Init /\ [][Next]_held
==============================================================================
