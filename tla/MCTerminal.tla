----------------------------- MODULE MCTerminal ------------------------------
(* A terminal of a few cells. *)
EXTENDS Terminal

MCOutputs == {<<>>, <<"x", "x">>, <<"x", "\n">>}
MCNumbers == {-128, -10, 0, 7, 105, 127}
==============================================================================
