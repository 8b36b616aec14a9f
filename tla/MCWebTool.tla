----------------------------- MODULE MCWebTool -----------------------------
(* The line of the first process also shows the id of the second one. *)
EXTENDS WebTool
NameOfFirst == {<<1, 2>>}
=============================================================================
