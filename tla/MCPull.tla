------------------------------- MODULE MCPull -------------------------------
(* A small instance of Pull: two files that may be one, a directory and a link. *)
EXTENDS Pull

CONSTANTS c1, c2, \* clients of one account
          mine, f, g, d, l,
          full, s, t \* a full block and two short ones

MCHomes ==
  {[n \in Name |-> None],
   [n \in Name |-> CASE n = f -> 1 [] n = g -> 2 [] n = d -> 3 [] OTHER -> None],
   [n \in Name |-> IF n = l THEN 2 ELSE None]}
MCContents == {[i \in Inode |-> IF i = 1 THEN <<full, t>> ELSE <<s>>]}
MCContent == {<<s>>, <<full, t>>}
One == [c \in Client |-> mine]
=============================================================================
