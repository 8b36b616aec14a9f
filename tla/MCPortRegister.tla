-------------------------- MODULE MCPortRegister --------------------------
(* Three accounts, two of them in one bucket of the table.                  *)
EXTENDS PortRegister, TLC
CONSTANTS u1, u2, u3
MCCode == (u1 :> 100) @@ (u2 :> 102) @@ (u3 :> 103)
=============================================================================
