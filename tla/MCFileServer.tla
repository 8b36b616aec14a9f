---------------------------- MODULE MCFileServer ----------------------------
(* Every file has the name it is listed with. *)
EXTENDS FileServer
Names == [m \in Name |-> CHOOSE g \in File : TRUE]
=============================================================================
