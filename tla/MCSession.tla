----------------------------- MODULE MCSession -----------------------------
(* Small instances of Session: constants for the configurations.           *)
EXTENDS Session

CONSTANTS c1, c2,        \* clients
          a, b, z,       \* names of files
          d, l           \* a directory and a symbolic link

\* Versions by their size: 0 is the empty file, 1 and 4 are short files, 2 is
\* one full block and nothing more, 3 a full block and a short one.
MCBlocks == [v \in Version |-> IF v \in {2, 3} THEN 1 ELSE 0]
MCRagged == {1, 3, 4} \cap Version
MCInode == 1 .. 4
MCData0 == [i \in MCInode |-> IF i = 1 THEN 3 ELSE IF i = 2 /\ 2 \in Version THEN 2
                              ELSE 1]

MCOwn == [c \in Client |-> IF c = c1 THEN Path \ {z} ELSE {z}]
Shared == [c \in Client |-> Path]

\* Home directories with hard links among the files, and without.
AllHomes ==
  {f \in [Path -> {1, 2, None}] : \A p, q \in Path :
     f[p] = f[q] => p = q \/ f[p] = None \/ {p, q} \cap (Dir \cup Lnk) = {}}
PlainHomes ==
  {f \in AllHomes : \A p, q \in Path : f[p] = f[q] => p = q \/ f[p] = None}
=============================================================================
