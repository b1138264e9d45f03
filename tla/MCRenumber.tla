---- MODULE MCRenumber ----
(* An instance of Renumber: three numbers and a chain of moves through them.  The chain is *)
(* the same from every number, so a library begins with its first chapter at number 1.     *)
EXTENDS Renumber
Chain == [p \in 1..3 |-> IF p = 3 THEN 1 ELSE p + 1]
OnlyChain == {Chain}
FirstAtOne == {n \in [Books -> Places] : n[1] = 1}
====
