------------------------------ MODULE MCRefetch ------------------------------
(* Instances of Refetch: two chapters of one series, which are alike.        *)
EXTENDS Refetch, TLC

Symmetry == Permutations(Chapters)
=============================================================================
