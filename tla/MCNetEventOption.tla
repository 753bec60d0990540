------------------------- MODULE MCNetEventOption -------------------------
(* NetEventOption with three instances, which are interchangeable.         *)
EXTENDS NetEventOption, TLC

Symmetry == Permutations(Instances)
=============================================================================
