------------------------- MODULE MCFwpmTransaction -------------------------
(* FwpmTransaction with three objects on two sessions, interchangeable     *)
(* among themselves.                                                       *)
EXTENDS FwpmTransaction, TLC

Symmetry == Permutations(Txns) \cup Permutations(Engines)
=============================================================================
