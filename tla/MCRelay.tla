------------------------------ MODULE MCRelay ------------------------------
(* Relay with small bounds.                                                *)
EXTENDS Relay
=============================================================================
