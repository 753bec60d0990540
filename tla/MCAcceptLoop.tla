---------------------------- MODULE MCAcceptLoop ----------------------------
(* AcceptLoop with room for the listener and two connections: a third      *)
(* client waits while the table of handles is full.                        *)
EXTENDS AcceptLoop
=============================================================================
