------------------------- MODULE MCEventAggregator -------------------------
(* EventAggregator with a few callback threads and events.                 *)
EXTENDS EventAggregator
=============================================================================
