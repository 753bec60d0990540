------------------------------- MODULE Ledger -------------------------------
(***************************************************************************)
(* What local-ip-proxy promises about the events it counts: each reported  *)
(* total of a key is new and not higher than what was recorded, and        *)
(* whatever was recorded has been reported when the program ends.          *)
(***************************************************************************)
EXTENDS Integers

CONSTANT Keys

VARIABLES recorded,  \* number of events recorded for each key
          shown,     \* the total last reported for each key
          closed     \* the program has ended

ledgerVars == <<recorded, shown, closed>>

Init == /\ recorded = [k \in Keys |-> 0]
        /\ shown = [k \in Keys |-> 0]
        /\ closed = FALSE

Record(k) == /\ ~closed
             /\ recorded' = [recorded EXCEPT ![k] = @ + 1]
             /\ UNCHANGED <<shown, closed>>

Show(k) == /\ ~closed
           /\ \E n \in (shown[k] + 1)..recorded[k] :
                 shown' = [shown EXCEPT ![k] = n]
           /\ UNCHANGED <<recorded, closed>>

Close == /\ ~closed
         /\ shown = recorded
         /\ closed' = TRUE
         /\ UNCHANGED <<recorded, shown>>

Next == (\E k \in Keys : Record(k) \/ Show(k)) \/ Close

Spec == Init /\ [][Next]_ledgerVars

=============================================================================
