----------------------------- MODULE ByteStream -----------------------------
(***************************************************************************)
(* What local-tcp-proxy promises for one direction of a connection: a      *)
(* stream of bytes that arrives in order and without gaps, and whose end   *)
(* is announced only once all of it has arrived, unless a connection of    *)
(* either peer has failed.                                                 *)
(***************************************************************************)
EXTENDS Integers, Sequences

VARIABLES written,   \* number of bytes the source has written
          received,  \* the bytes handed to the destination
          finished,  \* the source has finished
          broken,    \* the connection of a peer has failed
          ended      \* the end of the stream was announced

streamVars == <<written, received, finished, broken, ended>>

\* The first n bytes of the stream: bytes are numbered as they are written.
Bytes(n) == [i \in 1..n |-> i]

Init == /\ written = 0
        /\ received = <<>>
        /\ finished = FALSE
        /\ broken = FALSE
        /\ ended = FALSE

Write == /\ ~finished
         /\ written' = written + 1
         /\ UNCHANGED <<received, finished, broken, ended>>

Transfer == /\ ~ended
            /\ \E n \in (Len(received) + 1)..written : received' = Bytes(n)
            /\ UNCHANGED <<written, finished, broken, ended>>

Finish == /\ finished' = TRUE
          /\ UNCHANGED <<written, received, broken, ended>>

Break == /\ broken' = TRUE
         /\ UNCHANGED <<written, received, finished, ended>>

Announce == /\ ~ended
            /\ broken \/ (finished /\ received = Bytes(written))
            /\ ended' = TRUE
            /\ UNCHANGED <<written, received, finished, broken>>

Next == Write \/ Transfer \/ Finish \/ Break \/ Announce

Spec == Init /\ [][Next]_streamVars

(* As long as no connection fails, what was written arrives, and the end   *)
(* is announced.                                                           *)
Progress == /\ WF_streamVars(~broken /\ Transfer)
            /\ WF_streamVars(~broken /\ Announce)

FairSpec == Spec /\ Progress

=============================================================================
