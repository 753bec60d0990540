--------------------------- MODULE NetEventOption ---------------------------
(***************************************************************************)
(* The system-wide option FWPM_ENGINE_COLLECT_NET_EVENTS and the instances *)
(* of local-ip-proxy that negotiate it (probeAndNegotiateNetEvents in      *)
(* local-ip-proxy/main.cpp) and put it back when they end                  *)
(* (local-ip-proxy/NetEventCollectionGuard.hpp).  The option is read at    *)
(* one time, set at another and restored much later, by instances that do  *)
(* not know of each other and may be killed.                               *)
(***************************************************************************)
EXTENDS Integers

CONSTANTS Instances,  \* the processes that run the program
          Original    \* the option before the first of them starts

ASSUME OptionAssumption == Original \in {0, 1}

VARIABLES
    option,         \* the option in the system
    at,             \* where each instance is
    interactive,    \* RunConfig::interactive: no --no-prompt
    collects,       \* NetEventState::engineCollectsNetEvents
    weChanged,      \* NetEventState::weChangedOption
    originalValue,  \* NetEventState::originalValue
    undone          \* history: instances that were killed, or refused, and left
                    \* the option changed since it was last the original one

state == <<collects, weChanged, originalValue>>
vars  == <<option, at, interactive, state, undone>>

Places == {"open", "read", "choice", "set", "setup", "session", "unwind",
           "restore", "ended", "killed"}

Init ==
    /\ option = Original
    /\ at = [i \in Instances |-> "open"]
    /\ interactive \in [Instances -> BOOLEAN]
    /\ collects = [i \in Instances |-> FALSE]
    /\ weChanged = [i \in Instances |-> FALSE]
    /\ originalValue = [i \in Instances |-> 0]
    /\ undone = {}

Goes(i, from, to) == at[i] = from /\ at' = [at EXCEPT ![i] = to]

-----------------------------------------------------------------------------
(* probeAndNegotiateNetEvents().                                           *)

OpenGlobal(i) ==
    /\ Goes(i, "open", "read")
    /\ UNCHANGED <<option, interactive, state, undone>>

\* The engine cannot be opened, or the option cannot be read: the program
\* ends, or the user lets it go on without knowing.
ProbeFails(i) ==
    /\ at[i] \in {"open", "read"}
    /\ \E to \in {"ended"} \cup {p \in {"setup"} : interactive[i]} :
          at' = [at EXCEPT ![i] = to]
    /\ UNCHANGED <<option, interactive, state, undone>>

\* With --no-prompt the program ends when the option is off.
ReadOption(i) ==
    /\ Goes(i, "read", IF option /= 0 THEN "setup"
                       ELSE IF interactive[i] THEN "choice" ELSE "ended")
    /\ collects' = [collects EXCEPT ![i] = option /= 0]
    /\ originalValue' = [originalValue EXCEPT ![i] = option]
    /\ UNCHANGED <<option, interactive, weChanged, undone>>

\* The user answers, at any later time: enable, continue without, or quit.
Choose(i) ==
    /\ Goes(i, "choice", "set") \/ Goes(i, "choice", "setup")
         \/ Goes(i, "choice", "ended")
    /\ UNCHANGED <<option, interactive, state, undone>>

\* Variant: the change is not noted.
EnableForgets(i) ==
    /\ Goes(i, "set", "setup")
    /\ option' = 1
    /\ collects' = [collects EXCEPT ![i] = TRUE]
    /\ UNCHANGED <<interactive, weChanged, originalValue, undone>>

\* Variant: the option counts who has enabled it.
EnableCounts(i) ==
    /\ Goes(i, "set", "setup")
    /\ option' = option + 1
    /\ collects' = [collects EXCEPT ![i] = TRUE]
    /\ weChanged' = [weChanged EXCEPT ![i] = originalValue[i] = 0]
    /\ UNCHANGED <<interactive, originalValue, undone>>

Enable(i) ==
    /\ Goes(i, "set", "setup")
    /\ option' = 1
    /\ collects' = [collects EXCEPT ![i] = TRUE]
    /\ weChanged' = [weChanged EXCEPT ![i] = originalValue[i] = 0]
    /\ UNCHANGED <<interactive, originalValue, undone>>

EnableFails(i) ==
    /\ Goes(i, "set", "ended")
    /\ UNCHANGED <<option, interactive, state, undone>>

-----------------------------------------------------------------------------
(* main(), once the guard exists.                                          *)

\* The session, the transaction and the subscription.
SetUp(i) ==
    /\ Goes(i, "setup", "session")
    /\ UNCHANGED <<option, interactive, state, undone>>

\* One of them fails, or the session ends: the local objects are destroyed.
Unwind(i) ==
    /\ Goes(i, "setup", "unwind") \/ Goes(i, "session", "unwind")
    /\ UNCHANGED <<option, interactive, state, undone>>

\* ~NetEventCollectionGuard and restoreNetEventsIfNeeded().
NothingToRestore(i) ==
    /\ ~weChanged[i]
    /\ Goes(i, "unwind", "ended")
    /\ UNCHANGED <<option, interactive, state, undone>>

\* Variant: what was read is written back by everyone.
ReopenAlways(i) ==
    /\ Goes(i, "unwind", "restore")
    /\ UNCHANGED <<option, interactive, state, undone>>

Reopen(i) ==
    /\ weChanged[i]
    /\ Goes(i, "unwind", "restore")
    /\ UNCHANGED <<option, interactive, state, undone>>

Restore(i) ==
    /\ Goes(i, "restore", "ended")
    /\ option' = originalValue[i]
    /\ undone' = IF option' = Original THEN {} ELSE undone
    /\ UNCHANGED <<interactive, state>>

\* The engine cannot be opened again, or the option not be set: a warning.
RestoreFails(i) ==
    /\ weChanged[i]
    /\ Goes(i, "unwind", "ended") \/ Goes(i, "restore", "ended")
    /\ undone' = IF option /= Original THEN undone \cup {i} ELSE undone
    /\ UNCHANGED <<option, interactive, state>>

Alive(i) == at[i] \notin {"ended", "killed"}

\* The process ends without unwinding: std::terminate, a signal, or the user
\* closes the console window.
Killed(i) ==
    /\ Alive(i)
    /\ at' = [at EXCEPT ![i] = "killed"]
    /\ undone' = IF weChanged[i] /\ option /= Original THEN undone \cup {i} ELSE undone
    /\ UNCHANGED <<option, interactive, state>>

AllGone == (\A i \in Instances : ~Alive(i)) /\ UNCHANGED vars

Negotiate(i) ==
    OpenGlobal(i) \/ ProbeFails(i) \/ ReadOption(i) \/ Choose(i)
        \/ Enable(i) \/ EnableFails(i)

Guarded(i) ==
    SetUp(i) \/ Unwind(i) \/ NothingToRestore(i) \/ Reopen(i) \/ Restore(i)
        \/ RestoreFails(i)

Next ==
    \/ \E i \in Instances : Negotiate(i) \/ Guarded(i) \/ Killed(i)
    \/ AllGone

Spec == Init /\ [][Next]_vars

-----------------------------------------------------------------------------
(* Properties.                                                             *)

TypeOK ==
    /\ option \in {0, 1}
    /\ at \in [Instances -> Places]
    /\ interactive \in [Instances -> BOOLEAN]
    /\ collects \in [Instances -> BOOLEAN]
    /\ weChanged \in [Instances -> BOOLEAN]
    /\ originalValue \in [Instances -> {0, 1}]
    /\ undone \subseteq Instances

(* An option that differs from what it was has somebody who will put it    *)
(* back, unless an instance was killed or could not restore it since it    *)
(* last was what it was: whatever fails in between, the guard knows, and a *)
(* kill or a refusal is over as soon as somebody else restores.            *)
SomebodyRestores ==
    option /= Original => undone /= {} \/ \E i \in Instances : Alive(i) /\ weChanged[i]

(* An instance that found the option on, or turned it on, collects events  *)
(* until it ends; the exception is another instance that has put back what *)
(* it found before.                                                        *)
CollectsUntilTheEnd ==
    \A i \in Instances :
        at[i] \in {"setup", "session"} /\ collects[i] /\ option = 0 =>
            \E j \in Instances \ {i} : weChanged[j] /\ at[j] = "ended"

=============================================================================
