-------------------------- MODULE FwpmTransaction --------------------------
(***************************************************************************)
(* The class FwpmTransaction (local-ip-proxy/FwpmTransaction.hpp): objects *)
(* that stand for the transaction of an engine session.  One thread calls  *)
(* their members, and each call runs to its end before the next; only      *)
(* abort() takes several steps, because it calls itself when the platform  *)
(* refuses.  The platform is modelled as far as the class depends on it:   *)
(* one transaction at a time per session, changes that last only when it   *)
(* is committed, calls that fail, and sessions that break down.            *)
(***************************************************************************)
EXTENDS Integers, FiniteSets

CONSTANTS Txns,     \* the objects
          Engines,  \* the sessions
          NoTxn,
          NoEngine,
          Stack     \* bound: calls of abort() that fit on the stack

ASSUME TransactionAssumption ==
    /\ NoTxn \notin Txns
    /\ NoEngine \notin Engines
    /\ Stack \in Nat

VARIABLES
    state,    \* m_state; "none" while the object does not exist
    engine,   \* m_engine
    aborting, \* the object whose abort() is on the stack
    depth,    \* how often that abort() has called itself
    explicit, \* whether the caller asked for the abort
    result,   \* how the last call ended, and on which object
    running,  \* FALSE once the stack has overflowed
    open,     \* sessions with a transaction in progress
    broken,   \* sessions that have broken down: every call fails
    lacking,  \* history: sessions whose last transaction lacks an addition
              \* that the platform refused
    orphaned  \* history: sessions whose last transaction a destructor failed
              \* to abort

objects  == <<state, engine>>
stack    == <<aborting, depth, explicit>>
platform == <<open, broken>>
history  == <<lacking, orphaned>>
vars     == <<objects, stack, result, running, platform, history>>

States == {"Active", "Committed", "Aborted"}

Exists(o)    == state[o] \in States
Finalized(o) == Exists(o) /\ state[o] /= "Active"
Free         == running /\ aborting = NoTxn

Returned(o, how) == result' = [txn |-> o, how |-> how]

Init ==
    /\ state = [o \in Txns |-> "none"]
    /\ engine = [o \in Txns |-> NoEngine]
    /\ aborting = NoTxn /\ depth = 0 /\ explicit = FALSE
    /\ result = [txn |-> NoTxn, how |-> "ok"]
    /\ running = TRUE
    /\ open = {} /\ broken = {}
    /\ lacking = {} /\ orphaned = {}

-----------------------------------------------------------------------------
(* Construction, moving and destruction.                                   *)

\* beginTransaction().
Construct(o, e) ==
    /\ Free /\ state[o] = "none"
    /\ e \notin open \cup broken
    /\ state' = [state EXCEPT ![o] = "Active"]
    /\ engine' = [engine EXCEPT ![o] = e]
    /\ open' = open \cup {e}
    /\ lacking' = lacking \ {e} /\ orphaned' = orphaned \ {e}
    /\ Returned(o, "ok")
    /\ UNCHANGED <<stack, running, broken>>

\* The handle is null, or the platform refuses to begin: there is no object.
ConstructThrows(o) ==
    /\ Free /\ state[o] = "none"
    /\ \E how \in {"logic", "runtime"} : Returned(o, how)
    /\ UNCHANGED <<objects, stack, running, platform, history>>

\* Variant: the moved-from object stays active.
MoveIntoShares(p, o) ==
    /\ state' = [state EXCEPT ![p] = state[o]]
    /\ engine' = [engine EXCEPT ![p] = engine[o]]
    /\ Returned(p, "ok")
    /\ UNCHANGED <<stack, running, platform, history>>

\* The moved-from object counts as aborted and keeps its copy of the handle.
MoveInto(p, o) ==
    /\ state' = [[state EXCEPT ![p] = state[o]] EXCEPT ![o] = "Aborted"]
    /\ engine' = [engine EXCEPT ![p] = engine[o]]
    /\ Returned(p, "ok")
    /\ UNCHANGED <<stack, running, platform, history>>

MoveConstruct(p, o) == Free /\ state[p] = "none" /\ Exists(o) /\ MoveInto(p, o)

\* What p stood for before is not looked at.
MoveAssign(p, o) == Free /\ Exists(p) /\ Exists(o) /\ MoveInto(p, o)

\* The destructor aborts what is still active.
Destroy(o) ==
    /\ Free /\ Exists(o)
    /\ state' = [state EXCEPT ![o] = "none"]
    /\ open' = IF state[o] = "Active" THEN open \ {engine[o]} ELSE open
    /\ Returned(o, "ok")
    /\ UNCHANGED <<engine, stack, running, broken, history>>

\* It does not look at what FwpmTransactionAbort0 returns.
DestroyInVain(o) ==
    /\ Free /\ state[o] = "Active"
    /\ state' = [state EXCEPT ![o] = "none"]
    /\ orphaned' = orphaned \cup {engine[o]}
    /\ Returned(o, "ok")
    /\ UNCHANGED <<engine, stack, running, platform, lacking>>

-----------------------------------------------------------------------------
(* commit(), abort(), addSubLayer() and addFilter().                       *)

\* ensureActive() throws.
Refused(o) ==
    /\ Free /\ Finalized(o)
    /\ Returned(o, "finalized")
    /\ UNCHANGED <<objects, stack, running, platform, history>>

Calls(o) == Free /\ state[o] = "Active"

Works(o) == Calls(o) /\ engine[o] \notin broken

Commit(o) ==
    /\ Works(o)
    /\ state' = [state EXCEPT ![o] = "Committed"]
    /\ open' = open \ {engine[o]}
    /\ Returned(o, "ok")
    /\ UNCHANGED <<engine, stack, running, broken, history>>

\* A sublayer that exists already counts as added.
Add(o) ==
    /\ Works(o)
    /\ Returned(o, "ok")
    /\ UNCHANGED <<objects, stack, running, platform, history>>

\* Variant: the object counts as aborted before the platform is asked.
StartAbortFinal(o, asked) ==
    /\ state' = [state EXCEPT ![o] = "Aborted"]
    /\ aborting' = o /\ depth' = 0 /\ explicit' = asked
    /\ UNCHANGED <<engine, result, running, platform>>

StartAbort(o, asked) ==
    /\ aborting' = o /\ depth' = 0 /\ explicit' = asked
    /\ UNCHANGED <<objects, result, running, platform>>

Abort(o) == Calls(o) /\ StartAbort(o, TRUE) /\ UNCHANGED history

CommitFails(o) == Calls(o) /\ StartAbort(o, FALSE) /\ UNCHANGED history

\* Variant: it throws without a call of abort().
AddFailsThrows(o) ==
    /\ Calls(o)
    /\ lacking' = lacking \cup {engine[o]}
    /\ Returned(o, "runtime")
    /\ UNCHANGED <<objects, stack, running, platform, orphaned>>

\* FwpmSubLayerAdd0 or FwpmFilterAdd0 fails.
AddFails(o) ==
    /\ Calls(o)
    /\ lacking' = lacking \cup {engine[o]}
    /\ StartAbort(o, FALSE)
    /\ UNCHANGED orphaned

\* Variant: the object stays active.
AbortSucceedsActive ==
    /\ running /\ aborting /= NoTxn
    /\ engine[aborting] \notin broken
    /\ open' = open \ {engine[aborting]}
    /\ Returned(aborting, IF explicit /\ depth = 0 THEN "ok" ELSE "runtime")
    /\ aborting' = NoTxn /\ depth' = 0 /\ explicit' = FALSE
    /\ UNCHANGED <<objects, running, broken, history>>

\* FwpmTransactionAbort0 succeeds.  Only an abort() that was asked for and
\* did not call itself returns normally.
AbortSucceeds ==
    /\ running /\ aborting /= NoTxn
    /\ engine[aborting] \notin broken
    /\ open' = open \ {engine[aborting]}
    /\ state' = [state EXCEPT ![aborting] = "Aborted"]
    /\ Returned(aborting, IF explicit /\ depth = 0 THEN "ok" ELSE "runtime")
    /\ aborting' = NoTxn /\ depth' = 0 /\ explicit' = FALSE
    /\ UNCHANGED <<engine, running, broken, history>>

\* It fails, and abort() calls itself with the transaction still active.
AbortFails ==
    /\ running /\ aborting /= NoTxn
    /\ IF depth < Stack THEN depth' = depth + 1 /\ UNCHANGED running
                        ELSE running' = FALSE /\ UNCHANGED depth
    /\ UNCHANGED <<objects, aborting, explicit, result, platform, history>>

-----------------------------------------------------------------------------

\* A session breaks down; the platform rolls its transaction back.
BreakDown(e) ==
    /\ e \notin broken
    /\ broken' = broken \cup {e}
    /\ open' = open \ {e}
    /\ UNCHANGED <<objects, stack, result, running, history>>

Overflowed == ~running /\ UNCHANGED vars

Next ==
    \/ \E o \in Txns :
          \/ \E e \in Engines : Construct(o, e)
          \/ ConstructThrows(o) \/ Destroy(o) \/ DestroyInVain(o)
          \/ \E p \in Txns : MoveConstruct(p, o) \/ MoveAssign(p, o)
          \/ Refused(o) \/ Commit(o) \/ Add(o)
          \/ Abort(o) \/ CommitFails(o) \/ AddFails(o)
    \/ AbortSucceeds \/ AbortFails
    \/ \E e \in Engines : BreakDown(e)
    \/ Overflowed

Spec == Init /\ [][Next]_vars

-----------------------------------------------------------------------------
(* Properties.                                                             *)

Outcomes == [txn : Txns \cup {NoTxn}, how : {"ok", "logic", "runtime", "finalized"}]

(* While abort() runs, calls of itself included, its object is active.     *)
TypeOK ==
    /\ state \in [Txns -> States \cup {"none"}]
    /\ engine \in [Txns -> Engines \cup {NoEngine}]
    /\ aborting \in Txns \cup {NoTxn}
    /\ aborting /= NoTxn => state[aborting] = "Active"
    /\ depth \in 0..Stack
    /\ explicit \in BOOLEAN
    /\ result \in Outcomes
    /\ running \in BOOLEAN
    /\ open \subseteq Engines
    /\ broken \subseteq Engines
    /\ lacking \subseteq Engines
    /\ orphaned \subseteq Engines

(* However objects are moved, a transaction in progress has at most one    *)
(* active object, and an active object has a transaction in progress: no   *)
(* two objects commit or abort the same one.                               *)
OneOwner ==
    \A o \in Txns :
        state[o] = "Active" =>
            /\ engine[o] \in open \cup broken
            /\ \A p \in Txns \ {o} : state[p] = "Active" => engine[p] /= engine[o]

(* Whenever the caller has control, no transaction in progress lacks an    *)
(* addition that was refused: what can still be committed is whole.  It is *)
(* what the calls of abort() in addSubLayer() and addFilter() are for.     *)
NoHalfTransaction == Free => lacking \cap open = {}

(* Whoever gets a FwpmTransactionRuntimeException holds an aborted object, *)
(* and nothing of its transaction is left.                                 *)
FailureAborts ==
    Free /\ result.how = "runtime" /\ Exists(result.txn) =>
        state[result.txn] = "Aborted" /\ engine[result.txn] \notin open

(* The comment on the class: "If not explicitly committed or aborted, then *)
(* the destructor implicitly aborts the transaction".  A transaction in    *)
(* progress has an object whose destructor will abort it, or had one whose *)
(* destructor the platform refused.                                        *)
ImplicitAbort ==
    \A e \in open \ orphaned : \E o \in Txns : state[o] = "Active" /\ engine[o] = e

=============================================================================
