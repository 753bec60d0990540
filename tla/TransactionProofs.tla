------------------------- MODULE TransactionProofs -------------------------
(***************************************************************************)
(* Proofs about FwpmTransaction, for any number of objects and sessions.   *)
(***************************************************************************)
EXTENDS FwpmTransaction, TLAPS

\* Whoever is active has a session.
Handled == \A o \in Txns : state[o] = "Active" => engine[o] \in Engines

(* Init and every action keep the variables in their types; an object      *)
(* whose abort() is on the stack is active.                                *)
THEOREM TransactionTypeCorrect == Spec => [](TypeOK /\ Handled)
<1>1. Init => TypeOK /\ Handled
  <2> SUFFICES ASSUME Init PROVE TypeOK /\ Handled
    OBVIOUS
  <2>1. depth \in 0..Stack
    BY TransactionAssumption DEF Init
  <2>2. result \in Outcomes
    BY DEF Init, Outcomes
  <2> QED
    BY <2>1, <2>2 DEF Init, TypeOK, Handled, States
<1>2. TypeOK /\ Handled /\ [Next]_vars => TypeOK' /\ Handled'
  <2> SUFFICES ASSUME TypeOK, Handled, [Next]_vars PROVE TypeOK' /\ Handled'
    OBVIOUS
  <2> USE TransactionAssumption
      DEF TypeOK, Handled, States, Outcomes, objects, stack, platform, history,
          Free, Returned, Exists, Finalized, Calls, Works, StartAbort
  <2>1. ASSUME NEW o \in Txns, NEW e \in Engines, Construct(o, e)
        PROVE  TypeOK' /\ Handled'
    BY <2>1 DEF Construct
  <2>2. ASSUME NEW o \in Txns, ConstructThrows(o) PROVE TypeOK' /\ Handled'
    BY <2>2 DEF ConstructThrows
  <2>3. ASSUME NEW o \in Txns, NEW p \in Txns, MoveConstruct(p, o) \/ MoveAssign(p, o)
        PROVE  TypeOK' /\ Handled'
    BY <2>3 DEF MoveConstruct, MoveAssign, MoveInto
  <2>4. ASSUME NEW o \in Txns, Destroy(o) \/ DestroyInVain(o)
        PROVE  TypeOK' /\ Handled'
    BY <2>4 DEF Destroy, DestroyInVain
  <2>5. ASSUME NEW o \in Txns, Refused(o) \/ Add(o) PROVE TypeOK' /\ Handled'
    BY <2>5 DEF Refused, Add
  <2>6. ASSUME NEW o \in Txns, Commit(o) PROVE TypeOK' /\ Handled'
    BY <2>6 DEF Commit
  <2>7. ASSUME NEW o \in Txns, Abort(o) \/ CommitFails(o)
        PROVE  TypeOK' /\ Handled'
    <3>1. depth' \in 0..Stack
      BY ONLY <2>7, TransactionAssumption DEF Abort, CommitFails, StartAbort
    <3>2. /\ aborting' = o /\ explicit' \in BOOLEAN /\ state[o] = "Active"
          /\ UNCHANGED <<objects, result, running, platform, history>>
      BY ONLY <2>7 DEF Abort, CommitFails, StartAbort, Calls
    <3> QED
      BY <3>1, <3>2
  <2>8. ASSUME NEW o \in Txns, AddFails(o) PROVE TypeOK' /\ Handled'
    <3>1. depth' \in 0..Stack
      BY ONLY <2>8, TransactionAssumption DEF AddFails, StartAbort
    <3>2. /\ aborting' = o /\ explicit' \in BOOLEAN /\ state[o] = "Active"
          /\ lacking' = lacking \cup {engine[o]}
          /\ UNCHANGED <<objects, result, running, platform, orphaned>>
      BY ONLY <2>8 DEF AddFails, StartAbort, Calls
    <3> QED
      BY <3>1, <3>2
  <2>9. CASE AbortSucceeds
    <3>1. aborting \in Txns /\ engine[aborting] \in Engines
      BY <2>9 DEF AbortSucceeds
    <3>2. result' \in Outcomes
      BY <2>9, <3>1 DEF AbortSucceeds
    <3>3. depth' \in 0..Stack
      BY <2>9 DEF AbortSucceeds
    <3> QED
      BY <2>9, <3>1, <3>2, <3>3 DEF AbortSucceeds
  <2>10. CASE AbortFails
    <3>1. depth' \in 0..Stack
      <4>1. depth \in Int /\ 0 <= depth /\ depth <= Stack /\ Stack \in Nat
        BY TransactionAssumption
      <4>2. depth' = depth \/ (depth < Stack /\ depth' = depth + 1)
        BY ONLY <2>10 DEF AbortFails
      <4> QED
        BY ONLY <4>1, <4>2
    <3>2. UNCHANGED <<objects, aborting, explicit, result, platform, history>>
          /\ running' \in BOOLEAN
      BY <2>10 DEF AbortFails
    <3> QED
      BY <3>1, <3>2
  <2>11. ASSUME NEW e \in Engines, BreakDown(e) PROVE TypeOK' /\ Handled'
    BY <2>11 DEF BreakDown
  <2>12. CASE Overflowed \/ UNCHANGED vars
    BY <2>12 DEF Overflowed, vars
  <2> QED
    BY <2>1, <2>2, <2>3, <2>4, <2>5, <2>6, <2>7, <2>8, <2>9, <2>10, <2>11,
       <2>12 DEF Next
<1> QED
  BY <1>1, <1>2, PTL DEF Spec

(* Only the transaction that is being given up can lack a refused          *)
(* addition: NoHalfTransaction with abort() on the stack.                  *)
HalfIsAborted ==
    \A e \in lacking \cap open : aborting /= NoTxn /\ engine[aborting] = e

(* One active object for a transaction, which lacks nothing unless it is   *)
(* being given up, and none after a failure.                               *)
THEOREM TransactionInvHolds == Spec => [](OneOwner /\ HalfIsAborted /\ FailureAborts)
<1> DEFINE Good == OneOwner /\ HalfIsAborted /\ FailureAborts
<1>1. Init => Good
  BY DEF Init, OneOwner, HalfIsAborted, FailureAborts
<1>2. TypeOK /\ Handled /\ Good /\ [Next]_vars => Good'
  <2> SUFFICES ASSUME TypeOK, Handled, Good, [Next]_vars PROVE Good'
    OBVIOUS
  <2>0. /\ state \in [Txns -> States \cup {"none"}]
        /\ engine \in [Txns -> Engines \cup {NoEngine}]
        /\ aborting \in Txns \cup {NoTxn} /\ NoTxn \notin Txns
        /\ aborting /= NoTxn => state[aborting] = "Active"
        /\ NoEngine \notin Engines
        /\ result.txn \in Txns \cup {NoTxn}
    BY TransactionAssumption DEF TypeOK, Outcomes
  <2> USE <2>0 DEF Handled, OneOwner, HalfIsAborted, FailureAborts, States,
          objects, stack, platform, history, Free, Returned, Exists, Finalized,
          Calls, Works, StartAbort
  <2>1. ASSUME NEW o \in Txns, NEW e \in Engines, Construct(o, e) PROVE Good'
    BY <2>1 DEF Construct
  <2>2. ASSUME NEW o \in Txns, ConstructThrows(o) PROVE Good'
    BY <2>2 DEF ConstructThrows
  <2>3. ASSUME NEW o \in Txns, NEW p \in Txns, MoveConstruct(p, o) \/ MoveAssign(p, o)
        PROVE  Good'
    BY <2>3 DEF MoveConstruct, MoveAssign, MoveInto
  <2>4. ASSUME NEW o \in Txns, Destroy(o) \/ DestroyInVain(o) PROVE Good'
    BY <2>4 DEF Destroy, DestroyInVain
  <2>5. ASSUME NEW o \in Txns, Refused(o) \/ Add(o) PROVE Good'
    BY <2>5 DEF Refused, Add
  <2>6. ASSUME NEW o \in Txns, Commit(o) PROVE Good'
    BY <2>6 DEF Commit
  <2>7. ASSUME NEW o \in Txns, Abort(o) \/ CommitFails(o) PROVE Good'
    BY <2>7 DEF Abort, CommitFails
  <2>8. ASSUME NEW o \in Txns, AddFails(o) PROVE Good'
    BY <2>8 DEF AddFails
  <2>9. CASE AbortSucceeds
    BY <2>9 DEF AbortSucceeds
  <2>10. CASE AbortFails
    BY <2>10 DEF AbortFails
  <2>11. ASSUME NEW e \in Engines, BreakDown(e) PROVE Good'
    BY <2>11 DEF BreakDown
  <2>12. CASE Overflowed \/ UNCHANGED vars
    BY <2>12 DEF Overflowed, vars
  <2> QED
    BY <2>1, <2>2, <2>3, <2>4, <2>5, <2>6, <2>7, <2>8, <2>9, <2>10, <2>11,
       <2>12 DEF Next
<1> QED
  BY <1>1, <1>2, TransactionTypeCorrect, PTL DEF Spec

(* No two objects commit or abort the same transaction.                    *)
THEOREM OneOwnerHolds == Spec => []OneOwner
<1> QED
  BY TransactionInvHolds, PTL

(* A refused addition leaves no transaction in progress that lacks it: no  *)
(* commit makes half a transaction last.                                   *)
THEOREM NoHalfTransactionHolds == Spec => []NoHalfTransaction
<1>1. HalfIsAborted => NoHalfTransaction
  BY DEF HalfIsAborted, NoHalfTransaction, Free
<1> QED
  BY <1>1, TransactionInvHolds, PTL

(* Whoever sees a call fail holds an aborted object, and nothing is open.  *)
THEOREM FailureAbortsHolds == Spec => []FailureAborts
<1> QED
  BY TransactionInvHolds, PTL

=============================================================================
