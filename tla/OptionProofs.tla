---------------------------- MODULE OptionProofs ----------------------------
(***************************************************************************)
(* Proofs about NetEventOption, for any number of instances and either     *)
(* original value.                                                         *)
(***************************************************************************)
EXTENDS NetEventOption, TLAPS

Negotiating == {"open", "read", "choice", "set"}

(* What an instance knows while it negotiates: it has changed nothing, and *)
(* it gets to a choice only when it has found the option off.              *)
Knows ==
    \A i \in Instances :
        /\ at[i] \in Negotiating => ~collects[i] /\ ~weChanged[i]
        /\ at[i] \in {"choice", "set"} => originalValue[i] = 0
        /\ weChanged[i] => originalValue[i] = 0
        /\ at[i] = "restore" => weChanged[i]
        /\ at[i] \in {"choice", "set"} \/ weChanged[i] => interactive[i]

(* An option that was on at first stays on, and nobody asks about it.      *)
OnStaysOn ==
    Original = 1 => /\ option = 1
                    /\ \A i \in Instances : /\ ~weChanged[i]
                                            /\ at[i] \notin {"choice", "set"}

OptionInv == Knows /\ OnStaysOn /\ SomebodyRestores /\ CollectsUntilTheEnd

\* Init and every action keep the variables in their types.
THEOREM OptionTypeCorrect == Spec => []TypeOK
<1>1. Init => TypeOK
  BY OptionAssumption DEF Init, TypeOK, Places
<1>2. TypeOK /\ [Next]_vars => TypeOK'
  <2> SUFFICES ASSUME TypeOK, [Next]_vars PROVE TypeOK'
    OBVIOUS
  <2> USE DEF TypeOK, Places, state, Goes
  <2>1. ASSUME NEW i \in Instances, OpenGlobal(i) \/ ProbeFails(i) \/ Choose(i)
        PROVE  TypeOK'
    BY <2>1 DEF OpenGlobal, ProbeFails, Choose
  <2>2. ASSUME NEW i \in Instances, ReadOption(i) \/ Enable(i) \/ EnableFails(i)
        PROVE  TypeOK'
    <3>1. CASE ReadOption(i)
      <4>1. at' \in [Instances -> Places] /\ originalValue' \in [Instances -> {0, 1}]
        BY <3>1 DEF ReadOption
      <4>2. collects' \in [Instances -> BOOLEAN]
        <5>1. (option /= 0) \in BOOLEAN
          OBVIOUS
        <5> QED
          BY Zenon, <3>1, <5>1 DEF ReadOption
      <4> QED
        BY <3>1, <4>1, <4>2 DEF ReadOption
    <3>2. CASE Enable(i)
      <4>1. weChanged' \in [Instances -> BOOLEAN]
        <5>1. (originalValue[i] = 0) \in BOOLEAN
          OBVIOUS
        <5> QED
          BY Zenon, <3>2, <5>1 DEF Enable
      <4> QED
        BY <3>2, <4>1 DEF Enable
    <3>3. CASE EnableFails(i)
      BY <3>3 DEF EnableFails
    <3> QED
      BY <2>2, <3>1, <3>2, <3>3
  <2>3. ASSUME NEW i \in Instances, Guarded(i) PROVE TypeOK'
    BY <2>3 DEF Guarded, SetUp, Unwind, NothingToRestore, Reopen, Restore,
                RestoreFails
  <2>4. ASSUME NEW i \in Instances, Killed(i) PROVE TypeOK'
    BY <2>4 DEF Killed
  <2>5. CASE AllGone \/ UNCHANGED vars
    BY <2>5 DEF AllGone, vars
  <2> QED
    BY <2>1, <2>2, <2>3, <2>4, <2>5 DEF Next, Negotiate
<1> QED
  BY <1>1, <1>2, PTL DEF Spec

(* One step per action; each names the one instance that moves.            *)
THEOREM OptionInvHolds == Spec => []OptionInv
<1>1. Init => OptionInv
  BY OptionAssumption DEF Init, OptionInv, Knows, OnStaysOn, SomebodyRestores,
     CollectsUntilTheEnd, Negotiating
<1>2. TypeOK /\ OptionInv /\ [Next]_vars => OptionInv'
  <2> SUFFICES ASSUME TypeOK, OptionInv, [Next]_vars PROVE OptionInv'
    OBVIOUS
  <2>0. /\ at \in [Instances -> Places] /\ option \in {0, 1} /\ Original \in {0, 1}
        /\ collects \in [Instances -> BOOLEAN]
        /\ weChanged \in [Instances -> BOOLEAN]
        /\ originalValue \in [Instances -> {0, 1}]
        /\ interactive \in [Instances -> BOOLEAN]
    BY OptionAssumption DEF TypeOK
  <2> USE <2>0 DEF OptionInv, Knows, OnStaysOn, SomebodyRestores,
          CollectsUntilTheEnd, Negotiating, state, Goes, Alive
  <2>1. ASSUME NEW i \in Instances, OpenGlobal(i) PROVE OptionInv'
    BY <2>1 DEF OpenGlobal
  <2>2. ASSUME NEW i \in Instances, ProbeFails(i) PROVE OptionInv'
    BY <2>2 DEF ProbeFails
  <2>3. ASSUME NEW i \in Instances, ReadOption(i) PROVE OptionInv'
    BY <2>3 DEF ReadOption
  <2>4. ASSUME NEW i \in Instances, Choose(i) PROVE OptionInv'
    BY <2>4 DEF Choose
  <2>5. ASSUME NEW i \in Instances, Enable(i) PROVE OptionInv'
    BY <2>5 DEF Enable
  <2>6. ASSUME NEW i \in Instances, EnableFails(i) PROVE OptionInv'
    BY <2>6 DEF EnableFails
  <2>7. ASSUME NEW i \in Instances, SetUp(i) PROVE OptionInv'
    BY <2>7 DEF SetUp
  <2>8. ASSUME NEW i \in Instances, Unwind(i) PROVE OptionInv'
    BY <2>8 DEF Unwind
  <2>9. ASSUME NEW i \in Instances, NothingToRestore(i) PROVE OptionInv'
    BY <2>9 DEF NothingToRestore
  <2>10. ASSUME NEW i \in Instances, Reopen(i) PROVE OptionInv'
    BY <2>10 DEF Reopen
  <2>11. ASSUME NEW i \in Instances, Restore(i) PROVE OptionInv'
    BY <2>11 DEF Restore
  <2>12. ASSUME NEW i \in Instances, RestoreFails(i) PROVE OptionInv'
    BY <2>12 DEF RestoreFails
  <2>13. ASSUME NEW i \in Instances, Killed(i) PROVE OptionInv'
    BY <2>13 DEF Killed
  <2>14. CASE AllGone \/ UNCHANGED vars
    BY <2>14 DEF AllGone, vars
  <2> QED
    BY <2>1, <2>2, <2>3, <2>4, <2>5, <2>6, <2>7, <2>8, <2>9, <2>10, <2>11,
       <2>12, <2>13, <2>14 DEF Next, Negotiate, Guarded
<1> QED
  BY <1>1, <1>2, OptionTypeCorrect, PTL DEF Spec

(* A changed option has somebody who will put it back.                     *)
THEOREM SomebodyRestoresHolds == Spec => []SomebodyRestores
<1>1. OptionInv => SomebodyRestores
  BY DEF OptionInv
<1> QED
  BY <1>1, OptionInvHolds, PTL

(* Only another instance's restore takes the events away from one.         *)
THEOREM CollectsUntilTheEndHolds == Spec => []CollectsUntilTheEnd
<1>1. OptionInv => CollectsUntilTheEnd
  BY DEF OptionInv
<1> QED
  BY <1>1, OptionInvHolds, PTL

=============================================================================
