-------------------------- MODULE AggregatorProofs --------------------------
(***************************************************************************)
(* Proofs about EventAggregator, for every set of keys and callbacks and   *)
(* every number of events.                                                 *)
(***************************************************************************)
EXTENDS EventAggregator, FiniteSetTheorems, TLAPS

-----------------------------------------------------------------------------
(* Type correctness.                                                       *)

\* What a callback computes from its key has the type of a count.
Keyed == \A c \in Callbacks : key[c] = NoKey <=> cb[c] = "idle"

\* Init and every action keep the variables in their types.
THEOREM AggregatorTypes == Spec => [](TypeOK /\ Keyed)
<1>1. Init => TypeOK /\ Keyed
  <2> SUFFICES ASSUME Init PROVE TypeOK /\ Keyed
    OBVIOUS
  <2>1. /\ at \in [Printers -> Places]
        /\ cb \in [Callbacks -> CallbackPlaces] /\ Keyed
    BY DEF Init, Keyed, Places, CallbackPlaces
  <2>2. changed \in [Printers -> [Keys -> Nat]] /\ todo \in [Printers -> SUBSET Keys]
    BY DEF Init
  <2> QED
    BY <2>1, <2>2 DEF Init, TypeOK
<1>2. TypeOK /\ Keyed /\ [Next]_vars => TypeOK' /\ Keyed'
  <2> SUFFICES ASSUME TypeOK, Keyed, [Next]_vars PROVE TypeOK' /\ Keyed'
    OBVIOUS
  <2> USE AggregatorAssumption DEF TypeOK, Keyed, control, calls, stats, report
  <2>1. ASSUME NEW c \in Callbacks, NEW k \in Keys, Deliver(c, k)
        PROVE  TypeOK' /\ Keyed'
    BY <2>1 DEF Deliver, CallbackGoes, CallbackPlaces
  <2>2. ASSUME NEW c \in Callbacks, CallbackLocks(c) PROVE TypeOK' /\ Keyed'
    BY <2>2 DEF CallbackLocks, CallbackGoes, CallbackPlaces
  <2>3. ASSUME NEW c \in Callbacks, ReadCount(c) PROVE TypeOK' /\ Keyed'
    <3>1. key[c] \in Keys
      BY <2>3 DEF ReadCount, CallbackGoes
    <3> QED
      BY <2>3, <3>1 DEF ReadCount, CallbackGoes, CallbackPlaces
  <2>4. ASSUME NEW c \in Callbacks, WriteCount(c) PROVE TypeOK' /\ Keyed'
    <3>1. key[c] \in Keys
      BY <2>4 DEF WriteCount, CallbackGoes
    <3> QED
      BY <2>4, <3>1 DEF WriteCount, CallbackGoes, CallbackPlaces
  <2>5. ASSUME NEW p \in Printers, PrinterLocks(p) PROVE TypeOK' /\ Keyed'
    BY <2>5 DEF PrinterLocks, Goes, Places
  <2>6. ASSUME NEW p \in Printers, Scan(p) PROVE TypeOK' /\ Keyed'
    <3>1. changed' \in [Printers -> [Keys -> Nat]]
      <4>1. \/ changed' = changed
            \/ \E k \in Keys : changed' = [changed EXCEPT ![p][k] = count[k]]
        BY <2>6 DEF Scan
      <4> QED
        BY <4>1
    <3>2. lastPrinted' \in [Keys -> Nat] /\ todo' \in [Printers -> SUBSET Keys]
      BY <2>6 DEF Scan
    <3> QED
      BY <2>6, <3>1, <3>2 DEF Scan
  <2>7. ASSUME NEW p \in Printers, PrinterUnlocks(p) PROVE TypeOK' /\ Keyed'
    BY <2>7 DEF PrinterUnlocks, Goes, Places, AfterPrint
  <2>8. ASSUME NEW p \in Printers, PrintLine(p) PROVE TypeOK' /\ Keyed'
    <3>1. PICK k \in Keys :
             /\ shown' = [shown EXCEPT ![k] = changed[p][k]]
             /\ changed' = [changed EXCEPT ![p][k] = 0]
             /\ Goes(p, "print", IF Pending(p) = {k} THEN AfterPrint(p)
                                                     ELSE "print")
      BY <2>8 DEF PrintLine, Pending
    <3>2. changed' \in [Printers -> [Keys -> Nat]] /\ shown' \in [Keys -> Nat]
      BY <3>1
    <3>3. at' \in [Printers -> Places]
      BY <3>1 DEF Goes, AfterPrint, Places
    <3> QED
      BY <2>8, <3>2, <3>3 DEF PrintLine
  <2>9. CASE CheckStop \/ WaitEnds
    BY <2>9 DEF CheckStop, WaitEnds, Goes, Places
  <2>10. CASE Subscribe \/ SetupFails \/ Throws \/ LineRead \/ RequestStop
              \/ JoinPrinter \/ EndSubscription \/ UnsubscribeSkipped
              \/ SubscriptionEnded \/ Return
    BY <2>10 DEF Subscribe, SetupFails, Throws, LineRead, RequestStop,
         JoinPrinter, EndSubscription, UnsubscribeSkipped,
         SubscriptionEnded, Return, Goes, Places
  <2>11. CASE StartPrinter
    BY <2>11 DEF StartPrinter, Places
  <2>12. CASE Exited \/ UNCHANGED vars
    BY <2>12 DEF Exited, vars
  <2> QED
    BY <2>1, <2>2, <2>3, <2>4, <2>5, <2>6, <2>7, <2>8, <2>9, <2>10, <2>11, <2>12
       DEF Next, Callback, Printer, MainWorks, Report, Printers
<1> QED
  BY <1>1, <1>2, PTL DEF Spec

-----------------------------------------------------------------------------
(* The order in which the threads come and go.                             *)

Over == {"return", "done"}

(* The printer runs only between its start and the join, and the final     *)
(* doPrint() begins only after the subscription has ended.                 *)
Phases ==
    /\ at["printer"] \notin {"setup", "start", "getline", "stop", "join",
                             "unsubscribe", "close", "return"}
    /\ at["main"] \notin {"none", "check", "wait"}
    /\ at["main"] \in {"setup", "start"} => at["printer"] = "none"
    /\ at["main"] \in {"unsubscribe", "close", "lock", "scan", "print"} \cup Over
          => at["printer"] \in {"none", "done"}
    /\ at["main"] \in {"setup", "lock", "scan", "print"} \cup Over
          => ~subscribed /\ \A c \in Callbacks : cb[c] = "idle"

(* Whoever works on the map holds the mutex.                               *)
Locking ==
    /\ \A p \in Printers : at[p] = "scan" <=> mtx = p
    /\ \A c \in Callbacks : cb[c] \in {"read", "write"} <=> mtx = c
    /\ \A c \in Callbacks : cb[c] = "write" => reg[c] = count[key[c]]

THEOREM PhasesHold == Spec => []Phases
<1>1. Init => Phases
  BY DEF Init, Phases, Printers, Over
<1>2. TypeOK /\ Phases /\ [Next]_vars => Phases'
  <2> SUFFICES ASSUME TypeOK, Phases, [Next]_vars PROVE Phases'
    OBVIOUS
  <2>0. /\ at \in [Printers -> Places] /\ cb \in [Callbacks -> CallbackPlaces]
        /\ "main" \in Printers /\ "printer" \in Printers
    BY DEF TypeOK, Printers
  <2> USE DEF control, calls, stats, report
  <2>1. ASSUME NEW c \in Callbacks, NEW k \in Keys, Deliver(c, k) PROVE Phases'
    BY <2>1 DEF Deliver, Phases
  <2>2. ASSUME NEW c \in Callbacks, Callback(c) PROVE Phases'
    <3>1. /\ cb[c] /= "idle" /\ UNCHANGED control
          /\ \E to \in CallbackPlaces : cb' = [cb EXCEPT ![c] = to]
      BY <2>2 DEF Callback, CallbackLocks, ReadCount, WriteCount, CallbackGoes,
                  CallbackPlaces
    <3> QED
      BY <3>1 DEF Phases
  <2>3. ASSUME NEW p \in Printers, Report(p) PROVE Phases'
    <3>1. UNCHANGED <<stop, subscribed, cb>>
      BY <2>3 DEF Report, PrinterLocks, Scan, PrinterUnlocks, PrintLine
    <3>2. /\ at[p] \in {"lock", "scan", "print"}
          /\ \E to \in {"scan", "print", AfterPrint(p)} : at' = [at EXCEPT ![p] = to]
      <4>1. CASE PrinterLocks(p) \/ PrinterUnlocks(p) \/ PrintLine(p)
        BY <4>1 DEF PrinterLocks, PrinterUnlocks, PrintLine, Goes
      <4>2. CASE Scan(p)
        BY <4>2, <2>0 DEF Scan
      <4> QED
        BY <2>3, <4>1, <4>2 DEF Report
    <3> QED
      BY <2>0, <3>1, <3>2 DEF Phases, AfterPrint, Over, Printers
  <2>4. CASE CheckStop \/ WaitEnds
    BY <2>0, <2>4 DEF CheckStop, WaitEnds, Goes, Phases, Over
  <2>5. CASE Subscribe \/ SetupFails \/ Throws \/ LineRead \/ RequestStop
             \/ JoinPrinter \/ EndSubscription \/ UnsubscribeSkipped
              \/ SubscriptionEnded \/ Return
    BY <2>0, <2>5 DEF Subscribe, SetupFails, Throws, LineRead, RequestStop,
       JoinPrinter, EndSubscription, UnsubscribeSkipped,
       SubscriptionEnded, Return, Goes, Phases, Over
  <2>6. CASE StartPrinter
    BY <2>0, <2>6 DEF StartPrinter, Phases, Over
  <2>7. CASE Exited \/ UNCHANGED vars
    BY <2>7 DEF Exited, vars, Phases
  <2> QED
    BY <2>0, <2>1, <2>2, <2>3, <2>4, <2>5, <2>6, <2>7
       DEF Next, Printer, MainWorks
<1> QED
  BY <1>1, <1>2, AggregatorTypes, PTL DEF Spec

(* The static cache of layer names has one user at a time.                 *)
THEOREM CacheSingleThreadedHolds == Spec => []CacheSingleThreaded
<1>1. Phases => CacheSingleThreaded
  BY DEF Phases, CacheSingleThreaded, Printers, Over
<1> QED
  BY <1>1, PhasesHold, PTL

-----------------------------------------------------------------------------
(* Counting under the mutex.                                               *)

THEOREM LockingHolds == Spec => []Locking
<1>1. Init => Locking
  BY AggregatorAssumption DEF Init, Locking, Printers
<1>2. TypeOK /\ Keyed /\ Phases /\ Locking /\ [Next]_vars => Locking'
  <2> SUFFICES ASSUME TypeOK, Keyed, Phases, Locking, [Next]_vars PROVE Locking'
    OBVIOUS
  <2>0. /\ at \in [Printers -> Places] /\ cb \in [Callbacks -> CallbackPlaces]
        /\ "main" \in Printers /\ "printer" \in Printers
        /\ reg \in [Callbacks -> Nat] /\ count \in [Keys -> Nat]
        /\ key \in [Callbacks -> Keys \cup {NoKey}]
        /\ Callbacks \cap Printers = {}
        /\ NoThread \notin Callbacks \cup Printers
    BY AggregatorAssumption DEF TypeOK, Printers
  <2> USE DEF control, calls, stats, report
  <2>1. ASSUME NEW c \in Callbacks, NEW k \in Keys, Deliver(c, k) PROVE Locking'
    BY <2>0, <2>1 DEF Deliver, CallbackGoes, Locking
  <2>2. ASSUME NEW c \in Callbacks, CallbackLocks(c) PROVE Locking'
    BY <2>0, <2>2 DEF CallbackLocks, CallbackGoes, Locking
  <2>3. ASSUME NEW c \in Callbacks, ReadCount(c) PROVE Locking'
    BY <2>0, <2>3 DEF ReadCount, CallbackGoes, Locking
  <2>4. ASSUME NEW c \in Callbacks, WriteCount(c) PROVE Locking'
    <3>1. mtx = c /\ cb[c] = "write" /\ mtx' = NoThread /\ at' = at
          /\ cb' = [cb EXCEPT ![c] = "idle"]
      BY <2>4 DEF WriteCount, CallbackGoes, Locking
    <3>2. \A d \in Callbacks : cb'[d] \notin {"read", "write"}
      BY <2>0, <3>1 DEF Locking
    <3>3. \A p \in Printers : at[p] /= "scan"
      BY <2>0, <3>1 DEF Locking
    <3> QED
      BY <2>0, <3>1, <3>2, <3>3 DEF Locking
  <2>5. ASSUME NEW p \in Printers, PrinterLocks(p) PROVE Locking'
    BY <2>0, <2>5 DEF PrinterLocks, Goes, Locking
  <2>6. ASSUME NEW p \in Printers, Scan(p) PROVE Locking'
    BY <2>6 DEF Scan, Locking
  <2>7. ASSUME NEW p \in Printers, PrinterUnlocks(p) PROVE Locking'
    <3>1. at'[p] /= "scan" /\ at[p] = "scan" /\ mtx' = NoThread
          /\ \A q \in Printers \ {p} : at'[q] = at[q]
      BY <2>0, <2>7 DEF PrinterUnlocks, Goes, AfterPrint
    <3>2. UNCHANGED <<cb, reg, count, key>>
      BY <2>7 DEF PrinterUnlocks
    <3> QED
      BY <2>0, <3>1, <3>2 DEF Locking
  <2>8. ASSUME NEW p \in Printers, PrintLine(p) PROVE Locking'
    <3>1. at[p] = "print" /\ at'[p] /= "scan"
          /\ \A q \in Printers \ {p} : at'[q] = at[q]
      BY <2>0, <2>8 DEF PrintLine, Goes, AfterPrint
    <3>2. UNCHANGED <<cb, reg, count, key, mtx>>
      BY <2>8 DEF PrintLine
    <3> QED
      BY <2>0, <3>1, <3>2 DEF Locking
  <2>9. CASE CheckStop \/ WaitEnds
    BY <2>0, <2>9 DEF CheckStop, WaitEnds, Goes, Locking
  <2>10. CASE Subscribe \/ SetupFails \/ Throws \/ LineRead \/ RequestStop
              \/ JoinPrinter \/ EndSubscription \/ UnsubscribeSkipped
              \/ SubscriptionEnded \/ Return
    BY <2>0, <2>10 DEF Subscribe, SetupFails, Throws, LineRead, RequestStop,
       JoinPrinter, EndSubscription, UnsubscribeSkipped,
       SubscriptionEnded, Return, Goes, Locking
  <2>11. CASE StartPrinter
    <3>1. at["main"] = "start" /\ at["printer"] = "none"
      BY <2>11 DEF StartPrinter, Phases
    <3>2. \A p \in Printers : at[p] /= "scan" /\ at'[p] /= "scan"
      BY <2>11, <3>1 DEF StartPrinter, Printers
    <3>3. UNCHANGED <<mtx, cb, reg, count, key>>
      BY <2>11 DEF StartPrinter
    <3> QED
      BY <3>2, <3>3 DEF Locking
  <2>12. CASE Exited \/ UNCHANGED vars
    BY <2>12 DEF Exited, vars, Locking
  <2> QED
    BY <2>0, <2>1, <2>2, <2>3, <2>4, <2>5, <2>6, <2>7, <2>8, <2>9, <2>10, <2>11,
       <2>12 DEF Next, Callback, Printer, MainWorks, Report
<1> QED
  BY <1>1, <1>2, AggregatorTypes, PhasesHold, PTL DEF Spec

-----------------------------------------------------------------------------
(***************************************************************************)
(* No increment is lost.                                                   *)
(***************************************************************************)

\* The callbacks that have yet to record an event of a key.
Recording(k) == {c \in Callbacks : key[c] = k}

(* A callback on its way joins the callbacks that record its key, and      *)
(* leaves them when it has increased the count.                            *)
THEOREM CountsExactHolds == Spec => []CountsExact
<1>1. Init => CountsExact
  <2> SUFFICES ASSUME Init, NEW k \in Keys
               PROVE  count[k] + Cardinality(Recording(k)) = delivered[k]
    BY DEF CountsExact, Recording
  <2>1. Recording(k) = {}
    BY AggregatorAssumption DEF Init, Recording
  <2> QED
    BY <2>1, FS_EmptySet DEF Init
<1>2. TypeOK /\ Keyed /\ Locking /\ CountsExact /\ [Next]_vars => CountsExact'
  <2> SUFFICES ASSUME TypeOK, Keyed, Locking, CountsExact, [Next]_vars,
                      NEW j \in Keys
               PROVE  count'[j] + Cardinality(Recording(j)') = delivered'[j]
    BY DEF CountsExact, Recording
  <2>0. /\ count[j] \in Nat /\ delivered[j] \in Nat
        /\ key \in [Callbacks -> Keys \cup {NoKey}]
        /\ count \in [Keys -> Nat] /\ delivered \in [Keys -> Nat]
        /\ NoKey \notin Keys
    BY AggregatorAssumption DEF TypeOK
  <2>1. IsFiniteSet(Recording(j)) /\ Cardinality(Recording(j)) \in Nat
    BY AggregatorAssumption, FS_Subset, FS_CardinalityType DEF Recording
  <2>2. count[j] + Cardinality(Recording(j)) = delivered[j]
    BY DEF CountsExact, Recording
  <2>3. ASSUME NEW c \in Callbacks, NEW k \in Keys, Deliver(c, k)
        PROVE  count'[j] + Cardinality(Recording(j)') = delivered'[j]
    <3>1. /\ key[c] = NoKey /\ key' = [key EXCEPT ![c] = k]
          /\ delivered' = [delivered EXCEPT ![k] = @ + 1] /\ count' = count
      BY <2>3 DEF Deliver, CallbackGoes, Keyed, stats
    <3>2. CASE j = k
      <4>1. Recording(j)' = Recording(j) \cup {c} /\ c \notin Recording(j)
        BY <2>0, <3>1, <3>2 DEF Recording
      <4>2. Cardinality(Recording(j)') = Cardinality(Recording(j)) + 1
        BY <2>1, <4>1, FS_AddElement
      <4>3. delivered'[j] = delivered[j] + 1
        BY <2>0, <3>1, <3>2
      <4> QED
        BY <2>0, <2>1, <2>2, <3>1, <4>2, <4>3
    <3>3. CASE j /= k
      <4>1. Recording(j)' = Recording(j)
        BY <2>0, <3>1, <3>3 DEF Recording
      <4>2. delivered'[j] = delivered[j]
        BY <2>0, <3>1, <3>3
      <4> QED
        BY <2>2, <3>1, <4>1, <4>2
    <3> QED
      BY <3>2, <3>3
  <2>4. ASSUME NEW c \in Callbacks, WriteCount(c)
        PROVE  count'[j] + Cardinality(Recording(j)') = delivered'[j]
    <3>1. /\ key[c] \in Keys /\ key' = [key EXCEPT ![c] = NoKey]
          /\ count' = [count EXCEPT ![key[c]] = count[key[c]] + 1]
          /\ delivered' = delivered
      BY <2>0, <2>4 DEF WriteCount, CallbackGoes, Keyed, Locking
    <3>2. CASE j = key[c]
      <4>1. Recording(j)' = Recording(j) \ {c} /\ c \in Recording(j)
        BY <2>0, <3>1, <3>2 DEF Recording
      <4>2. Cardinality(Recording(j)') = Cardinality(Recording(j)) - 1
        BY <2>1, <4>1, FS_RemoveElement
      <4>3. count'[j] = count[j] + 1
        BY <2>0, <3>1, <3>2
      <4> QED
        BY <2>0, <2>1, <2>2, <3>1, <4>2, <4>3
    <3>3. CASE j /= key[c]
      <4>1. Recording(j)' = Recording(j)
        BY <2>0, <3>1, <3>3 DEF Recording
      <4>2. count'[j] = count[j]
        BY <2>0, <3>1, <3>3
      <4> QED
        BY <2>2, <3>1, <4>1, <4>2
    <3> QED
      BY <3>2, <3>3
  <2>5. ASSUME UNCHANGED <<key, count, delivered>>
        PROVE  count'[j] + Cardinality(Recording(j)') = delivered'[j]
    <3>1. Recording(j)' = Recording(j)
      BY <2>5 DEF Recording
    <3> QED
      BY <2>2, <2>5, <3>1
  <2>6. ASSUME NEW c \in Callbacks, CallbackLocks(c) \/ ReadCount(c)
        PROVE  UNCHANGED <<key, count, delivered>>
    BY <2>6 DEF CallbackLocks, ReadCount, stats
  <2>7. ASSUME NEW p \in Printers, Report(p)
        PROVE  UNCHANGED <<key, count, delivered>>
    BY <2>7 DEF Report, PrinterLocks, Scan, PrinterUnlocks, PrintLine, calls, stats
  <2>8. CASE \/ CheckStop \/ WaitEnds \/ Subscribe \/ SetupFails \/ Throws
             \/ StartPrinter \/ LineRead \/ RequestStop \/ JoinPrinter
             \/ EndSubscription \/ UnsubscribeSkipped
             \/ SubscriptionEnded \/ Return \/ Exited
             \/ UNCHANGED vars
    <3>1. UNCHANGED <<key, count, delivered>>
      BY <2>8 DEF CheckStop, WaitEnds, Subscribe, SetupFails, Throws,
         StartPrinter, LineRead, RequestStop, JoinPrinter, EndSubscription,
         UnsubscribeSkipped,
         SubscriptionEnded, Return, Exited, vars, calls, stats
    <3> QED
      BY <2>5, <3>1
  <2> QED
    BY <2>3, <2>4, <2>5, <2>6, <2>7, <2>8
       DEF Next, Callback, Printer, MainWorks, Printers
<1> QED
  BY <1>1, <1>2, AggregatorTypes, LockingHolds, PTL DEF Spec

-----------------------------------------------------------------------------
(* What the reports know about the counters.                               *)

\* A total waits in a printer only between its scan and its output.
PendingIsNew ==
    \A p \in Printers, k \in Keys :
        changed[p][k] /= 0 => /\ at[p] \in {"scan", "print"}
                              /\ changed[p][k] = lastPrinted[k]
                              /\ shown[k] < lastPrinted[k]

\* The counters of a key are read in this order.
InOrder == \A k \in Keys : shown[k] <= lastPrinted[k] /\ lastPrinted[k] <= count[k]

\* A scan takes over every counter, which no callback moves meanwhile.
ScanIsComplete ==
    \A p \in Printers, k \in Keys :
        at[p] = "scan" => IF k \in todo[p] THEN changed[p][k] = 0
                                           ELSE lastPrinted[k] = count[k]

\* Before the subscription there is nothing to report; after the last scan
\* nothing is added.
EndsSettled ==
    \A k \in Keys :
        /\ at["main"] = "setup" => delivered[k] = 0 /\ count[k] = 0
        /\ at["main"] \in {"print"} \cup Over => lastPrinted[k] = count[k]

Books == PendingIsNew /\ InOrder /\ ScanIsComplete /\ EndsSettled /\ NothingLost

(* Marking and printing stay together: by induction over the steps of the  *)
(* callbacks, which only raise counts, and of the one thread that reports. *)
THEOREM BooksHold == Spec => []Books
<1>1. Init => Books
  BY DEF Init, Books, PendingIsNew, InOrder, ScanIsComplete, EndsSettled,
         NothingLost, Over, Printers
<1>2. TypeOK /\ Phases /\ Locking /\ Books /\ [Next]_vars => Books'
  <2> SUFFICES ASSUME TypeOK, Phases, Locking, Books, [Next]_vars PROVE Books'
    OBVIOUS
  <2>0. /\ at \in [Printers -> Places] /\ cb \in [Callbacks -> CallbackPlaces]
        /\ "main" \in Printers /\ "printer" \in Printers
        /\ count \in [Keys -> Nat] /\ lastPrinted \in [Keys -> Nat]
        /\ shown \in [Keys -> Nat] /\ delivered \in [Keys -> Nat]
        /\ changed \in [Printers -> [Keys -> Nat]]
        /\ todo \in [Printers -> SUBSET Keys]
        /\ key \in [Callbacks -> Keys \cup {NoKey}]
        /\ Callbacks \cap Printers = {}
        /\ NoThread \notin Callbacks \cup Printers
    BY AggregatorAssumption DEF TypeOK, Printers
  <2>a. \A p, q \in Printers :
           p /= q /\ at[p] \in {"lock", "scan", "print"}
              => at[q] \notin {"scan", "print"}
    BY DEF Phases, Printers, Over
  <2>b. PendingIsNew /\ InOrder /\ ScanIsComplete /\ EndsSettled /\ NothingLost
    BY DEF Books
  <2>1. ASSUME NEW c \in Callbacks, NEW k \in Keys, Deliver(c, k) PROVE Books'
    <3>1. /\ UNCHANGED <<at, count, lastPrinted, shown, changed, todo>>
          /\ at["main"] /= "setup"
      BY <2>1 DEF Deliver, Phases, control, stats, report
    <3> QED
      BY <2>b, <3>1 DEF Books, PendingIsNew, InOrder, ScanIsComplete,
         EndsSettled, NothingLost
  <2>2. ASSUME NEW c \in Callbacks, CallbackLocks(c) \/ ReadCount(c) PROVE Books'
    <3>1. UNCHANGED <<at, count, lastPrinted, shown, changed, todo, delivered>>
      BY <2>2 DEF CallbackLocks, ReadCount, control, stats, report
    <3> QED
      BY <2>b, <3>1 DEF Books, PendingIsNew, InOrder, ScanIsComplete,
         EndsSettled, NothingLost
  <2>3. ASSUME NEW c \in Callbacks, WriteCount(c) PROVE Books'
    <3>1. /\ UNCHANGED <<at, lastPrinted, shown, changed, todo, delivered>>
          /\ cb[c] = "write" /\ mtx = c
          /\ count' = [count EXCEPT ![key[c]] = reg[c] + 1]
          /\ reg[c] = count[key[c]]
      BY <2>3 DEF WriteCount, CallbackGoes, control, report, Locking
    <3>2. \A p \in Printers : at[p] /= "scan"
      BY <2>0, <3>1 DEF Locking
    <3>3. at["main"] /= "setup" /\ at["main"] \notin {"print"} \cup Over
      BY <3>1 DEF Phases
    <3>4. \A k \in Keys : count[k] <= count'[k]
      BY <2>0, <3>1
    <3>5. InOrder'
      <4>1. count' \in [Keys -> Nat]
        <5>1. reg[c] + 1 \in Nat
          BY DEF TypeOK
        <5> QED
          BY ONLY <5>1, <3>1, <2>0
      <4> QED
        BY <2>0, <2>b, <3>1, <3>4, <4>1 DEF InOrder
    <3>6. PendingIsNew' /\ NothingLost'
      BY <2>b, <3>1 DEF PendingIsNew, NothingLost
    <3>7. ScanIsComplete' /\ EndsSettled'
      BY <3>1, <3>2, <3>3 DEF ScanIsComplete, EndsSettled
    <3> QED
      BY <3>5, <3>6, <3>7 DEF Books
  <2>4. ASSUME NEW p \in Printers, PrinterLocks(p) PROVE Books'
    <3>1. /\ at[p] = "lock" /\ at' = [at EXCEPT ![p] = "scan"]
          /\ todo' = [todo EXCEPT ![p] = {k \in Keys : count[k] > 0}]
          /\ UNCHANGED <<count, lastPrinted, shown, changed, delivered>>
      BY <2>4 DEF PrinterLocks, Goes, stats, calls
    <3>2. \A k \in Keys : changed[p][k] = 0
      BY <2>b, <3>1 DEF PendingIsNew
    <3>3. PendingIsNew' /\ InOrder' /\ EndsSettled'
      BY <2>0, <2>b, <3>1 DEF PendingIsNew, InOrder, EndsSettled, Over
    <3>4. ScanIsComplete'
      <4> SUFFICES ASSUME NEW q \in Printers, NEW k \in Keys, at'[q] = "scan"
                   PROVE  IF k \in todo'[q] THEN changed'[q][k] = 0
                                            ELSE lastPrinted'[k] = count'[k]
        BY DEF ScanIsComplete
      <4>1. q = p
        BY <2>0, <2>a, <3>1
      <4>2. k \notin todo'[p] => count[k] = 0
        BY <2>0, <3>1
      <4>3. count[k] = 0 => lastPrinted[k] = count[k]
        BY <2>0, <2>b DEF InOrder
      <4> QED
        BY <3>1, <3>2, <4>1, <4>2, <4>3
    <3>5. NothingLost'
      BY <2>0, <2>b, <3>1 DEF NothingLost
    <3> QED
      BY <3>3, <3>4, <3>5 DEF Books
  <2>5. ASSUME NEW p \in Printers, Scan(p) PROVE Books'
    <3>1. /\ at[p] = "scan" /\ UNCHANGED <<at, count, shown, delivered>>
      BY <2>5 DEF Scan, control, calls
    <3>2. PICK k \in todo[p] :
             /\ todo' = [todo EXCEPT ![p] = @ \ {k}]
             /\ \/ /\ count[k] /= lastPrinted[k]
                   /\ changed' = [changed EXCEPT ![p][k] = count[k]]
                   /\ lastPrinted' = [lastPrinted EXCEPT ![k] = count[k]]
                \/ /\ count[k] = lastPrinted[k]
                   /\ UNCHANGED <<changed, lastPrinted>>
      BY <2>5 DEF Scan
    <3>3. k \in Keys /\ changed[p][k] = 0
      BY <2>0, <2>b, <3>1, <3>2 DEF ScanIsComplete
    <3>4. \A q \in Printers : q /= p => at[q] \notin {"scan", "print"}
      BY <2>a, <3>1
    <3>5. \A q \in Printers, j \in Keys : q /= p => changed[q][j] = 0
      BY <2>b, <3>4 DEF PendingIsNew
    <3>6. lastPrinted[k] = shown[k]
      <4>1. \A q \in Printers : changed[q][k] = 0
        BY <3>3, <3>5
      <4>2. lastPrinted[k] /= shown[k] => lastPrinted[k] = 0
        BY <2>b, <3>3, <4>1 DEF NothingLost
      <4> QED
        BY <2>0, <2>b, <3>3, <4>2 DEF InOrder
    <3>7. at["main"] \notin {"setup", "print"} \cup Over
      <4>1. CASE p = "main"
        BY <3>1, <4>1 DEF Over
      <4>2. CASE p = "printer"
        BY <2>0, <3>1, <4>2 DEF Over, Phases
      <4> QED
        BY <4>1, <4>2 DEF Printers
    <3>8. EndsSettled'
      BY <3>1, <3>7 DEF EndsSettled
    <3>9. CASE count[k] = lastPrinted[k]
      <4>1. UNCHANGED <<changed, lastPrinted>> /\ todo' = [todo EXCEPT ![p] = @ \ {k}]
        BY <3>2, <3>9
      <4>2. PendingIsNew' /\ InOrder' /\ NothingLost'
        BY <2>b, <3>1, <4>1 DEF PendingIsNew, InOrder, NothingLost
      <4>3. ScanIsComplete'
        <5> SUFFICES ASSUME NEW q \in Printers, NEW j \in Keys, at[q] = "scan"
                     PROVE  IF j \in todo'[q] THEN changed[q][j] = 0
                                              ELSE lastPrinted[j] = count[j]
          BY <3>1, <4>1 DEF ScanIsComplete
        <5>1. q = p /\ (j \in todo'[q] <=> j \in todo[q] /\ j /= k)
          BY <2>0, <3>4, <4>1
        <5> QED
          BY <2>b, <3>9, <5>1 DEF ScanIsComplete
      <4> QED
        BY <3>8, <4>2, <4>3 DEF Books
    <3>10. CASE count[k] /= lastPrinted[k]
      <4>1. /\ changed' = [changed EXCEPT ![p][k] = count[k]]
            /\ lastPrinted' = [lastPrinted EXCEPT ![k] = count[k]]
            /\ todo' = [todo EXCEPT ![p] = @ \ {k}]
        BY <3>2, <3>10
      <4>2. /\ changed'[p][k] = count[k] /\ lastPrinted'[k] = count[k]
            /\ \A q \in Printers, j \in Keys :
                  q /= p \/ j /= k => changed'[q][j] = changed[q][j]
            /\ \A j \in Keys : j /= k => lastPrinted'[j] = lastPrinted[j]
        BY <2>0, <3>3, <4>1
      <4>3. shown[k] < count[k]
        <5>1. shown[k] \in Nat /\ count[k] \in Nat
          BY <2>0, <3>3
        <5>2. shown[k] <= count[k] /\ shown[k] /= count[k]
          BY <2>b, <3>3, <3>6, <3>10 DEF InOrder
        <5> QED
          BY ONLY <5>1, <5>2
      <4>4. PendingIsNew'
        <5> SUFFICES ASSUME NEW q \in Printers, NEW j \in Keys, changed'[q][j] /= 0
                     PROVE  /\ at[q] \in {"scan", "print"}
                            /\ changed'[q][j] = lastPrinted'[j]
                            /\ shown[j] < lastPrinted'[j]
          BY <3>1 DEF PendingIsNew
        <5>1. q = p
          BY <3>5, <4>2
        <5> QED
          BY <2>b, <3>1, <4>2, <4>3, <5>1 DEF PendingIsNew
      <4>5. InOrder'
        BY <2>0, <2>b, <3>1, <4>2, <4>3 DEF InOrder
      <4>6. ScanIsComplete'
        <5> SUFFICES ASSUME NEW q \in Printers, NEW j \in Keys, at[q] = "scan"
                     PROVE  IF j \in todo'[q] THEN changed'[q][j] = 0
                                              ELSE lastPrinted'[j] = count[j]
          BY <3>1 DEF ScanIsComplete
        <5>1. q = p /\ (j \in todo'[q] <=> j \in todo[q] /\ j /= k)
          BY <2>0, <3>4, <4>1
        <5> QED
          BY <2>b, <4>2, <5>1 DEF ScanIsComplete
      <4>7. NothingLost'
        <5> SUFFICES ASSUME NEW j \in Keys, lastPrinted'[j] /= shown[j]
                     PROVE  \E q \in Printers : /\ at[q] \in {"scan", "print"}
                                               /\ changed'[q][j] = lastPrinted'[j]
          BY <3>1 DEF NothingLost
        <5>1. CASE j = k
          BY <3>1, <4>2, <5>1
        <5>2. CASE j /= k
          BY <2>b, <4>2, <5>2 DEF NothingLost
        <5> QED
          BY <5>1, <5>2
      <4> QED
        BY <3>8, <4>4, <4>5, <4>6, <4>7 DEF Books
    <3> QED
      BY <3>9, <3>10
  <2>6. ASSUME NEW p \in Printers, PrinterUnlocks(p) PROVE Books'
    <3>1. /\ at[p] = "scan" /\ todo[p] = {}
          /\ at' = [at EXCEPT ![p] = IF Pending(p) = {} THEN AfterPrint(p)
                                                       ELSE "print"]
          /\ UNCHANGED <<count, lastPrinted, shown, changed, todo, delivered>>
      BY <2>6 DEF PrinterUnlocks, Goes, stats, calls, report
    <3>2. \A q \in Printers : q /= p => at[q] \notin {"scan", "print"}
      BY <2>a, <3>1
    <3>3. \A q \in Printers : q /= p => at'[q] = at[q]
      BY <2>0, <3>1
    <3>4. \A k \in Keys : lastPrinted[k] = count[k]
      BY <2>b, <3>1 DEF ScanIsComplete
    <3>5. at'[p] /= "scan" /\ at'[p] /= "setup"
      BY <2>0, <3>1 DEF AfterPrint
    <3>6. \A q \in Printers, k \in Keys :
             changed[q][k] /= 0 => q = p /\ at'[q] = "print"
      BY <2>0, <2>b, <3>1, <3>2 DEF PendingIsNew, Pending
    <3>7. PendingIsNew' /\ InOrder'
      BY <2>b, <3>1, <3>6 DEF PendingIsNew, InOrder
    <3>8. ScanIsComplete'
      BY <3>1, <3>2, <3>3, <3>5 DEF ScanIsComplete
    <3>9. EndsSettled'
      <4>1. at'["main"] = "setup" => at["main"] = "setup"
        BY <2>0, <3>3, <3>5
      <4> QED
        BY <2>b, <3>1, <3>4, <4>1 DEF EndsSettled
    <3>10. NothingLost'
      <4> SUFFICES ASSUME NEW k \in Keys, lastPrinted[k] /= shown[k]
                   PROVE  \E q \in Printers : /\ at'[q] \in {"scan", "print"}
                                             /\ changed[q][k] = lastPrinted[k]
        BY <3>1 DEF NothingLost
      <4>1. PICK q \in Printers : /\ at[q] \in {"scan", "print"}
                                 /\ changed[q][k] = lastPrinted[k]
        BY <2>b DEF NothingLost
      <4>2. lastPrinted[k] /= 0
        BY <2>0, <2>b DEF InOrder
      <4> QED
        BY <3>6, <4>1, <4>2
    <3> QED
      BY <3>7, <3>8, <3>9, <3>10 DEF Books
  <2>7. ASSUME NEW p \in Printers, PrintLine(p) PROVE Books'
    <3>1. PICK k \in Pending(p) :
             /\ shown' = [shown EXCEPT ![k] = changed[p][k]]
             /\ changed' = [changed EXCEPT ![p][k] = 0]
             /\ at[p] = "print"
             /\ at' = [at EXCEPT ![p] = IF Pending(p) = {k} THEN AfterPrint(p)
                                                           ELSE "print"]
      BY <2>7 DEF PrintLine, Goes
    <3>2. UNCHANGED <<count, lastPrinted, todo, delivered>>
      BY <2>7 DEF PrintLine, stats, calls
    <3>3. k \in Keys /\ changed[p][k] /= 0
      BY <3>1 DEF Pending
    <3>4. changed[p][k] = lastPrinted[k]
      BY <2>b, <3>3 DEF PendingIsNew
    <3>5. /\ shown'[k] = lastPrinted[k] /\ changed'[p][k] = 0
          /\ \A q \in Printers, j \in Keys :
                q /= p \/ j /= k => changed'[q][j] = changed[q][j]
          /\ \A j \in Keys : j /= k => shown'[j] = shown[j]
      BY <2>0, <3>1, <3>3, <3>4
    <3>6. \A q \in Printers : q /= p => at[q] \notin {"scan", "print"}
      BY <2>a, <3>1
    <3>7. \A q \in Printers : q /= p => at'[q] = at[q]
      BY <2>0, <3>1
    <3>8. at'[p] \notin {"scan", "setup"}
      BY <2>0, <3>1 DEF AfterPrint
    <3>9. \A q \in Printers, j \in Keys :
             changed'[q][j] /= 0 => /\ q = p /\ j /= k
                                    /\ changed'[q][j] = changed[q][j]
                                    /\ at'[q] = "print"
      <4> SUFFICES ASSUME NEW q \in Printers, NEW j \in Keys, changed'[q][j] /= 0
                   PROVE  /\ q = p /\ j /= k /\ changed'[q][j] = changed[q][j]
                          /\ at'[q] = "print"
        OBVIOUS
      <4>1. q = p
        BY <2>b, <3>5, <3>6 DEF PendingIsNew
      <4>2. j /= k /\ changed'[p][j] = changed[p][j]
        BY <3>5, <4>1
      <4>3. j \in Pending(p)
        BY <4>1, <4>2 DEF Pending
      <4>4. at'[p] = "print"
        BY <2>0, <3>1, <4>2, <4>3
      <4> QED
        BY <4>1, <4>2, <4>4
    <3>10. PendingIsNew'
      BY <2>b, <3>2, <3>5, <3>9 DEF PendingIsNew
    <3>11. InOrder'
      BY <2>0, <2>b, <3>2, <3>5 DEF InOrder
    <3>12. ScanIsComplete'
      BY <3>6, <3>7, <3>8 DEF ScanIsComplete
    <3>13. EndsSettled'
      <4>1. /\ at'["main"] = "setup" => at["main"] = "setup"
            /\ at'["main"] \in {"print"} \cup Over
                 => at["main"] \in {"print"} \cup Over
        <5>1. CASE p = "main"
          BY <3>1, <3>8, <5>1
        <5>2. CASE p /= "main"
          BY <2>0, <3>7, <5>2
        <5> QED
          BY <5>1, <5>2
      <4> QED
        BY <2>b, <3>2, <4>1 DEF EndsSettled
    <3>14. NothingLost'
      <4> SUFFICES ASSUME NEW j \in Keys, lastPrinted[j] /= shown'[j]
                   PROVE  \E q \in Printers : /\ at'[q] \in {"scan", "print"}
                                             /\ changed'[q][j] = lastPrinted[j]
        BY <3>2 DEF NothingLost
      <4>1. j /= k /\ shown'[j] = shown[j]
        BY <3>5
      <4>2. PICK q \in Printers : /\ at[q] \in {"scan", "print"}
                                 /\ changed[q][j] = lastPrinted[j]
        BY <2>b, <4>1 DEF NothingLost
      <4>3. lastPrinted[j] /= 0
        BY <2>0, <2>b, <4>1 DEF InOrder
      <4> QED
        BY <3>5, <3>9, <4>1, <4>2, <4>3
    <3> QED
      BY <3>10, <3>11, <3>12, <3>13, <3>14 DEF Books
  <2>8. CASE \/ CheckStop \/ WaitEnds \/ Subscribe \/ SetupFails \/ Throws
             \/ StartPrinter \/ LineRead \/ RequestStop \/ JoinPrinter
             \/ EndSubscription \/ UnsubscribeSkipped
             \/ SubscriptionEnded \/ Return \/ Exited
             \/ UNCHANGED vars
    <3>1. UNCHANGED <<count, lastPrinted, shown, changed, todo, delivered>>
      BY <2>8 DEF CheckStop, WaitEnds, Subscribe, SetupFails, Throws,
         StartPrinter, LineRead, RequestStop, JoinPrinter, EndSubscription,
         UnsubscribeSkipped,
         SubscriptionEnded, Return, Exited, vars, calls, stats, report
    <3>2. \A p \in Printers : /\ at[p] \in {"scan", "print"} => at'[p] = at[p]
                              /\ at'[p] \in {"scan", "print"} => at'[p] = at[p]
      BY <2>0, <2>8 DEF CheckStop, WaitEnds, Subscribe, SetupFails, Throws,
         StartPrinter, LineRead, RequestStop, JoinPrinter, EndSubscription,
         UnsubscribeSkipped,
         SubscriptionEnded, Return, Exited, vars, control, Goes, Phases, Printers
    <3>3. PendingIsNew' /\ InOrder' /\ ScanIsComplete' /\ NothingLost'
      BY <2>b, <3>1, <3>2 DEF PendingIsNew, InOrder, ScanIsComplete, NothingLost
    <3>4. /\ at'["main"] = "setup" => at["main"] = "setup"
          /\ at'["main"] \in {"print"} \cup Over
               => at["main"] \in {"setup", "print"} \cup Over
      BY <2>0, <2>8 DEF CheckStop, WaitEnds, Subscribe, SetupFails, Throws,
         StartPrinter, LineRead, RequestStop, JoinPrinter, EndSubscription,
         UnsubscribeSkipped,
         SubscriptionEnded, Return, Exited, vars, control, Goes, Over, Printers
    <3>5. \A k \in Keys : count[k] = 0 => lastPrinted[k] = count[k]
      BY <2>0, <2>b DEF InOrder
    <3>6. EndsSettled'
      BY <2>b, <3>1, <3>4, <3>5 DEF EndsSettled
    <3> QED
      BY <3>3, <3>6 DEF Books
  <2> QED
    BY <2>0, <2>1, <2>2, <2>3, <2>4, <2>5, <2>6, <2>7, <2>8
       DEF Next, Callback, Printer, MainWorks, Report
<1> QED
  BY <1>1, <1>2, AggregatorTypes, PhasesHold, LockingHolds, PTL DEF Spec

(* What is marked as printed is printed.                                   *)
THEOREM NothingLostHolds == Spec => []NothingLost
<1>1. Books => NothingLost
  BY DEF Books
<1> QED
  BY <1>1, BooksHold, PTL

\* Once main() is past its report, everything recorded has been printed.
LEMMA SettledIsShown ==
    ASSUME TypeOK, Phases, Books, at["main"] \in Over
    PROVE  shown = count
<1>1. /\ shown \in [Keys -> Nat] /\ count \in [Keys -> Nat]
      /\ lastPrinted \in [Keys -> Nat] /\ changed \in [Printers -> [Keys -> Nat]]
  BY DEF TypeOK
<1>2. \A p \in Printers : at[p] \notin {"scan", "print"}
  BY DEF Phases, Over, Printers
<1>3. \A k \in Keys : lastPrinted[k] = shown[k]
  BY <1>2 DEF Books, NothingLost
<1>4. \A k \in Keys : lastPrinted[k] = count[k]
  BY DEF Books, EndsSettled
<1> QED
  BY <1>1, <1>3, <1>4

(* However the program ends, every event it was told of has been printed.  *)
THEOREM FinalReportCompleteHolds == Spec => []FinalReportComplete
<1>1. TypeOK /\ Keyed /\ Phases /\ Books /\ CountsExact => FinalReportComplete
  <2> SUFFICES ASSUME TypeOK, Keyed, Phases, Books, CountsExact,
                      at["main"] = "done"
               PROVE  shown = delivered
    BY DEF FinalReportComplete
  <2>1. shown = count
    BY SettledIsShown DEF Over
  <2>2. \A c \in Callbacks : key[c] = NoKey
    BY DEF Phases, Keyed, Over
  <2>3. count = delivered
    <3> SUFFICES ASSUME NEW k \in Keys PROVE count[k] = delivered[k]
      BY DEF TypeOK
    <3>1. {c \in Callbacks : key[c] = k} = {}
      BY <2>2, AggregatorAssumption
    <3>2. count[k] + 0 = delivered[k]
      BY <3>1, FS_EmptySet DEF CountsExact
    <3> QED
      BY <3>2 DEF TypeOK
  <2> QED
    BY <2>1, <2>3
<1> QED
  BY <1>1, AggregatorTypes, PhasesHold, BooksHold, CountsExactHolds, PTL

-----------------------------------------------------------------------------
(* The abstract ledger.                                                    *)

(* Each step of the program is a step of the ledger: a callback records, a *)
(* line shows, and the program closes the ledger when all is shown.        *)
THEOREM AggregatorImplementsLedger == Spec => ImplementsLedger
<1>1. Init => Ledge!Init
  BY DEF Init, Ledge!Init, Printers
<1>2. TypeOK /\ Phases /\ Locking /\ Books /\ [Next]_vars
         => [Ledge!Next]_(Ledge!ledgerVars)
  <2> SUFFICES ASSUME TypeOK, Phases, Locking, Books, [Next]_vars
               PROVE  Ledge!Next \/ UNCHANGED <<count, shown, at["main"] = "done">>
    BY DEF Ledge!ledgerVars
  <2>0. /\ at \in [Printers -> Places] /\ "main" \in Printers
        /\ "printer" \in Printers
        /\ count \in [Keys -> Nat] /\ shown \in [Keys -> Nat]
        /\ lastPrinted \in [Keys -> Nat]
        /\ key \in [Callbacks -> Keys \cup {NoKey}]
    BY DEF TypeOK, Printers
  <2>1. ASSUME NEW c \in Callbacks, WriteCount(c), key[c] \in Keys
        PROVE  Ledge!Record(key[c])
    <3>1. /\ count' = [count EXCEPT ![key[c]] = count[key[c]] + 1]
          /\ shown' = shown /\ at' = at /\ cb[c] = "write"
      BY <2>1 DEF WriteCount, CallbackGoes, Locking, control, report
    <3>2. at["main"] /= "done"
      BY <3>1 DEF Phases, Over
    <3> QED
      BY <3>1, <3>2 DEF Ledge!Record
  <2>2. ASSUME NEW c \in Callbacks, WriteCount(c), key[c] \notin Keys
        PROVE  UNCHANGED <<count, shown, at["main"] = "done">>
    BY <2>0, <2>2 DEF WriteCount, control, report
  <2>3. ASSUME NEW p \in Printers, PrintLine(p)
        PROVE  \E k \in Keys : Ledge!Show(k)
    <3>1. PICK k \in Pending(p) :
             /\ shown' = [shown EXCEPT ![k] = changed[p][k]]
             /\ at[p] = "print"
             /\ at' = [at EXCEPT ![p] = IF Pending(p) = {k} THEN AfterPrint(p)
                                                           ELSE "print"]
      BY <2>3 DEF PrintLine, Goes
    <3>2. k \in Keys /\ changed[p][k] /= 0
      BY <3>1 DEF Pending
    <3>3. /\ changed[p][k] = lastPrinted[k] /\ shown[k] < lastPrinted[k]
          /\ lastPrinted[k] <= count[k]
      BY <3>2 DEF Books, PendingIsNew, InOrder
    <3>4. changed[p][k] \in (shown[k] + 1)..count[k]
      <4>1. shown[k] \in Nat /\ lastPrinted[k] \in Nat /\ count[k] \in Nat
        BY <2>0, <3>2
      <4> QED
        BY ONLY <4>1, <3>3
    <3>5. at["main"] /= "done" /\ at'["main"] /= "done"
      <4>1. at["main"] /= "done"
        BY <3>1 DEF Phases, Over, Printers
      <4> QED
        BY <2>0, <3>1, <4>1 DEF AfterPrint
    <3>6. UNCHANGED count
      BY <2>3 DEF PrintLine, stats
    <3> QED
      BY <3>1, <3>2, <3>4, <3>5, <3>6 DEF Ledge!Show
  <2>4. CASE SetupFails \/ Return
    <3>1. /\ UNCHANGED <<count, shown>> /\ at'["main"] = "done"
          /\ at["main"] \in {"setup", "return"}
      BY <2>0, <2>4 DEF SetupFails, Return, Goes, stats, report
    <3>2. shown = count
      <4>1. CASE at["main"] = "setup"
        BY <2>0, <4>1 DEF Books, EndsSettled, InOrder
      <4>2. CASE at["main"] = "return"
        BY <4>2, SettledIsShown DEF Over
      <4> QED
        BY <3>1, <4>1, <4>2
    <3> QED
      BY <3>1, <3>2 DEF Ledge!Next, Ledge!Close
  <2>5. ASSUME NEW c \in Callbacks,
               CallbackLocks(c) \/ ReadCount(c) \/ \E k \in Keys : Deliver(c, k)
        PROVE  UNCHANGED <<count, shown, at["main"] = "done">>
    BY <2>5 DEF CallbackLocks, ReadCount, Deliver, control, stats, report
  <2>6. ASSUME NEW p \in Printers, PrinterLocks(p) \/ Scan(p) \/ PrinterUnlocks(p)
        PROVE  UNCHANGED <<count, shown, at["main"] = "done">>
    <3>1. UNCHANGED <<count, shown>>
      BY <2>6 DEF PrinterLocks, Scan, PrinterUnlocks, stats, report
    <3>2. (at["main"] = "done") = (at'["main"] = "done")
      BY <2>0, <2>6 DEF PrinterLocks, Scan, PrinterUnlocks, Goes, AfterPrint,
                        control
    <3> QED
      BY <3>1, <3>2
  <2>7. CASE \/ CheckStop \/ WaitEnds \/ Subscribe \/ Throws
             \/ StartPrinter \/ LineRead \/ RequestStop \/ JoinPrinter
             \/ EndSubscription \/ UnsubscribeSkipped
             \/ SubscriptionEnded \/ Exited
             \/ UNCHANGED vars
    <3>1. UNCHANGED <<count, shown>>
      BY <2>7 DEF CheckStop, WaitEnds, Subscribe, Throws, StartPrinter,
         LineRead, RequestStop, JoinPrinter, EndSubscription, UnsubscribeSkipped,
         SubscriptionEnded, Exited, vars, stats, report
    <3>2. (at["main"] = "done") = (at'["main"] = "done")
      BY <2>0, <2>7 DEF CheckStop, WaitEnds, Subscribe, Throws, StartPrinter,
         LineRead, RequestStop, JoinPrinter, EndSubscription, UnsubscribeSkipped,
         SubscriptionEnded, Exited, vars, control, Goes
    <3> QED
      BY <3>1, <3>2
  <2> QED
    BY <2>0, <2>1, <2>2, <2>3, <2>4, <2>5, <2>6, <2>7
       DEF Next, Callback, Printer, MainWorks, Report, Ledge!Next
<1> QED
  BY <1>1, <1>2, AggregatorTypes, PhasesHold, LockingHolds, BooksHold, PTL
     DEF Spec, ImplementsLedger, Ledge!Spec

=============================================================================
