-------------------------- MODULE EventAggregator --------------------------
(***************************************************************************)
(* The threads of local-ip-proxy and the Aggregator they share             *)
(* (local-ip-proxy/main.cpp): the callbacks of the Windows Filtering       *)
(* Platform count events under a mutex, the printer thread reports the     *)
(* totals that have changed every ten seconds, and main() waits for a line *)
(* on the console, stops the printer, ends the subscription and reports    *)
(* once more.  An event is only its key, a report line is a key with a     *)
(* total; the order of the lines of one report is left open.               *)
(***************************************************************************)
EXTENDS Integers, FiniteSets

CONSTANTS Keys,       \* the keys events are counted under
          NoKey,
          Callbacks,  \* the threads the platform calls netEventCallback on
          MaxEvents,  \* bound: events of one key in one behaviour
          NoThread,   \* nobody holds the mutex
          MayThrow    \* whether the setup and std::jthread may throw

Printers == {"main", "printer"}

ASSUME AggregatorAssumption ==
    /\ IsFiniteSet(Callbacks)
    /\ NoKey \notin Keys
    /\ Callbacks \cap Printers = {}
    /\ NoThread \notin Callbacks \cup Printers
    /\ MaxEvents \in Nat
    /\ MayThrow \in BOOLEAN

VARIABLES
    at,           \* where main() and the printer thread are
    stop,         \* a stop has been requested from the printer
    subscribed,   \* the platform may call netEventCallback
    mtx,          \* who holds Aggregator::mtx
    cb,           \* where each callback is
    key,          \* the key a callback is working on
    reg,          \* the count a callback has read
    count,        \* EventStats::count; 0 when the key is not in the map
    lastPrinted,  \* EventStats::lastPrinted
    todo,         \* the keys a running doPrint() has not yet looked at
    changed,      \* the totals it is going to print, 0 for none
    delivered,    \* events the platform has delivered
    shown         \* the total last printed for a key

control == <<at, stop, subscribed>>
calls   == <<cb, key, reg, delivered>>
stats   == <<count, lastPrinted>>
report  == <<todo, changed, shown>>
vars    == <<control, mtx, calls, stats, report>>

Places ==
    {"none", "setup", "start", "getline", "stop", "join", "unsubscribe",
     "close", "check", "lock", "scan", "print", "wait", "return",
     "done"}

CallbackPlaces == {"idle", "lock", "read", "write"}

Init ==
    /\ at = [p \in Printers |-> IF p = "main" THEN "setup" ELSE "none"]
    /\ stop = FALSE
    /\ subscribed = FALSE
    /\ mtx = NoThread
    /\ cb = [c \in Callbacks |-> "idle"]
    /\ key = [c \in Callbacks |-> NoKey]
    /\ reg = [c \in Callbacks |-> 0]
    /\ count = [k \in Keys |-> 0]
    /\ lastPrinted = [k \in Keys |-> 0]
    /\ todo = [p \in Printers |-> {}]
    /\ changed = [p \in Printers |-> [k \in Keys |-> 0]]
    /\ delivered = [k \in Keys |-> 0]
    /\ shown = [k \in Keys |-> 0]

-----------------------------------------------------------------------------
(* netEventCallback().                                                     *)


CallbackGoes(c, from, to) == cb[c] = from /\ cb' = [cb EXCEPT ![c] = to]

\* An event arrives; its key is computed before the mutex is taken.
Deliver(c, k) ==
    /\ subscribed
    /\ delivered[k] < MaxEvents
    /\ CallbackGoes(c, "idle", "lock")
    /\ key' = [key EXCEPT ![c] = k]
    /\ delivered' = [delivered EXCEPT ![k] = @ + 1]
    /\ UNCHANGED <<control, mtx, reg, stats, report>>

\* Variant: the lock_guard is missing.
CallbackGoesUnlocked(c) ==
    /\ mtx' = c
    /\ CallbackGoes(c, "lock", "read")
    /\ UNCHANGED <<control, key, reg, delivered, stats, report>>

CallbackLocks(c) ==
    /\ mtx = NoThread /\ mtx' = c
    /\ CallbackGoes(c, "lock", "read")
    /\ UNCHANGED <<control, key, reg, delivered, stats, report>>

\* try_emplace, then ++stats.count, which reads and writes.
ReadCount(c) ==
    /\ CallbackGoes(c, "read", "write")
    /\ reg' = [reg EXCEPT ![c] = count[key[c]]]
    /\ UNCHANGED <<control, mtx, key, delivered, stats, report>>

\* Variant: the count runs backwards.
WriteCountDown(c) ==
    /\ CallbackGoes(c, "write", "idle")
    /\ count' = [count EXCEPT ![key[c]] = reg[c] - 1]
    /\ key' = [key EXCEPT ![c] = NoKey]
    /\ reg' = [reg EXCEPT ![c] = 0]
    /\ mtx' = NoThread
    /\ UNCHANGED <<control, delivered, lastPrinted, report>>

\* The lock_guard goes out of scope and the callback returns.
WriteCount(c) ==
    /\ CallbackGoes(c, "write", "idle")
    /\ count' = [count EXCEPT ![key[c]] = reg[c] + 1]
    /\ key' = [key EXCEPT ![c] = NoKey]
    /\ reg' = [reg EXCEPT ![c] = 0]
    /\ mtx' = NoThread
    /\ UNCHANGED <<control, delivered, lastPrinted, report>>

Callback(c) == CallbackLocks(c) \/ ReadCount(c) \/ WriteCount(c)

-----------------------------------------------------------------------------
(* doPrint(), run by the printer thread and at the end by main().          *)

Goes(p, from, to) == at[p] = from /\ at' = [at EXCEPT ![p] = to]

\* Where a thread goes on after doPrint().
AfterPrint(p) == IF p = "printer" THEN "wait" ELSE "return"

PrinterLocks(p) ==
    /\ Goes(p, "lock", "scan")
    /\ mtx = NoThread /\ mtx' = p
    /\ todo' = [todo EXCEPT ![p] = {k \in Keys : count[k] > 0}]
    /\ UNCHANGED <<stop, subscribed, calls, stats, changed, shown>>

\* Variant: lastPrinted is brought up to date before it is compared.
ScanMarksFirst(p) ==
    /\ at[p] = "scan"
    /\ \E k \in todo[p] :
          /\ todo' = [todo EXCEPT ![p] = @ \ {k}]
          /\ lastPrinted' = [lastPrinted EXCEPT ![k] = count[k]]
    /\ UNCHANGED <<control, mtx, calls, count, changed, shown>>

\* One entry of the map: a total that has changed is taken over.
Scan(p) ==
    /\ at[p] = "scan"
    /\ \E k \in todo[p] :
          /\ todo' = [todo EXCEPT ![p] = @ \ {k}]
          /\ \/ /\ count[k] /= lastPrinted[k]
                /\ changed' = [changed EXCEPT ![p][k] = count[k]]
                /\ lastPrinted' = [lastPrinted EXCEPT ![k] = count[k]]
             \/ /\ count[k] = lastPrinted[k]
                /\ UNCHANGED <<changed, lastPrinted>>
    /\ UNCHANGED <<control, mtx, calls, count, shown>>

Pending(p) == {k \in Keys : changed[p][k] /= 0}

\* The mutex is released before anything is printed.
PrinterUnlocks(p) ==
    /\ todo[p] = {}
    /\ Goes(p, "scan", IF Pending(p) = {} THEN AfterPrint(p) ELSE "print")
    /\ mtx' = NoThread
    /\ UNCHANGED <<stop, subscribed, calls, stats, report>>

\* One line, for which to_string() reads the names cached by layerIdToName.
PrintLine(p) ==
    /\ \E k \in Pending(p) :
          /\ shown' = [shown EXCEPT ![k] = changed[p][k]]
          /\ changed' = [changed EXCEPT ![p][k] = 0]
          /\ Goes(p, "print", IF Pending(p) = {k} THEN AfterPrint(p)
                                                  ELSE "print")
    /\ UNCHANGED <<stop, subscribed, mtx, calls, stats, todo>>

Report(p) == PrinterLocks(p) \/ Scan(p) \/ PrinterUnlocks(p) \/ PrintLine(p)

-----------------------------------------------------------------------------
(* RunPrinter().                                                           *)

\* Variant: the stop token is not looked at.
CheckStopIgnored ==
    /\ Goes("printer", "check", "lock")
    /\ UNCHANGED <<stop, subscribed, mtx, calls, stats, report>>

CheckStop ==
    /\ Goes("printer", "check", IF stop THEN "done" ELSE "lock")
    /\ UNCHANGED <<stop, subscribed, mtx, calls, stats, report>>

\* Variant: a wait without a timeout.
WaitEndsOnStop ==
    /\ stop
    /\ Goes("printer", "wait", "check")
    /\ UNCHANGED <<stop, subscribed, mtx, calls, stats, report>>

\* wait_for() ends after the interval, or at once when a stop is requested.
WaitEnds ==
    /\ Goes("printer", "wait", "check")
    /\ UNCHANGED <<stop, subscribed, mtx, calls, stats, report>>

Printer == Report("printer") \/ CheckStop \/ WaitEnds

-----------------------------------------------------------------------------
(* main().                                                                 *)

\* Everything up to FwpmNetEventSubscribe4.
Subscribe ==
    /\ Goes("main", "setup", "start")
    /\ subscribed' = TRUE
    /\ UNCHANGED <<stop, mtx, calls, stats, report>>

\* The negotiation or the subscription fails: main() returns 1.
SetupFails ==
    /\ Goes("main", "setup", "done")
    /\ UNCHANGED <<stop, subscribed, mtx, calls, stats, report>>

\* Variant: an exception leaves main() without the last report.
ThrowsOut ==
    /\ MayThrow
    /\ Goes("main", "setup", "done") \/ Goes("main", "start", "done")
    /\ UNCHANGED <<stop, subscribed, mtx, calls, stats, report>>

\* The setup throws, or the constructor of std::jthread does: unwinding
\* closes the engine session.  (For an exception after it see LineRead.)
Throws ==
    /\ MayThrow
    /\ Goes("main", "setup", "close") \/ Goes("main", "start", "close")
    /\ UNCHANGED <<stop, subscribed, mtx, calls, stats, report>>

StartPrinter ==
    /\ at["main"] = "start"
    /\ at' = [p \in Printers |-> IF p = "main" THEN "getline" ELSE "check"]
    /\ UNCHANGED <<stop, subscribed, mtx, calls, stats, report>>

\* A line, the end of the input, or an exception on the way: ~jthread() then
\* requests the stop and joins as main() would, and UnsubscribeSkipped follows.
LineRead ==
    /\ Goes("main", "getline", "stop")
    /\ UNCHANGED <<stop, subscribed, mtx, calls, stats, report>>

RequestStop ==
    /\ Goes("main", "stop", "join")
    /\ stop' = TRUE
    /\ UNCHANGED <<subscribed, mtx, calls, stats, report>>

\* Variant: the printer is detached.
JoinPrinterDetached ==
    /\ Goes("main", "join", "unsubscribe")
    /\ UNCHANGED <<stop, subscribed, mtx, calls, stats, report>>

\* Variant: the last report comes before the end of the subscription.
JoinPrinterReports ==
    /\ at["printer"] = "done"
    /\ Goes("main", "join", "lock")
    /\ UNCHANGED <<stop, subscribed, mtx, calls, stats, report>>

JoinPrinter ==
    /\ at["printer"] = "done"
    /\ Goes("main", "join", "unsubscribe")
    /\ UNCHANGED <<stop, subscribed, mtx, calls, stats, report>>

\* FwpmNetEventUnsubscribe0 and FwpmEngineClose0: the platform delivers no
\* more events, and the call returns once no callback is running.
EndSubscription ==
    /\ at["main"] \in {"unsubscribe", "close"} /\ subscribed
    /\ subscribed' = FALSE
    /\ UNCHANGED <<at, stop, mtx, calls, stats, report>>

\* FwpmNetEventUnsubscribe0 fails, which nobody looks at, or an exception
\* unwinds past it: the subscription lasts until the session is closed.
UnsubscribeSkipped ==
    /\ subscribed
    /\ Goes("main", "unsubscribe", "close")
    /\ UNCHANGED <<stop, subscribed, mtx, calls, stats, report>>

SubscriptionEnded ==
    /\ ~subscribed /\ \A c \in Callbacks : cb[c] = "idle"
    /\ Goes("main", "unsubscribe", "close") \/ Goes("main", "close", "lock")
    /\ UNCHANGED <<stop, subscribed, mtx, calls, stats, report>>

\* main() returns, and the Aggregator, its local variable, is destroyed.
Return ==
    /\ Goes("main", "return", "done")
    /\ UNCHANGED <<stop, subscribed, mtx, calls, stats, report>>

Exited == at["main"] = "done" /\ UNCHANGED vars

MainWorks ==
    \/ Subscribe \/ SetupFails \/ Throws \/ StartPrinter
    \/ RequestStop \/ JoinPrinter
    \/ EndSubscription \/ UnsubscribeSkipped \/ SubscriptionEnded
    \/ Report("main") \/ Return

Next ==
    \/ \E c \in Callbacks : Callback(c) \/ \E k \in Keys : Deliver(c, k)
    \/ Printer
    \/ MainWorks \/ LineRead
    \/ Exited

Spec == Init /\ [][Next]_vars

(* Fairness: threads run and the interval of the printer passes.  Nobody   *)
(* has to type a line, and no event has to arrive.  The printer asks for   *)
(* the mutex again and again, but with ten seconds between in which it is  *)
(* free: a callback that waits gets it.  Events come finitely often, so    *)
(* the printer needs no such assumption.                                   *)
FairSpec ==
    /\ Spec
    /\ WF_vars(Printer) /\ WF_vars(MainWorks)
    /\ \A c \in Callbacks : WF_vars(Callback(c)) /\ SF_vars(CallbackLocks(c))

-----------------------------------------------------------------------------
(* Properties.                                                             *)

TypeOK ==
    /\ at \in [Printers -> Places]
    /\ stop \in BOOLEAN
    /\ subscribed \in BOOLEAN
    /\ mtx \in Callbacks \cup Printers \cup {NoThread}
    /\ cb \in [Callbacks -> CallbackPlaces]
    /\ key \in [Callbacks -> Keys \cup {NoKey}]
    /\ reg \in [Callbacks -> Nat]
    /\ count \in [Keys -> Nat]
    /\ lastPrinted \in [Keys -> Nat]
    /\ todo \in [Printers -> SUBSET Keys]
    /\ changed \in [Printers -> [Keys -> Nat]]
    /\ delivered \in [Keys -> Nat]
    /\ shown \in [Keys -> Nat]

(* Every delivered event is in the count of its key or in a callback that  *)
(* has yet to record it: concurrent callbacks lose no increment.           *)
CountsExact ==
    \A k \in Keys :
        count[k] + Cardinality({c \in Callbacks : key[c] = k}) = delivered[k]

(* What doPrint() marks as printed is printed: between the scan and the    *)
(* output, outside the mutex, the total is pending in exactly the thread   *)
(* that is going to print it.                                              *)
NothingLost ==
    \A k \in Keys :
        lastPrinted[k] /= shown[k] =>
            \E p \in Printers :
                /\ at[p] \in {"scan", "print"}
                /\ changed[p][k] = lastPrinted[k]

(* layerIdToName() keeps its names in a static map without a lock; the two *)
(* threads that call it never do so at the same time.                      *)
CacheSingleThreaded == \E p \in Printers : at[p] /= "print"

(* However the program ends, each event the platform has delivered is in   *)
(* the last total printed for its key.                                     *)
FinalReportComplete == at["main"] = "done" => shown = delivered

(* The counters and the reports are the abstract ledger.                   *)
Ledge == INSTANCE Ledger WITH recorded <- count,
                              closed   <- at["main"] = "done"

ImplementsLedger == Ledge!Spec

(* An event is reported without any end of the program, ten seconds after  *)
(* it was recorded or later.                                               *)
EventsReported ==
    \A k \in Keys, n \in 1..MaxEvents : delivered[k] >= n ~> shown[k] >= n

(* Once the line is read the program ends: neither the wait of the printer *)
(* nor the events that keep arriving, as many as MaxEvents allows, hold it *)
(* up, whatever the printer is doing when the stop is requested.           *)
StopEnds == at["main"] = "stop" ~> at["main"] = "done"

=============================================================================
