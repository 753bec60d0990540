# Verification of NetworkEventsInWindows

TLA+ modules for the two programs of this repository, TLC configurations that
check them on small instances, and TLAPS proofs of their main properties for
every value of the constants. Paths below are relative to `src/`.

* `local-tcp-proxy` accepts TCP connections and relays each of them to one
  target address.
* `local-ip-proxy` subscribes to the network events of the Windows Filtering
  Platform (WFP), counts them by what they have in common and prints the totals
  that have changed.
* `lib-ansi_ui` is a header library for text on a console; neither program
  uses it.

## Inventory

### local-tcp-proxy

| component | state | operations | interacts with |
|---|---|---|---|
| start and accept loop, `main()`, `main.cpp:292-507` | Winsock started or not; the locals `listenSocket`, `clientSocket`, `targetSocket` | WSAStartup, socket/bind/listen/inet_pton with the cleanup of each failure; accept, socket, connect, make_shared, detached thread | clients (backlog), the system's table of handles, the handler threads (through `shared_ptr<Connection>`) |
| connection relay, `Connection`, `forward()`, handler lambda, `main.cpp:69-264, 473-499` | two sockets, two atomic flags, a reference count; per direction a buffer and `sentTotal` | recv, send until the buffer is sent, half-close of the destination, closing by the last owner | three threads for each connection: handler, client to target, target to client; the two peers |
| arguments and messages, `parsePort`, `classifyWinsockError` | none | parsing, wording | |

What is hard: each connection has five owners (`main()`, the handler, two
forwarders, and the copies in their closures) and who lets go last closes the
sockets; the two forwarders share both sockets; every call on a socket may
fail, be partial or block for ever; threads may not start; an exception outside
a `try` ends the process with all connections; `connect()` blocks the only
thread that accepts.

It is correct when bytes arrive once and in order, an end of stream is passed
on after the last byte and never before, one direction ends only for a cause of
its own, no socket is closed while a thread may use it, every connection of a
finished peer is torn down, no handle leaks, none is closed twice, and every
waiting client gets an answer.

### local-ip-proxy

| component | state | operations | interacts with |
|---|---|---|---|
| aggregation and reports, `Aggregator`, `netEventCallback`, `doPrint`, `RunPrinter`, `main()`, `main.cpp:371-660` | a map from key to `count` and `lastPrinted` under a mutex; a condition variable and a stop token; the cache of `layerIdToName` | count an event; scan, release the mutex, print; wait ten seconds or until stopped; stop, join, unsubscribe, last report | WFP calls back on threads of its own; printer thread; `main()` |
| net-event option, `probeAndNegotiateNetEvents`, `NetEventCollectionGuard`, `main.cpp:196-369` | a system-wide option; per process `NetEventState` | read, ask the user, set; restore in a destructor | other instances of the program, which share the option; the user |
| transactions, `FwpmTransaction.hpp` | `m_engine`, `m_state`; in WFP one transaction for each session | construct, move, commit, abort, addSubLayer, addFilter, destroy | the session of `FwpmEngine` |
| application path, `getAppPath`, `UTF16.hpp` | an iterator over bytes, the string built | nextCodepoint with five error outcomes, appending | its result is part of an event's key |
| keys and names, `Event.hpp`, `SocketAddress.hpp` | the cache of layer names | comparison, formatting | used by the aggregator |
| handles, `FwpmEngine.hpp`, `FwpmLayer.hpp`, `WinSockSession.hpp` | one handle each | open, close, move | |
| filter values, `FwpValue.hpp` | a tagged value | constructors | |
| UTF-8 reader, `UTF8.hpp` | | not used by either program | |

What is hard: callbacks on several threads against the printer and the shutdown
of `main()`; a total is marked as printed before it is printed and outside the
same critical section; the last report follows a normal and an exceptional path
alike; the option is read, set and restored minutes or days
apart, by processes that do not know of each other and may be killed; moves of
an object that stands for a transaction; `abort()` that calls itself.

It is correct when no event is lost or counted twice, everything counted is
reported at the latest when the program ends, the option is put back by someone
who knows, no transaction is left open or half done, and the name an event is
counted under is the path that WFP delivered.

### lib-ansi_ui

| component | state | operations | interacts with |
|---|---|---|---|
| console, `console.hpp`, `buffer.hpp` | what the window shows, and where it is in the screen buffer; a shadow buffer of what was presented | `present`, `put_text`, `clear`, `capture`, `size_chars`; `append_utf8` | the console, which may refuse to be read; viewports |
| viewports, `viewport.hpp`, `background_provider.hpp` | a tree with places, insets and canvases; two captured regions for each viewport | draw, `add_child`, `set_insets`, `present`, `snapshot`, `restore` | the console through `present` and `capture` |
| configuration, `console_config.hpp`, constructor and destructor of `Console` | two code pages, two modes, the cursor; what was saved and which of it was changed | constructors, move, destructors | the console, any call of which may fail |
| event processor, `event.hpp` | handlers by type | `subscribe`, `publish` | handlers |
| data, `ansi.hpp`, `cell.hpp`, `color.hpp` | | escape sequences | |

Code for one thread. What is hard: the shadow buffer is blanked whenever it is
resized and bypassed by `put_text`, yet a capture may be taken from it at any
time; viewports overlap, move their client area and capture two regions one
after the other; `present` writes positions of the window, whose edges it does not look
at, and `capture` reads positions of the screen buffer, of which the window may
show any part; the settings of the console are changed and put back by nested
objects of two classes, each call on its own with its own failure; and the
cursor can only be shown while escape sequences take effect.

It is correct when the shadow buffer is never stale where the program did not write
past it, nested snapshots bring everything back that they could see, a configuration that goes
leaves the settings as it found them, the cursor is shown in the end, and what
is written as UTF-8 can be read back.

## Modules

| module | models | abstract specification | proofs |
|---|---|---|---|
| `Relay` | one connection of local-tcp-proxy, from `make_shared` to `~Connection` | `ByteStream` | `RelayProofs` |
| `AcceptLoop` | `main()` of local-tcp-proxy with its handles, connections and clients | | `AcceptLoopProofs` |
| `EventAggregator` | the threads of local-ip-proxy around `Aggregator` | `Ledger` | `AggregatorProofs` |
| `NetEventOption` | several processes of local-ip-proxy around the option | | `OptionProofs` |
| `FwpmTransaction` | the class of that name, and WFP as far as it depends on it | | `TransactionProofs` |
| `AppPath` | `getAppPath` with the UTF-16 reader | | `AppPathProofs` |
| `Screen` | `Console` with its shadow buffer, and the viewports on it | | `ScreenProofs` |
| `ConsoleSession` | nested objects of `ConsoleConfig` and `Console`, and the settings they change | | `ConsoleProofs` |
| `Utf8` | `append_utf8` and `UTF8::nextCodepoint` | | `ConsoleProofs` |

`MC<Module>` instantiates a module for TLC. A connection appears in two
modules, at two grains: `AcceptLoop` sees it as an object with owners that ends
at some time and closes its two handles, `Relay` shows what happens inside, with
the same last-owner rule (`DropOwner` there, `Drop` here) and the guarantee that
it does end (`EndedPeerLeadsToClose`).

Operators whose comment begins with *Variant* are not part of a
specification. Each is an action or a helper with a plausible mistake: the
offset not reset, a handle not closed, a missing lock, a swapped order.
`PROJECT.json` names for each property of each passing run a definition and the
variant that, put in its place, makes TLC report a violation of that property.

### Relay

One action for each system call or step of a thread. `handler` is the position
of the handler lambda, `th[d]` that of `forward()` for a direction `d`. Bytes are
numbered as their writer wrote them, so loss, repetition and order are visible.

* `RecvBytes`, `RecvEof`, `RecvError` are the three outcomes of `recv()`
  (`main.cpp:180-204`), with any number of bytes from one to the buffer's size.
* `SendBytes` accepts any number of bytes that the peer's window allows; when it
  allows none the thread is blocked, as `send()` is. `SendError` stands for both
  a failed connection and a socket whose send side is shut down.
* `Shutdown` is the compare_exchange on the flag together with `shutdown()`;
  nobody reads the flag between the two except the same compare_exchange, and
  each flag has one thread that ever uses it.
* `ThreadFails` is an exception of `std::jthread`: for `t1` the lambda's
  handler catches it, for `t2` unwinding joins `t1` first. `forward()` ignores
  the stop request that `~jthread` makes, so the state `unwind` may last.
* `Terminate` is `std::terminate`: an exception leaves a thread without a
  handler, of this connection or another, and the system closes all sockets.
* `Finished` is the only stuttering step, enabled once nothing is left; TLC
  checks deadlock in every run, so no other state may stop.

Peers write, read, finish or fail at any time. A failed peer may or may not lose
the unread bytes: `RecvError` competes with `RecvBytes`.

### AcceptLoop

`main` is the position in `main()`. Handles come from the finite set `Handles`,
any free one each time, so they are reused; `open` is what the system has open
and the locals keep their stale values, as the code's variables do. Each `...Fails`
action closes exactly what its error path closes. `conns` are the `Connection`
objects with their owners; `Throws` is the exception of `make_shared` or
`std::thread`, which nothing in `main()` catches (`main.cpp:468-499`). A client is
away, queued, taken or relayed, and may come again. `accept()` may fail at any time
(`AcceptFails`), after which the loop tries again.

### EventAggregator

`at` is the position of `main()` and of the printer thread; a callback is a
position, a key and the count it has read. `++stats.count` is a read and a write
in two steps: without the mutex increments would be lost, and a variant shows it.
`Scan` looks at one map entry; the order of entries is left open. On the normal
path `main()` ends the subscription and, leaving the `try` block, the session, and
then calls `doPrint` (`main.cpp:658`). After an exception unwinding ends the session,
and with it the subscription, before the same call. The two early returns of the
setup make no report; no event has been delivered by then. An exception after the
printer has started takes the same way: `~jthread` requests the stop and joins, as the
two calls after `getline` do, and the subscription lasts until the session is closed,
as it does when `FwpmNetEventUnsubscribe0` fails (`UnsubscribeSkipped`).
That `FwpmNetEventUnsubscribe0` and the end of the session wait for callbacks that
are running is WFP's documented behaviour, taken as an assumption
(`SubscriptionEnded`); `FinalReportComplete` depends on it.

### NetEventOption

`option` is the system's value. An instance's `NetEventState` is `collects`,
`weChanged`, `originalValue`. `Choose` is the user's answer; `Killed` ends a process
without destructors at any point; `RestoreFails` is each of the two warnings of the
guard. `undone` records whose change stays, until another instance puts the option
back, and exists for the properties only. `CollectsUntilTheEnd` names its exception: an
instance that found the option off restores it under another one that is running.

As committed, `local-ip-proxy/main.cpp` does not compile: `globalEngine` is
declared in the `try` block at line 203 and used at 235, `engine` at line 319 is not
declared, and the conversion to `HANDLE` is explicit and private. The model takes
these names as the engine handle that is evidently meant.

### FwpmTransaction

One thread calls the members in any order the interface allows, on several
objects and sessions. Only `abort()` takes several steps: it calls itself when the
platform refuses (`FwpmTransaction.hpp:91`), on a broken session until the stack is
full (`Overflowed`). The destructor asks once and does not look at the answer
(`DestroyInVain`). What is added is not told apart, and a sublayer that exists already
counts as added, as in the code. Two variables are history: `lacking` are the sessions
whose transaction lacks an addition that was refused, `orphaned` those that a
destructor failed to abort.

### AppPath

One action for each outcome of one call of `nextCodepoint`: the code's error
kinds, the pair and the single unit. The iterator is
`std::istream_iterator<char>`, which skips white space (`Skip`). `CombineSurrogates`
keeps the bitwise or of `UTF16.hpp:28`. A unit of the result is a number and a
flag that says whether it stands there as a character or as a hexadecimal number
between marks; the wording of the marks is left out.

### Screen

The console is the grid of cells of its window, `Before` what it shows when the
program starts. A program that uses the library is the environment: it draws, presents,
snapshots, restores, writes text and clears in any order, within these rules, none of
which the library checks.

* Snapshots are restored in the opposite order. While one is held, the viewport
  that took the latest is the one that is presented (`InFront`), and nobody changes the
  layout (`AddChild`, `SetInsets`).
* No viewport becomes a child of itself or of one below it. `add_child()` would let it,
  and `present` and `abs_x` would then not end.
* What is presented or captured is at positions from 1 on (`OneBased`), as the
  comment at `viewport.hpp:134` has it. Below 1, `move_abs` would write elsewhere, and the
  assertion of `buffer.hpp:33` fail.
* Texts of `put_text` are one character long and lie off the lower right corner, and
  the user does not scroll by hand.

Each `Console::present` is a step of its own, and so is each `ViewPort::present` of a
child (`Descend`). `todo` holds, in their order, the calls still to come: of the console
for a frame, a canvas or the two regions of a restore, and of each child for the whole
of it. `Descend` puts what a child consists of in the place of its call.

`Draw` is a `present` of cells within the window: it writes them, resizes the shadow
buffer, which blanks it, and stores the cells there (`Stored`). `ensure_shadow` then never
finds an empty buffer, so that its body has no step. `present` does not look at the size of
the window. If a cell lies beyond it, the terminal goes on in the next row, writes the
lowest row again, or scrolls, and so it may after the lower right corner (there both
actions are possible): `DrawBeyond` leaves nothing known of what the window shows or where
it is, only the shadow buffer is as in `Draw`.

`Capture` reads the console (`Buffered`) or, when the console refuses, the shadow buffer
(`Shadowed`); the two captures of a `Snapshot` may fare differently. `ReadConsoleOutputW`
takes positions of the screen buffer, so that it reads the cells of the window only if
this one is at the buffer's corner; `origin` says where it is, `Origins` where it may be,
and elsewhere the buffer may hold anything (`Unknown`).
`ShadowReadbackBackgroundProvider` reads any buffer the way the fallback does and
has no case of its own. Left out: colours and styles (a capture from the console
returns white on black, so they do not come back after a restore), moves of a
`Console` (in `ConsoleSession`), providers that change, a second `restore` of
the same snapshot.

Three variables are history. `last` and `typed` say which points the latest
`present` and later `put_text` calls have written. Each entry of `open` has in `was`
the characters that its holder can count on; `Spoil` takes away those that
were written outside the viewport that holds the latest snapshot, and `Snapshot`
those that its capture did not see (`Right`): the shadow buffer did not know them, or the
window was not at the corner of the screen buffer. After `DrawBeyond` nobody counts on
anything (`Waived`).

### ConsoleSession

`able` is what the machine supports, fixed at the start: a call is refused when
it asks for more. `scopes` are the objects that live; they are automatic
variables and go in the opposite order. A constructor of `ConsoleConfig` is one
step, as nothing else runs in between; `changed` is the code's four flags.
`Console` saves nothing and only adds one flag to the output mode. It hides the
cursor before it switches the escape sequences on (`console.hpp:241-248`), so that
without a `ConsoleConfig` outside it the cursor stays visible: `Written` has no
effect then. `MoveConsole` leaves an object that shows the cursor as well.
Move assignment changes nothing of this state and has no action.

### Utf8

`Write` is a call of `append_utf8`, which all precede the first reading; then there
is one action for each outcome of a call of `nextCodepoint`. There may be any bytes at
the start (`junk` is their number), alone or, if they are few, in front of a text. The iterator is `std::istream_iterator<char>` again:
`Yielded` drops the white space, and arbitrary data stand without it from the first.
`text` is history: what a reader is to get, with U+FFFD for what is no code point.
`Recovered` is `recoverFromError`: it takes one more byte whatever that is, and then
goes on to the next continuation byte. The bits that an error reports and the
number that the code prints for each continuation byte are left out.

## Runs

Constants are model values. Sizes are numbers of distinct states.

| run | bounds | checks |
|---|---|---|
| `relay` (399 thousand) | 2-byte buffer, window 1, 2 bytes each way, all failures | `StreamIntact`, `EofIsHonest`, `EndsForCause`, `NoUseAfterClose`, `ImplementsStreams`, `ImplementsLiveStreams`, `EndedPeerLeadsToClose` |
| `accept` (40 thousand) | 5 handles, 3 clients, exceptions | `HandlesAccounted`, `HandlesExclusive`, `CleanExit`, `QueuedIsAnswered` |
| `aggregator` (37 thousand) | 2 keys, 2 callbacks, 3 events of each key | `CountsExact`, `NothingLost`, `CacheSingleThreaded`, `FinalReportComplete`, `ImplementsLedger`, `EventsReported`, `StopEnds` |
| `option` (3256 up to symmetry) | 3 instances, option off at first | `SomebodyRestores`, `CollectsUntilTheEnd` |
| `transaction` (36 thousand up to symmetry) | 3 objects, 2 sessions, 2 nested calls | `OneOwner`, `NoHalfTransaction`, `FailureAborts` |
| `transaction_move` | violated | `ImplicitAbort`, finding 1 |
| `app_path` (91 thousand) | every input of up to 6 bytes out of 5 | `UnitsShown`, `OutputWellFormed`, `Returns` |
| `app_path_space`, `app_path_plane` | violated | findings 2 and 3 |
| `screen` (940 thousand) | a window of 4 by 3 at 2 places of the screen buffer, two viewports, 6 calls | `ShadowHoldsLastDraw`, `RestoreUncovers` |
| `session` (66 thousand) | 4 objects at a time, all machines and settings | `SettingsComeBack`, `CursorComesBack` |
| `utf8` (1.4 million) | texts of up to 3 of 15 code points, behind up to 2 bytes; data of up to 6 bytes out of 8 | `TextReadBack`, `SuccessIsHonest`, `DamageIsLocal` |

The passing runs but the last two also check the type invariant of their module;
that of `ConsoleSession` is proved.

Why the bounds are enough to be interesting:

* `Relay`: a buffer of 2 with a window of 1 makes `send()` accept part of a
  buffer and then block in the middle of it; two bytes allow one `recv()` of two or
  two of one. All failures of the runtime may occur in between.
* `AcceptLoop`: 5 handles hold the listener and two connections, so the third
  client waits while the table is full, a connection is made while another is torn
  down, and handles are reused. `TargetFails` needs no full table: `socket()` may
  fail for any reason.
* `EventAggregator`: two callbacks compete for the mutex with each other and the printer; two
  keys make a report of two lines, between which events arrive; three events of a
  key allow one before a scan, one during the print and one after.
* `NetEventOption`: with three instances one may restore under a second while a
  third has read the old value.
* `FwpmTransaction`: three objects allow a chain of moves and an assignment to an
  active object while another session is in use.
* `AppPath`: 0, 32, 64, 216 and 220 make ordinary units, white space, both
  kinds of surrogates and both parities of the plane; six bytes are three units,
  enough for a broken pair followed by its rest. The bytes lie in any place, so odd
  lengths and shifts occur.
* `Screen`: the two viewports overlap, and either can become the parent of the other,
  by which the larger one reaches beyond the edges of the window, on the right and below,
  and `DrawBeyond` happens; insets of 0 and 1 leave a client area or none. The window is
  at the corner of the screen buffer or a row below, so that captures are of the cells shown
  or of others. Six calls
  allow two nested snapshots with a drawing in each and both restored, or a
  layout that is changed before a snapshot. One character besides the blank and the
  frame tells drawn from undrawn. The calls are bounded, so the run may stop.
* `ConsoleSession`: two configurations with consoles between and inside them; the
  initial states are all settings a machine can have.
* `Utf8`: the code points lie on both sides of every boundary; the bytes are of every
  kind that the reader tells apart, the blank among them dropped by the iterator; six
  bytes are an error in a sequence of up to four, what it swallows, and a character
  behind it. Two bytes in front of a text are a lead that swallows its first character, or
  a lead with too few bytes behind it; three characters of a text are one to be lost, one
  to find the way back by, and one to be read.

## Fairness

* `Relay`: `EndedPeerLeadsToClose` names the one exception, and
  `ImplementsLiveStreams` excuses a direction that a failure has ended (`Unserved`).
  Each thread that can run does (`WF` on `Handler`, `Forward(d)`,
  `MainReleases`), as the scheduler grants. A peer reads what was sent to it and
  answers an end of stream by finishing. The last two are assumptions about the
  peers, not about the code: the code has no time-out, and without them a
  connection lasts for ever. Nobody has to write, finish or fail.
  Of the client even the reading is not taken for granted: it is no part of
  `Fairness`, but the premise `ClientReads` of those properties that need it.
  `ImplementsLiveStreams` says without the premise that what the client sends goes on
  reaching the target while the other direction is blocked for ever.
* `AcceptLoop`: `main()` runs and `connect()` returns, since Windows gives up an
  attempt after a while; connections end; and `accept()` does not fail for ever while a
  client waits and a handle is free. No client has to come or to give up.
* `EventAggregator`: threads run and the wait of the printer ends. A callback
  waits for the mutex with strong fairness: the printer takes the mutex again and
  again, but leaves it free for ten seconds in between. No line has to be typed. That the
  wait ends (`WaitEnds`) may be the time-out or the stop, which the model does not tell
  apart: `StopEnds` says that the loop then ends, not that it ends at once.
* `AppPath`: sequential code runs. That it has finitely many steps to run is proved
  (`EveryCallConsumes`).

`NetEventOption` and `FwpmTransaction` state no liveness: a user may never
answer, and `abort()` may never return normally (it is listed under the hazards).
`Screen` and `ConsoleSession` leave it to the program when and whether it calls.
`Utf8` needs none: each call of the reader takes a byte off finite data
(`EveryCallTakesBytes`).

## What is proved

TLAPS proves the following for all values of the constants that satisfy the named
assumption of the module. The inductive invariants were first checked with TLC.

* `RelayProofs` (`RelayAssumption`: buffer and window of at least one byte).
  `TypeCorrect`; `NoUseAfterCloseHolds` from `Ownership`, which ties the set of
  owners to the positions of the handler and the threads, so that closed sockets
  mean no owners and no owners mean nobody who runs. `StreamIntactHolds` from
  `BufferUse` (`sentTotal` lies within the buffer, and the buffer is sent whenever
  the thread is in `recv()`) and `Positions` (the i-th byte of each of the three
  places is the byte whose number follows from the lengths of the places before
  it). `EndsForCauseHolds` and `EofIsHonestHolds` from `Endings`, which says why a
  thread is past its loop, and that only such a thread has shut a side down.
  `RelayImplementsStreams`: each step of `Relay` is a step of `ByteStream` or a stutter
  in each direction.
* `AcceptLoopProofs` (`AcceptAssumption`). `AcceptTypeCorrect` with `Assigned` (a
  local that is used has been assigned). `HandleInv` = `HandlesAccounted`,
  `HandlesExclusive` and `Shared` (where a connection with the owner "main" can
  exist): the first two support each other, since a fresh handle is not in `open` and
  so has no holder. `CleanExitHolds` follows.
* `AggregatorProofs` (`AggregatorAssumption`: finitely many callback threads).
  `AggregatorTypes` is the type invariant with what ties a callback to its key.
  `Phases` orders the shutdown; `Locking` says who holds the mutex and that the value
  read is still the count; from it `CountsExactHolds`, with a lemma on the
  cardinality of the callbacks that are recording. `Books` = `PendingIsNew`,
  `InOrder`, `ScanIsComplete`, `EndsSettled`, `NothingLost`. They give
  `NothingLostHolds`, `FinalReportCompleteHolds`, and with `AggregatorImplementsLedger`
  that every printed total is new and not above what was recorded.
* `OptionProofs` (`OptionAssumption`). `OptionInv` adds to the two properties what
  an instance knows (`Knows`) and that an option that was on at first stays on and is
  never asked about (`OnStaysOn`).
* `TransactionProofs` (`TransactionAssumption`). `TransactionTypeCorrect` includes
  `Handled`; `Handled` (the object whose
  `abort()` is on the stack is active, an active one has an engine) supports
  `OneOwnerHolds` and `FailureAbortsHolds`. `NoHalfTransactionHolds` from `HalfIsAborted`:
  a transaction that lacks an addition is open only while its object's `abort()` is on the
  stack.
* `AppPathProofs` (`AppPathAssumption`: bytes are octets). Lemmas on `Skip` give
  `AppPathTypeCorrect`; `OutputWellFormedHolds` is inductive with the lemma that
  `Split` of what `CombineSurrogates` returns is again a high and a low surrogate.
  `UnitsShownHolds` from `Progress`: without white space the iterator stands behind
  two bytes for each unit appended or held. `EveryCallConsumes`: each call of
  `nextCodepoint` lowers `Left`, a count of the bytes that are left and of the surrogate
  that waits, whatever the data are. It is the reason why `Returns` holds.
* `ScreenProofs` (assumptions on the places of the viewports and the console), for
  every tree of viewports, and under the rules of use named above. `Abs` and `Root` are
  recursive along the parents, so they mean something only while no viewport is above
  itself. `Acyclic` says so, which the rule for `AddChild` gives, and `ParentInduction` and
  `ParentRecursion` turn it into an induction and a definition along the parents.
  `TypeOKHolds` from `Shapes`, which says also of what is still to be drawn and of the
  snapshots that they hold cells.
  `PresentStoresInside` from `AllFromOne`: what is still to be drawn and what has been
  captured is at positions from 1 on, as these only grow from a viewport to its children
  and nothing moves in between; so `present()` stores every cell within the shadow buffer,
  whatever lies beyond the window or the client area, and the assertion of
  `Buffer::at()` holds.
  `ShadowHoldsLastDrawHolds`: the property is inductive with the domain of the shadow
  buffer; only `Draw`, `DrawBeyond`, `PutText` and `Clear` touch what it speaks of.
  `RestoreUncoversHolds` from `Snapshots`, which describes the stack of snapshots: each
  holder has captured what it is owed inside its viewport (`BringsBack`); what it is
  owed outside is owed to the holder above it as well (`Under`), or still shown if
  it is the latest (`LastKept`); and while a snapshot is being restored, each point it is
  owed is right already or some drawing to come puts it right and none after that one
  disturbs it (`Restoring`). `Under` is where the opposite order of the restores is
  needed: what lies outside the restored viewport passes to the holder below it.
* `ConsoleProofs`, for `ConsoleSession` (`ScopesAssumption`). `SessionTypeCorrect`.
  `SettingsComeBackHolds` from `SavedRight`: what a configuration did not change is,
  as long as it lives, as it found it, in the console and in what each configuration
  inside it has saved. The lemma behind it is `ConfiguredTwice`: a machine that
  refuses a setting refuses it again. `ConsoleAddsNothing` does the same for a `Console`
  inside. `CursorComesBackHolds` from `CursorRight`: while the cursor is hidden some
  console object lives, such that every configuration inside it has found the
  escape sequences switched on and will leave them so.

* `ConsoleProofs`, for `Utf8` (`Utf8Assumption`: bytes are octets), for data and texts of
  any length. `WrittenIsRead`: the bytes that `append_utf8` writes for a code point are a
  lead and continuation bytes of the right number, and the bits that the reader puts
  together from them are that code point; it is proved for every code point, by the
  arithmetic of each of the four lengths. `TextReadBackHolds` follows from `ReadsText`:
  with `Fits` it says that the bytes left are those of the code points not yet read, by
  the number of bytes that stand before each. `SuccessIsHonestHolds` from
  `WellFormedIsHonest`, where the exceptions (forms that are too long, surrogates, numbers
  too large) come out as the cases the arithmetic leaves open. `DamageIsLocalHolds`
  from `FindsText`: until a call crosses into the text, this lies behind the damage that is
  left (`Ahead`); the call that crosses takes whole characters of one byte and ends with one,
  or with the first of two bytes at the latest (`Crossing`), since a continuation byte of
  short text is the last of its character (`RecoveredStops`); and from there on the text is
  read as if nothing had stood before it (`ReadsFrom`).
  `EveryCallTakesBytes` as for the UTF-16 reader. `Yielded` is a recursive function;
  what it returns is decided by taking the shortest prefix that would be a
  counterexample (`LeastMember`), as the induction theorems of the library cannot be
  instantiated by the provers used here.

Only model-checked: all liveness (`EndedPeerLeadsToClose`,
`ImplementsLiveStreams`, `QueuedIsAnswered`, `EventsReported`, `StopEnds`, `Returns`),
since TLAPS has no practical support for fairness and `ENABLED`, and the absence of
deadlock. Every invariant that a passing run checks is proved, and so are the
action properties and the refinements without fairness.
What is violated is shown by TLC's counterexamples.

## Findings

1. `transaction_move`: the move assignment of `FwpmTransaction` overwrites an active
   object (`FwpmTransaction.hpp:54`), so its transaction has no object that would
   abort it, against the comment at line 35.
2. `app_path_space`: `std::istream_iterator<char>` skips white space
   (`FwpmNetEventHeader.hpp:37`), so that a path with a blank, such as "Program Files",
   loses a byte and every later byte pairs up wrongly. The comment at
   `UTF16.hpp:48` has the iterator yield bytes, two for each unit.
3. `app_path_plane`: `combineSurrogates` joins 0x10000 with a bitwise or
   (`UTF16.hpp:28`); for even planes from 2 on the bit is already set and is not
   carried, so that another code point is read. The formula in the comment adds.

Observations without a run:

* `main()` of local-tcp-proxy creates the handler with `std::thread`, and the
  `Connection` with `make_shared`, outside any `try` (`local-tcp-proxy/main.cpp:468-499`):
  an exception ends the process with every connection it relays.
* After a high surrogate followed by another high one both units are consumed, and
  the low one that follows is reported as one without a preceding high surrogate
  (`UTF16.hpp:107-109`).
* An error of `UTF8::nextCodepoint` costs everything up to and including the next
  continuation byte (`UTF8.hpp:61`), where the comment on `recoverFromError` speaks of
  "the invalid bytes of the current codepoint". Text without such a byte is lost to
  its end, and characters of one byte behind a damaged one are lost with it (`DamageIsLocal`
  promises them from the next two-byte character on); and when a byte such as 255 stands
  before a text of three-byte characters,
  each error leaves the reader in the middle of the next one, so that none of them is
  ever read. Forms that are too long,
  surrogates and numbers beyond the last code point are accepted (the exceptions in
  `SuccessIsHonest`).
* At the end of the input `promptYesNo` answers no and `promptChoice` its default,
  which turns the option on (`local-ip-proxy/main.cpp:127-135, 171-184, 296-300`).
* `present` does not look at the size of the window, so that a viewport that sticks out
  of it on the right or below overwrites cells elsewhere, which no snapshot holds
  (`console.hpp:125-152`); for positions below 1 `move_abs` writes from 1 on
  (`ansi.hpp:19-26`) and the shadow buffer's assertion fails (`buffer.hpp:33`).
* `capture` takes positions of the screen buffer and `present` positions of the window
  (`console.hpp:95, 173-182`): while the window is scrolled, `snapshot` holds other cells
  than those that are covered (`viewport.hpp:109`).
* Every `present` blanks the shadow buffer (`console.hpp:154`), so that a capture that falls
  back on it finds the latest one only. `put_text` does not tell it (`console.hpp:116`).
* `add_child` would make a viewport its own descendant (`viewport.hpp:78-83`).
* The destructor of `FwpmTransaction` does not look at what its abort returns
  (`FwpmTransaction.hpp:62-69`), nor `main()` at `FwpmNetEventUnsubscribe0`
  (`local-ip-proxy/main.cpp:649`).
* An instance of local-ip-proxy that changed the net-event option turns it off at its end
  under every other instance that still runs (`NetEventCollectionGuard.hpp:69`).
* A canvas keeps its size when `set_insets` makes the client area smaller, and is drawn
  beyond it (`viewport.hpp:90`); such points are not brought back by `restore`.
* A name that `std::wcout` cannot convert sets its error state, and the names of all
  later events are left out of the report (`local-ip-proxy/main.cpp:486`); the totals are
  printed to `std::cout` and not affected.
* `~FwpmEngine` closes a handle that `main()` has already closed
  (`local-ip-proxy/main.cpp:632`), and the copy constructor of `FwpmEngine` is
  defaulted next to a destructor that closes (`FwpmEngine.hpp:54`).

## Not modelled

Log messages and their wording, `classifyWinsockError`, `parsePort`, the formatting of
events and addresses and the comparison of keys (a key is a model value), filter
values, the constants and colours of `lib-ansi_ui`, the build files. `EventProcessor`
is two lines around a vector: what a handler does that subscribes to the type being
published is undefined (`event.hpp:32`), so that nothing could be stated. The wrappers
`FwpmEngine`, `FwpmLayer` and `WinSockSession` are present as the steps of `main()` that
open and close a session. An allocation failure in the printer thread ends the
process, as in `Relay`, and is left out of `EventAggregator`: nothing could be said
of the report after it. So is one in a callback, where WFP would be the caller that
gets the exception.

## Plan

Done, in this order: `Relay` with `ByteStream`; `AcceptLoop`; `EventAggregator` with
`Ledger`; `NetEventOption`; `FwpmTransaction`; `AppPath`; the proofs of each.

After these: `Screen`, `ConsoleSession` and `Utf8`, with the proofs of each.

What is left:

1. A common abstraction of the life of a connection, which `Relay` implements and
   `AcceptLoop` uses.
2. Handles of the filtering engine, once `FwpmEngine` has a defined copy: who closes a
   handle, and how often (`main.cpp:632`).
