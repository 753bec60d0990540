----------------------------- MODULE AcceptLoop -----------------------------
(***************************************************************************)
(* main() of local-tcp-proxy (local-tcp-proxy/main.cpp): the start of the  *)
(* program with the cleanup of each failure, and the accept loop, which    *)
(* hands every connected pair of sockets to a detached thread.  Socket     *)
(* handles come from a finite table and are reused after they are closed.  *)
(* What a handler thread does with its pair is the subject of Relay; here  *)
(* it only ends at some time.                                              *)
(***************************************************************************)
EXTENDS Integers, Sequences

CONSTANTS Handles,   \* the values of SOCKET the system can give out
          NoSocket,  \* INVALID_SOCKET, also for locals not yet assigned
          Clients,   \* the clients that connect, each again and again
          NoClient,
          MayThrow   \* whether make_shared and std::thread may throw

ASSUME AcceptAssumption ==
    /\ NoSocket \notin Handles
    /\ NoClient \notin Clients
    /\ MayThrow \in BOOLEAN

VARIABLES
    main,      \* where main() is
    wsa,       \* WSAStartup has succeeded and WSACleanup was not called
    listener,  \* the local variables of main()
    client,
    target,
    open,      \* handles that are open in the system
    conns,     \* the Connection objects that exist
    peer,      \* the client main() is busy with
    backlog,   \* connections that wait to be accepted
    fate       \* what has become of each client

locals == <<listener, client, target>>
world  == <<backlog, fate>>
vars   == <<main, wsa, locals, open, conns, peer, world>>

Places == {"args", "socket", "bind", "listen", "pton", "accept", "target",
           "connect", "wrap", "spawn", "release", "exited", "dead"}

Running == main \notin {"exited", "dead"}

OwnerSets == (SUBSET {"main", "handler"}) \ {{}}

Connections ==
    [client : Handles, target : Handles, peer : Clients, owners : OwnerSets]

Init ==
    /\ main = "args"
    /\ wsa = FALSE
    /\ listener = NoSocket /\ client = NoSocket /\ target = NoSocket
    /\ open = {}
    /\ conns = {}
    /\ peer = NoClient
    /\ backlog = <<>>
    /\ fate = [c \in Clients |-> "away"]

Goes(from, to) == main = from /\ main' = to

-----------------------------------------------------------------------------
(* The start of the program.                                               *)

\* The arguments are wrong, or WSAStartup fails: nothing to clean up.
BadStart ==
    /\ Goes("args", "exited")
    /\ UNCHANGED <<wsa, locals, open, conns, peer, world>>

StartWinsock ==
    /\ Goes("args", "socket")
    /\ wsa' = TRUE
    /\ UNCHANGED <<locals, open, conns, peer, world>>

CreateListener ==
    /\ Goes("socket", "bind")
    /\ \E h \in Handles \ open : listener' = h /\ open' = open \cup {h}
    /\ UNCHANGED <<wsa, client, target, conns, peer, world>>

ListenerFails ==
    /\ Goes("socket", "exited")
    /\ wsa' = FALSE
    /\ UNCHANGED <<locals, open, conns, peer, world>>

\* setsockopt (its failure is ignored) and bind, listen, inet_pton.
SetUp ==
    /\ Goes("bind", "listen") \/ Goes("listen", "pton") \/ Goes("pton", "accept")
    /\ UNCHANGED <<wsa, locals, open, conns, peer, world>>

\* Variant: main() returns without the cleanup.
SetUpFailsDirty ==
    /\ \E from \in {"bind", "listen", "pton"} : Goes(from, "exited")
    /\ UNCHANGED <<wsa, locals, open, conns, peer, world>>

\* One of them fails: both are undone; who waits in the backlog is reset.
SetUpFails ==
    /\ \E from \in {"bind", "listen", "pton"} : Goes(from, "exited")
    /\ open' = open \ {listener}
    /\ wsa' = FALSE
    /\ backlog' = <<>>
    /\ fate' = [c \in Clients |-> "away"]
    /\ UNCHANGED <<locals, conns, peer>>

-----------------------------------------------------------------------------
(* The accept loop.                                                        *)

AcceptClient ==
    /\ Goes("accept", "target")
    /\ backlog /= <<>>
    /\ \E h \in Handles \ open : client' = h /\ open' = open \cup {h}
    /\ peer' = Head(backlog)
    /\ fate' = [fate EXCEPT ![Head(backlog)] = "taken"]
    /\ backlog' = Tail(backlog)
    /\ UNCHANGED <<wsa, listener, target, conns>>

\* accept() fails, because the table is full or for any other reason, and the
\* loop just tries again.
AcceptFails == main = "accept" /\ UNCHANGED vars

CreateTarget ==
    /\ Goes("target", "connect")
    /\ \E h \in Handles \ open : target' = h /\ open' = open \cup {h}
    /\ UNCHANGED <<wsa, listener, client, conns, peer, world>>

\* Variant: the accepted socket is not closed.
TargetFailsLeaks ==
    /\ Goes("target", "accept")
    /\ fate' = [fate EXCEPT ![peer] = "away"]
    /\ UNCHANGED <<wsa, locals, open, conns, peer, backlog>>

TargetFails ==
    /\ Goes("target", "accept")
    /\ open' = open \ {client}
    /\ fate' = [fate EXCEPT ![peer] = "away"]
    /\ UNCHANGED <<wsa, locals, conns, peer, backlog>>

\* connect() blocks the loop until it succeeds or fails.
ConnectSucceeds ==
    /\ Goes("connect", "wrap")
    /\ UNCHANGED <<wsa, locals, open, conns, peer, world>>

\* Variant: the socket that did not connect is not closed.
ConnectFailsLeaks ==
    /\ Goes("connect", "accept")
    /\ open' = open \ {client}
    /\ fate' = [fate EXCEPT ![peer] = "away"]
    /\ UNCHANGED <<wsa, locals, conns, peer, backlog>>

ConnectFails ==
    /\ Goes("connect", "accept")
    /\ open' = open \ {client, target}
    /\ fate' = [fate EXCEPT ![peer] = "away"]
    /\ UNCHANGED <<wsa, locals, conns, peer, backlog>>

\* The Connection takes over both sockets.
Wrap ==
    /\ Goes("wrap", "spawn")
    /\ conns' = conns \cup {[client |-> client, target |-> target,
                             peer |-> peer, owners |-> {"main"}]}
    /\ UNCHANGED <<wsa, locals, open, peer, world>>

\* The detached thread starts with a copy of the shared_ptr.
Spawn ==
    /\ Goes("spawn", "release")
    /\ \E c \in conns :
          /\ "main" \in c.owners
          /\ conns' = (conns \ {c})
                        \cup {[c EXCEPT !.owners = {"main", "handler"}]}
    /\ fate' = [fate EXCEPT ![peer] = "relayed"]
    /\ UNCHANGED <<wsa, locals, open, peer, backlog>>

\* make_shared or the constructor of std::thread throws.  main() catches
\* nothing: std::terminate ends the process with all its connections.
Throws ==
    /\ MayThrow
    /\ Goes("wrap", "dead") \/ Goes("spawn", "dead")
    /\ open' = {}
    /\ conns' = {}
    /\ wsa' = FALSE
    /\ backlog' = <<>>
    /\ fate' = [c \in Clients |-> "away"]
    /\ UNCHANGED <<locals, peer>>

\* Variant: no destructor closes the sockets.
DropWithoutClosing(c, o) ==
    /\ o \in c.owners
    /\ conns' = (conns \ {c}) \cup {[c EXCEPT !.owners = @ \ {o}]}
    /\ UNCHANGED open

\* An owner lets go of a Connection; the last one closes its sockets.
Drop(c, o) ==
    /\ o \in c.owners
    /\ \/ /\ c.owners /= {o}
          /\ conns' = (conns \ {c}) \cup {[c EXCEPT !.owners = @ \ {o}]}
          /\ UNCHANGED open
       \/ /\ c.owners = {o}
          /\ conns' = conns \ {c}
          /\ open' = open \ {c.client, c.target}

\* Variant: main() closes its copies of the handles as well.
ReleaseAndClose ==
    /\ Goes("release", "accept")
    /\ \E c \in conns :
          /\ "main" \in c.owners
          /\ conns' = (conns \ {c}) \cup
                {d \in {[c EXCEPT !.owners = @ \ {"main"}]} : d.owners /= {}}
    /\ open' = open \ {client, target}
    /\ UNCHANGED <<wsa, locals, peer, world>>

\* The iteration ends, and with it the local shared_ptr.
Release ==
    /\ Goes("release", "accept")
    /\ \E c \in conns : Drop(c, "main")
    /\ UNCHANGED <<wsa, locals, peer, world>>

\* The handler thread of a connection returns.
HandlerEnds ==
    /\ \E c \in conns :
          /\ Drop(c, "handler")
          /\ fate' = [fate EXCEPT ![c.peer] = "away"]
    /\ UNCHANGED <<main, wsa, locals, peer, backlog>>

-----------------------------------------------------------------------------
(* The clients.                                                            *)

Listening == Running /\ main \notin {"args", "socket", "bind", "listen"}

ClientConnects(c) ==
    /\ Listening /\ fate[c] = "away"
    /\ fate' = [fate EXCEPT ![c] = "queued"]
    /\ backlog' = Append(backlog, c)
    /\ UNCHANGED <<main, wsa, locals, open, conns, peer>>

ClientGivesUp(c) ==
    /\ fate[c] = "queued"
    /\ fate' = [fate EXCEPT ![c] = "away"]
    /\ \E i \in 1..Len(backlog) :
          /\ backlog[i] = c
          /\ backlog' = SubSeq(backlog, 1, i - 1)
                           \o SubSeq(backlog, i + 1, Len(backlog))
    /\ UNCHANGED <<main, wsa, locals, open, conns, peer>>

Ended == ~Running /\ UNCHANGED vars

Startup ==
    \/ BadStart \/ StartWinsock
    \/ CreateListener \/ ListenerFails
    \/ SetUp \/ SetUpFails

Loop ==
    \/ AcceptClient \/ AcceptFails
    \/ CreateTarget \/ TargetFails
    \/ ConnectSucceeds \/ ConnectFails
    \/ Wrap \/ Spawn \/ Throws \/ Release

Next ==
    \/ Startup
    \/ Loop
    \/ HandlerEnds
    \/ \E c \in Clients : ClientConnects(c) \/ ClientGivesUp(c)
    \/ Ended

Spec == Init /\ [][Next]_vars

(* Fairness: main() runs and connect() returns (Windows gives up a         *)
(* connection attempt after some time), connections end, and accept() does *)
(* not fail for ever while a client waits and a handle is free.  No client *)
(* has to come or to give up.                                              *)
FairSpec == Spec /\ WF_vars(Startup \/ Loop) /\ WF_vars(HandlerEnds)

-----------------------------------------------------------------------------
(* Properties.                                                             *)

Fates == {"away", "queued", "taken", "relayed"}

TypeOK ==
    /\ main \in Places
    /\ wsa \in BOOLEAN
    /\ {listener, client, target} \subseteq Handles \cup {NoSocket}
    /\ open \subseteq Handles
    /\ conns \subseteq Connections
    /\ peer \in Clients \cup {NoClient}
    /\ backlog \in Seq(Clients)
    /\ fate \in [Clients -> Fates]

\* The handles that main() itself has to close.
HeldByMain ==
    {h \in {listener} : Running /\ main \notin {"args", "socket"}}
    \cup {h \in {client} : main \in {"target", "connect", "wrap"}}
    \cup {h \in {target} : main \in {"connect", "wrap"}}

HeldBy(c) == {c.client, c.target}

(* No handle leaks and none is closed too early: whatever fails, the open  *)
(* handles are exactly the listener, what main() is about to hand over or  *)
(* close, and the sockets of the connections that exist.                   *)
HandlesAccounted == open = HeldByMain \cup UNION {HeldBy(c) : c \in conns}

(* A handle, once reused, never has two holders: nothing is closed twice   *)
(* and no connection forwards into the socket of another.                  *)
HandlesExclusive ==
    /\ \A c \in conns : c.client /= c.target /\ HeldBy(c) \cap HeldByMain = {}
    /\ \A c, d \in conns : c /= d => HeldBy(c) \cap HeldBy(d) = {}
    /\ main \in {"connect", "wrap"} => client /= target
    /\ main \in {"target", "connect", "wrap"} => client /= listener
    /\ main \in {"connect", "wrap"} => target /= listener

(* However the program ends by itself, it has closed its sockets and shut  *)
(* Winsock down, and it never closes the listener while it runs on.        *)
CleanExit ==
    /\ main = "exited" => open = {} /\ conns = {} /\ ~wsa
    /\ Running /\ main \notin {"args", "socket"} => wsa /\ listener \in open

(* A client that waits is accepted, resets or is turned away, even when    *)
(* the table of handles is full for a while.                               *)
QueuedIsAnswered ==
    \A c \in Clients : fate[c] = "queued" ~> fate[c] /= "queued"

=============================================================================
