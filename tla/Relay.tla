------------------------------- MODULE Relay -------------------------------
(***************************************************************************)
(* One accepted connection of local-tcp-proxy (local-tcp-proxy/main.cpp):  *)
(* the detached handler thread, its two forward() threads, the shared      *)
(* Connection object with its reference count, the two sockets and the two *)
(* remote peers.  Bytes are numbered in the order in which a peer writes   *)
(* them, so order, loss and duplication are visible.                       *)
(***************************************************************************)
EXTENDS Integers, Sequences

CONSTANTS BufSize,   \* size of the buffer of forward(), 4096 in the code
          Window,    \* bytes a peer's socket accepts before send() blocks
          MaxBytes,  \* bound: bytes a peer writes in one behaviour
          Faults     \* failures of the C++ runtime that may happen

FaultKinds == {"t1", "t2", "terminate"}

ASSUME RelayAssumption ==
    /\ BufSize \in Nat \ {0}
    /\ Window \in Nat \ {0}
    /\ MaxBytes \in Nat
    /\ Faults \subseteq FaultKinds

Sides == {"client", "target"}
Dirs  == {"c2t", "t2c"}

\* The sockets one forward() thread reads from and writes to.
Src(d) == IF d = "c2t" THEN "client" ELSE "target"
Dst(d) == IF d = "c2t" THEN "target" ELSE "client"

VARIABLES
    alive,         \* FALSE once std::terminate has ended the process
    handler,       \* where the detached handler thread is
    owners,        \* the shared_ptr<Connection> owners that are left
    sock,          \* the proxy's two sockets
    th,            \* where each forward() thread is
    buf,           \* what the last recv() of a direction stored
    off,           \* sentTotal of a direction
    shutdownDone,  \* the atomic flag of each socket's send side
    finSent,       \* shutdown(SD_SEND) on this socket has succeeded
    wire,          \* bytes received by the proxy's kernel and not yet read
    written,       \* how many bytes the peer of a direction has written
    delivered,     \* the bytes send() has accepted, in order
    peerRead,      \* how many of them the peer has read
    fin,           \* this peer has finished sending
    rst            \* the connection to this peer has failed

procVars == <<alive, handler, owners, sock>>
fwdVars  == <<th, buf, off, shutdownDone, finSent>>
dataVars == <<wire, written, delivered>>
peerVars == <<peerRead, fin, rst>>
vars     == <<procVars, fwdVars, dataVars, peerVars>>

HandlerStates == {"makeT1", "makeT2", "join1", "join2", "unwind",
                  "release", "gone"}
ThreadStates  == {"none", "entry", "recv", "send", "shut", "leave", "exited"}

Init ==
    /\ alive = TRUE
    /\ handler = "makeT1"
    /\ owners = {"main", "handler"}
    /\ sock = [s \in Sides |-> "open"]
    /\ th = [d \in Dirs |-> "none"]
    /\ buf = [d \in Dirs |-> <<>>]
    /\ off = [d \in Dirs |-> 0]
    /\ shutdownDone = [s \in Sides |-> FALSE]
    /\ finSent = [s \in Sides |-> FALSE]
    /\ wire = [d \in Dirs |-> <<>>]
    /\ written = [d \in Dirs |-> 0]
    /\ delivered = [d \in Dirs |-> <<>>]
    /\ peerRead = [d \in Dirs |-> 0]
    /\ fin = [s \in Sides |-> FALSE]
    /\ rst = [s \in Sides |-> FALSE]

-----------------------------------------------------------------------------
(* Ownership of the Connection object.                                     *)

\* ~Connection() closes both sockets when the last owner lets go.
DropOwner(o) ==
    /\ owners' = owners \ {o}
    /\ sock' = IF owners \subseteq {o} THEN [s \in Sides |-> "closed"]
                                       ELSE sock

\* The iteration of main() that built the Connection ends.
MainReleases ==
    /\ alive /\ "main" \in owners
    /\ DropOwner("main")
    /\ UNCHANGED <<alive, handler, fwdVars, dataVars, peerVars>>

-----------------------------------------------------------------------------
(* The handler lambda.                                                     *)

HandlerGoes(from, to) == alive /\ handler = from /\ handler' = to

\* A std::jthread starts: it holds a copy of the shared_ptr.
StartThread(d, from, to) ==
    /\ HandlerGoes(from, to)
    /\ owners' = owners \cup {d}
    /\ th' = [th EXCEPT ![d] = "entry"]
    /\ UNCHANGED <<alive, sock, buf, off, shutdownDone, finSent, dataVars,
                   peerVars>>

\* The constructor of std::jthread throws std::system_error.  When t1 exists,
\* unwinding destroys it: ~jthread requests a stop that forward() ignores,
\* and joins.
ThreadFails(fault, from, to) ==
    /\ fault \in Faults
    /\ HandlerGoes(from, to)
    /\ UNCHANGED <<alive, owners, sock, fwdVars, dataVars, peerVars>>

\* join() of direction d returns once that thread has exited.
Join(d, from, to) ==
    /\ th[d] = "exited"
    /\ HandlerGoes(from, to)
    /\ UNCHANGED <<alive, owners, sock, fwdVars, dataVars, peerVars>>

HandlerReleases ==
    /\ HandlerGoes("release", "gone")
    /\ DropOwner("handler")
    /\ UNCHANGED <<alive, fwdVars, dataVars, peerVars>>

Handler ==
    \/ StartThread("c2t", "makeT1", "makeT2")
    \/ ThreadFails("t1", "makeT1", "release")
    \/ StartThread("t2c", "makeT2", "join1")
    \/ ThreadFails("t2", "makeT2", "unwind")
    \/ Join("c2t", "join1", "join2")
    \/ Join("t2c", "join2", "release")
    \/ Join("c2t", "unwind", "release")
    \/ HandlerReleases

-----------------------------------------------------------------------------
(* forward(), one thread per direction.                                    *)

ThreadGoes(d, from, to) ==
    alive /\ th[d] = from /\ th' = [th EXCEPT ![d] = to]

\* Variant: one thread serves both directions, one after the other.
EnterInTurn(d) ==
    /\ d = "c2t" => th["t2c"] = "exited"
    /\ ThreadGoes(d, "entry", "recv")
    /\ UNCHANGED <<procVars, buf, off, shutdownDone, finSent, dataVars,
                   peerVars>>

Enter(d) ==
    /\ ThreadGoes(d, "entry", "recv")
    /\ UNCHANGED <<procVars, buf, off, shutdownDone, finSent, dataVars,
                   peerVars>>

Smaller(m, n) == IF m < n THEN m ELSE n

\* Variant: sentTotal keeps the value it had for the last buffer.
RecvBytesKeepsOffset(d) ==
    /\ ThreadGoes(d, "recv", "send")
    /\ \E n \in 1..Smaller(BufSize, Len(wire[d])) :
          /\ buf' = [buf EXCEPT ![d] = SubSeq(wire[d], 1, n)]
          /\ wire' = [wire EXCEPT ![d] = SubSeq(@, n + 1, Len(@))]
    /\ UNCHANGED <<procVars, off, shutdownDone, finSent, written, delivered,
                   peerVars>>

\* recv() returns between one byte and a full buffer.
RecvBytes(d) ==
    /\ ThreadGoes(d, "recv", "send")
    /\ \E n \in 1..Smaller(BufSize, Len(wire[d])) :
          /\ buf' = [buf EXCEPT ![d] = SubSeq(wire[d], 1, n)]
          /\ wire' = [wire EXCEPT ![d] = SubSeq(@, n + 1, Len(@))]
    /\ off' = [off EXCEPT ![d] = 0]
    /\ UNCHANGED <<procVars, shutdownDone, finSent, written, delivered,
                   peerVars>>

\* recv() returns 0: the peer has finished and everything it sent is read.
RecvEof(d) ==
    /\ fin[Src(d)] /\ wire[d] = <<>>
    /\ ThreadGoes(d, "recv", "shut")
    /\ UNCHANGED <<procVars, buf, off, shutdownDone, finSent, dataVars,
                   peerVars>>

\* recv() returns SOCKET_ERROR; unread data may or may not be lost.
RecvError(d) ==
    /\ rst[Src(d)]
    /\ ThreadGoes(d, "recv", "shut")
    /\ UNCHANGED <<procVars, buf, off, shutdownDone, finSent, dataVars,
                   peerVars>>

\* send() accepts what fits; the loop goes on until the buffer is sent.
SendBytes(d) ==
    /\ alive /\ th[d] = "send"
    /\ ~rst[Dst(d)] /\ ~finSent[Dst(d)]
    /\ \E n \in 1..Smaller(Len(buf[d]) - off[d],
                           Window - (Len(delivered[d]) - peerRead[d])) :
          /\ delivered' = [delivered EXCEPT ![d] =
                             @ \o SubSeq(buf[d], off[d] + 1, off[d] + n)]
          /\ off' = [off EXCEPT ![d] = @ + n]
          /\ th' = [th EXCEPT ![d] = IF off[d] + n < Len(buf[d])
                                     THEN "send" ELSE "recv"]
    /\ UNCHANGED <<procVars, buf, shutdownDone, finSent, wire, written,
                   peerVars>>

\* Variant: a send() that accepts less than the whole buffer is an error.
SendErrorOnShort(d) ==
    /\ ThreadGoes(d, "send", "shut")
    /\ UNCHANGED <<procVars, buf, off, shutdownDone, finSent, dataVars,
                   peerVars>>

\* Variant: SOCKET_ERROR, -1, is added to sentTotal before it is looked at.
SendErrorCounted(d) ==
    /\ rst[Dst(d)] \/ finSent[Dst(d)]
    /\ ThreadGoes(d, "send", "shut")
    /\ off' = [off EXCEPT ![d] = @ - 1]
    /\ UNCHANGED <<procVars, buf, shutdownDone, finSent, dataVars, peerVars>>

\* send() fails: the connection is gone, or its send side is shut down.
SendError(d) ==
    /\ rst[Dst(d)] \/ finSent[Dst(d)]
    /\ ThreadGoes(d, "send", "shut")
    /\ UNCHANGED <<procVars, buf, off, shutdownDone, finSent, dataVars,
                   peerVars>>

\* Variant: the source is shut down in place of the destination.
ShutdownSwapped(d) ==
    /\ ThreadGoes(d, "shut", "leave")
    /\ shutdownDone' = [shutdownDone EXCEPT ![Src(d)] = TRUE]
    /\ finSent' = [finSent EXCEPT ![Src(d)] = ~rst[Src(d)]]
    /\ UNCHANGED <<procVars, buf, off, dataVars, peerVars>>

\* Variant: the end of a stream is not passed on.
ShutdownMissing(d) ==
    /\ ThreadGoes(d, "shut", "leave")
    /\ UNCHANGED <<procVars, buf, off, shutdownDone, finSent, dataVars,
                   peerVars>>

\* The compare_exchange on the flag of dst, and shutdown(dst, SD_SEND), whose
\* failure is only logged.
Shutdown(d) ==
    /\ ThreadGoes(d, "shut", "leave")
    /\ \/ /\ ~shutdownDone[Dst(d)]
          /\ shutdownDone' = [shutdownDone EXCEPT ![Dst(d)] = TRUE]
          /\ finSent' = [finSent EXCEPT ![Dst(d)] = ~rst[Dst(d)]]
       \/ /\ shutdownDone[Dst(d)]
          /\ UNCHANGED <<shutdownDone, finSent>>
    /\ UNCHANGED <<procVars, buf, off, dataVars, peerVars>>

\* Variant: the thread that ends first closes the sockets.
LeaveAndClose(d) ==
    /\ ThreadGoes(d, "leave", "exited")
    /\ owners' = owners \ {d}
    /\ sock' = [s \in Sides |-> "closed"]
    /\ UNCHANGED <<alive, handler, buf, off, shutdownDone, finSent, dataVars,
                   peerVars>>

\* forward() returns and its copies of the shared_ptr are destroyed.
Leave(d) ==
    /\ ThreadGoes(d, "leave", "exited")
    /\ DropOwner(d)
    /\ UNCHANGED <<alive, handler, buf, off, shutdownDone, finSent, dataVars,
                   peerVars>>

Forward(d) ==
    \/ Enter(d)
    \/ RecvBytes(d) \/ RecvEof(d) \/ RecvError(d)
    \/ SendBytes(d) \/ SendError(d)
    \/ Shutdown(d)
    \/ Leave(d)

\* An exception leaves a thread function, of this connection (the buffer of
\* forward() cannot be allocated) or of another: std::terminate ends the
\* process and the system closes its sockets.
Terminate ==
    /\ "terminate" \in Faults
    /\ alive
    /\ alive' = FALSE
    /\ sock' = [s \in Sides |-> "closed"]
    /\ UNCHANGED <<handler, owners, fwdVars, dataVars, peerVars>>

-----------------------------------------------------------------------------
(* The peers and the network between them and the proxy.                   *)

Connected(s) == sock[s] = "open" /\ ~rst[s]

PeerWrites(d) ==
    /\ Connected(Src(d)) /\ ~fin[Src(d)]
    /\ written[d] < MaxBytes
    /\ written' = [written EXCEPT ![d] = @ + 1]
    /\ wire' = [wire EXCEPT ![d] = Append(@, written[d] + 1)]
    /\ UNCHANGED <<procVars, fwdVars, delivered, peerVars>>

PeerReads(d) ==
    /\ ~rst[Dst(d)]
    /\ peerRead[d] < Len(delivered[d])
    /\ peerRead' = [peerRead EXCEPT ![d] = @ + 1]
    /\ UNCHANGED <<procVars, fwdVars, dataVars, fin, rst>>

PeerFinishes(s) ==
    /\ Connected(s) /\ ~fin[s]
    /\ fin' = [fin EXCEPT ![s] = TRUE]
    /\ UNCHANGED <<procVars, fwdVars, dataVars, peerRead, rst>>

\* A reset by the peer, or a network failure the local stack has noticed.
PeerFails(s) ==
    /\ Connected(s)
    /\ rst' = [rst EXCEPT ![s] = TRUE]
    /\ UNCHANGED <<procVars, fwdVars, dataVars, peerRead, fin>>

Closed == \A s \in Sides : sock[s] = "closed"

\* Nothing is left to do: the process is gone, or this connection is.
Finished ==
    /\ Closed
    /\ alive => handler = "gone" /\ owners = {}
    /\ UNCHANGED vars

Next ==
    \/ MainReleases
    \/ Handler
    \/ \E d \in Dirs : Forward(d) \/ PeerWrites(d) \/ PeerReads(d)
    \/ \E s \in Sides : PeerFinishes(s) \/ PeerFails(s)
    \/ Terminate
    \/ Finished

Spec == Init /\ [][Next]_vars

\* A peer that has seen the end of the stream sent to it finishes its own.
PeerAnswersEof(s) == finSent[s] /\ PeerFinishes(s)

(* Fairness: the threads of the proxy run, the target reads what it        *)
(* receives, and a peer answers an end of stream.  Nobody has to write,    *)
(* finish or fail, and the client has no obligation to read.               *)
Fairness ==
    /\ WF_vars(MainReleases) /\ WF_vars(Handler)
    /\ \A d \in Dirs : WF_vars(Forward(d))
    /\ WF_vars(PeerReads("c2t"))
    /\ \A s \in Sides : WF_vars(PeerAnswersEof(s))

FairSpec == Spec /\ Fairness

\* What a client that is not deaf does; a premise of what depends on it.
ClientReads == WF_vars(PeerReads("t2c"))

-----------------------------------------------------------------------------
(* Properties.                                                             *)

TypeOK ==
    /\ alive \in BOOLEAN
    /\ handler \in HandlerStates
    /\ owners \subseteq ({"main", "handler"} \cup Dirs)
    /\ sock \in [Sides -> {"open", "closed"}]
    /\ th \in [Dirs -> ThreadStates]
    /\ buf \in [Dirs -> Seq(Nat)]
    /\ off \in [Dirs -> Nat]
    /\ shutdownDone \in [Sides -> BOOLEAN]
    /\ finSent \in [Sides -> BOOLEAN]
    /\ wire \in [Dirs -> Seq(Nat)]
    /\ written \in [Dirs -> Nat]
    /\ delivered \in [Dirs -> Seq(Nat)]
    /\ peerRead \in [Dirs -> Nat]
    /\ fin \in [Sides -> BOOLEAN]
    /\ rst \in [Sides -> BOOLEAN]

\* The part of the buffer that forward() has not sent.
Unsent(d) == SubSeq(buf[d], off[d] + 1, Len(buf[d]))

(* What a peer wrote is what was delivered, followed by what the thread    *)
(* still holds, followed by what it has not read: whatever sizes recv()    *)
(* and send() return, the loops of forward() neither lose, repeat nor      *)
(* reorder a byte.                                                         *)
StreamIntact ==
    \A d \in Dirs :
        delivered[d] \o Unsent(d) \o wire[d] = [i \in 1..written[d] |-> i]

(* A peer is told that the stream is over only when the other peer has     *)
(* finished and every byte it wrote has been sent on; the one exception is *)
(* a source that failed, whose error forward() turns into the same         *)
(* half-close.                                                             *)
EofIsHonest ==
    \A d \in Dirs :
        finSent[Dst(d)] /\ ~rst[Src(d)] =>
            fin[Src(d)] /\ Len(delivered[d]) = written[d]

(* A forward() thread stops only for a reason of its own: its source has   *)
(* finished and is drained, or one of the two connections has failed.  The *)
(* end of one direction alone never stops the other.                       *)
EndsForCause ==
    \A d \in Dirs :
        th[d] \in {"shut", "leave", "exited"} =>
            \/ fin[Src(d)] /\ Len(delivered[d]) = written[d]
            \/ rst[Src(d)]
            \/ rst[Dst(d)]

(* While the process lives, a socket of the connection is closed only when *)
(* the handler is gone and no forward() thread can touch it any more, also *)
(* when a thread could not be started: a SOCKET value may be reused for    *)
(* another connection once it is closed.                                   *)
NoUseAfterClose ==
    alive /\ (\E s \in Sides : sock[s] = "closed") =>
        handler = "gone" /\ \A d \in Dirs : th[d] \in {"none", "exited"}

(* Once either peer has finished or failed, and if the client reads what   *)
(* it is sent, the connection is eventually torn down.  The one state that *)
(* has to be excepted: t2 could not be started and unwinding waits for t1, *)
(* so that nobody listens to the target until the client ends.             *)
EndedPeerLeadsToClose ==
    ClientReads =>
        \A s \in Sides :
            fin[s] \/ rst[s] ~> \/ Closed
                                \/ s = "target" /\ handler = "unwind"

(* Each direction is seen as an abstract stream.                           *)
ClientStream ==
    INSTANCE ByteStream WITH
        written  <- written["c2t"],
        received <- delivered["c2t"],
        finished <- fin["client"],
        broken   <- rst["client"] \/ rst["target"],
        ended    <- finSent["target"]

TargetStream ==
    INSTANCE ByteStream WITH
        written  <- written["t2c"],
        received <- delivered["t2c"],
        finished <- fin["target"],
        broken   <- rst["client"] \/ rst["target"],
        ended    <- finSent["client"]

(* forward() implements, for each direction, an ordered stream whose end   *)
(* is not announced early, whatever fails.                                 *)
ImplementsStreams == ClientStream!Spec /\ TargetStream!Spec

\* Direction d is no longer served, or never was: a connection has failed,
\* the process is gone, or the thread of d could not be started.
Unserved(d) ==
    \/ \E s \in Sides : rst[s]
    \/ ~alive
    \/ th[d] = "none" /\ handler \in {"unwind", "release", "gone"}

\* Each direction as a stream that may break off for these reasons.
LiveClientStream ==
    INSTANCE ByteStream WITH
        written  <- written["c2t"],
        received <- delivered["c2t"],
        finished <- fin["client"],
        broken   <- Unserved("c2t"),
        ended    <- finSent["target"]

LiveTargetStream ==
    INSTANCE ByteStream WITH
        written  <- written["t2c"],
        received <- delivered["t2c"],
        finished <- fin["target"],
        broken   <- Unserved("t2c"),
        ended    <- finSent["client"]

(* The streams also make progress, except for what excuses them: what is   *)
(* written arrives and the end of the stream is passed on, whether or not  *)
(* the other direction has a thread.  A client that reads nothing holds up *)
(* only its own answers: the directions have threads of their own, so that *)
(* a send() blocked in one does not stop the other.                        *)
ImplementsLiveStreams ==
    /\ LiveClientStream!Progress
    /\ ClientReads => LiveTargetStream!Progress

=============================================================================
