---------------------------- MODULE RelayProofs ----------------------------
(***************************************************************************)
(* Proofs about Relay, for every buffer size, window and number of bytes   *)
(* and for every set of runtime failures.                                  *)
(***************************************************************************)
EXTENDS Relay, SequenceTheorems, TLAPS


-----------------------------------------------------------------------------
(* Sequences of bytes.                                                     *)

\* A slice inside a sequence keeps the bytes of the sequence.
LEMMA Slice ==
  ASSUME NEW s \in Seq(Nat), NEW m \in Nat \ {0}, NEW n \in Nat,
         m <= n + 1, n <= Len(s)
  PROVE  /\ SubSeq(s, m, n) \in Seq(Nat)
         /\ Len(SubSeq(s, m, n)) = n - m + 1
         /\ \A i \in 1..(n - m + 1) : SubSeq(s, m, n)[i] = s[m + i - 1]
<1>1. \A i \in m..n : s[i] \in Nat
  BY LenProperties
<1> QED
  BY <1>1, SubSeqProperties

LEMMA UpdateKeepsType ==
  ASSUME NEW D, NEW S, NEW f \in [D -> S], NEW d \in D, NEW x \in S
  PROVE  [f EXCEPT ![d] = x] \in [D -> S]
OBVIOUS

LEMMA SmallerBounds ==
  ASSUME NEW a \in Int, NEW b \in Int, NEW n \in 1..Smaller(a, b)
  PROVE  n \in Nat /\ 1 <= n /\ n <= a /\ n <= b
BY DEF Smaller

-----------------------------------------------------------------------------
(* Type correctness.                                                       *)

\* Init and every action keep the variables in their types.
THEOREM TypeCorrect == Spec => []TypeOK
<1>1. Init => TypeOK
  BY RelayAssumption DEF Init, TypeOK, HandlerStates, ThreadStates, Sides, Dirs
<1>2. TypeOK /\ [Next]_vars => TypeOK'
  <2> SUFFICES ASSUME TypeOK, [Next]_vars PROVE TypeOK'
    OBVIOUS
  <2> USE DEF TypeOK, HandlerStates, ThreadStates, Dirs, Sides,
              fwdVars, dataVars, peerVars, procVars
  <2>1. CASE MainReleases
    BY <2>1 DEF MainReleases, DropOwner
  <2>2. CASE Handler
    <3>1. ASSUME NEW d \in Dirs, NEW from, NEW to \in HandlerStates,
                 StartThread(d, from, to)
          PROVE  TypeOK'
      BY <3>1 DEF StartThread, HandlerGoes
    <3>2. ASSUME NEW fault, NEW from, NEW to \in HandlerStates,
                 ThreadFails(fault, from, to)
          PROVE  TypeOK'
      BY <3>2 DEF ThreadFails, HandlerGoes
    <3>3. ASSUME NEW d, NEW from, NEW to \in HandlerStates,
                 Join(d, from, to)
          PROVE  TypeOK'
      BY <3>3 DEF Join, HandlerGoes
    <3>4. CASE HandlerReleases
      BY <3>4 DEF HandlerReleases, HandlerGoes, DropOwner
    <3> QED
      BY <2>2, <3>1, <3>2, <3>3, <3>4 DEF Handler
  <2>3. ASSUME NEW d \in Dirs, Forward(d) PROVE TypeOK'
    <3>1. CASE Enter(d)
      BY <3>1 DEF Enter, ThreadGoes
    <3>2. CASE RecvBytes(d)
      <4>1. PICK n \in 1..Smaller(BufSize, Len(wire[d])) :
               /\ buf' = [buf EXCEPT ![d] = SubSeq(wire[d], 1, n)]
               /\ wire' = [wire EXCEPT ![d] = SubSeq(@, n + 1, Len(@))]
        BY <3>2 DEF RecvBytes
      <4>2. /\ n \in Nat /\ 1 <= n /\ n <= Len(wire[d])
            /\ wire[d] \in Seq(Nat) /\ Len(wire[d]) \in Nat
        BY <4>1, RelayAssumption DEF Smaller
      <4>3. SubSeq(wire[d], 1, n) \in Seq(Nat)
        BY ONLY <4>2, Slice
      <4>4. SubSeq(wire[d], n + 1, Len(wire[d])) \in Seq(Nat)
        BY ONLY <4>2, Slice
      <4> QED
        BY <3>2, <4>1, <4>3, <4>4 DEF RecvBytes, ThreadGoes
    <3>3. CASE RecvEof(d)
      BY <3>3 DEF RecvEof, ThreadGoes
    <3>4. CASE RecvError(d)
      BY <3>4 DEF RecvError, ThreadGoes
    <3>5. CASE SendBytes(d)
      <4>1. PICK n \in 1..Smaller(Len(buf[d]) - off[d],
                                Window - (Len(delivered[d]) - peerRead[d])) :
               /\ delivered' = [delivered EXCEPT ![d] =
                                @ \o SubSeq(buf[d], off[d] + 1, off[d] + n)]
               /\ off' = [off EXCEPT ![d] = @ + n]
               /\ th' = [th EXCEPT ![d] = IF off[d] + n < Len(buf[d])
                                          THEN "send" ELSE "recv"]
        BY <3>5 DEF SendBytes
      <4>2. /\ n \in Nat /\ 1 <= n /\ off[d] + n <= Len(buf[d])
            /\ buf[d] \in Seq(Nat) /\ Len(buf[d]) \in Nat
            /\ off[d] \in Nat /\ delivered[d] \in Seq(Nat)
        <5>1. /\ buf[d] \in Seq(Nat) /\ Len(buf[d]) \in Nat
              /\ delivered[d] \in Seq(Nat) /\ Len(delivered[d]) \in Nat
              /\ off[d] \in Nat /\ peerRead[d] \in Nat /\ Window \in Nat
          BY RelayAssumption
        <5> QED
          BY ONLY <4>1, <5>1, SmallerBounds
      <4>3. SubSeq(buf[d], off[d] + 1, off[d] + n) \in Seq(Nat)
        <5>1. /\ off[d] + 1 \in Nat \ {0} /\ off[d] + n \in Nat
              /\ off[d] + 1 <= off[d] + n + 1
          BY ONLY <4>2
        <5> QED
          BY ONLY <4>2, <5>1, Slice
      <4>4. delivered[d] \o SubSeq(buf[d], off[d] + 1, off[d] + n) \in Seq(Nat)
        BY ONLY <4>2, <4>3, ConcatProperties
      <4>5. UNCHANGED <<procVars, buf, shutdownDone, finSent, wire, written,
                        peerVars>>
        BY <3>5 DEF SendBytes
      <4>6. /\ delivered' \in [Dirs -> Seq(Nat)]
            /\ off' \in [Dirs -> Nat]
        <5>1. off[d] + n \in Nat
          BY ONLY <4>2
        <5>2. delivered \in [Dirs -> Seq(Nat)] /\ off \in [Dirs -> Nat]
          OBVIOUS
        <5> QED
          BY ONLY <2>3, <4>1, <4>4, <5>1, <5>2, UpdateKeepsType, Zenon
      <4>7. th' \in [Dirs -> ThreadStates]
        BY <4>1
      <4> QED
        BY <4>5, <4>6, <4>7
    <3>6. CASE SendError(d)
      BY <3>6 DEF SendError, ThreadGoes
    <3>7. CASE Shutdown(d)
      <4>1. Dst(d) \in Sides
        BY DEF Dst
      <4>2. shutdownDone' \in [Sides -> BOOLEAN]
        BY <3>7, <4>1 DEF Shutdown
      <4>3. finSent' \in [Sides -> BOOLEAN]
        <5>1. (~rst[Dst(d)]) \in BOOLEAN
          BY Zenon
        <5> QED
          BY <3>7, <4>1, <5>1, Zenon DEF Shutdown
      <4> QED
        BY <3>7, <4>2, <4>3 DEF Shutdown, ThreadGoes
    <3>8. CASE Leave(d)
      BY <3>8 DEF Leave, ThreadGoes, DropOwner
    <3> QED
      BY <2>3, <3>1, <3>2, <3>3, <3>4, <3>5, <3>6, <3>7, <3>8 DEF Forward
  <2>4. ASSUME NEW d \in Dirs, PeerWrites(d) \/ PeerReads(d) PROVE TypeOK'
    <3>1. CASE PeerWrites(d)
      <4>1. written[d] + 1 \in Nat /\ wire[d] \in Seq(Nat)
        OBVIOUS
      <4>2. Append(wire[d], written[d] + 1) \in Seq(Nat)
        BY ONLY <4>1, AppendProperties
      <4> QED
        BY <3>1, <4>1, <4>2 DEF PeerWrites
    <3>2. CASE PeerReads(d)
      BY <3>2 DEF PeerReads
    <3> QED
      BY <2>4, <3>1, <3>2
  <2>5. ASSUME NEW s \in Sides, PeerFinishes(s) \/ PeerFails(s) PROVE TypeOK'
    BY <2>5 DEF PeerFinishes, PeerFails
  <2>6. CASE Terminate
    BY <2>6 DEF Terminate
  <2>7. CASE Finished \/ UNCHANGED vars
    BY <2>7 DEF Finished, vars
  <2> QED
    BY <2>1, <2>2, <2>3, <2>4, <2>5, <2>6, <2>7 DEF Next
<1> QED
  BY <1>1, <1>2, PTL DEF Spec

-----------------------------------------------------------------------------
(* Who owns the Connection.                                                *)

(* The strengthening of NoUseAfterClose: every thread that has not ended   *)
(* owns the Connection, each place of the handler knows which threads can  *)
(* exist, and sockets are closed only once nobody owns them.               *)
Ownership ==
    /\ \A d \in Dirs : th[d] \notin {"none", "exited"} => d \in owners
    /\ handler /= "gone" => "handler" \in owners
    /\ handler = "makeT1" => \A d \in Dirs : th[d] = "none"
    /\ handler \in {"makeT2", "unwind"} => th["t2c"] = "none"
    /\ handler = "join2" => th["c2t"] = "exited"
    /\ handler \in {"release", "gone"} =>
          \A d \in Dirs : th[d] \in {"none", "exited"}
    /\ alive /\ (\E s \in Sides : sock[s] = "closed") => owners = {}

(* A step of forward() short of its return changes only where its own      *)
(* thread is.                                                              *)
LEMMA ForwardMoves ==
  ASSUME TypeOK, NEW d \in Dirs, Forward(d), ~Leave(d)
  PROVE  /\ UNCHANGED procVars
         /\ alive
         /\ th[d] \notin {"none", "exited"}
         /\ \E to \in ThreadStates \ {"none", "exited"} :
               th' = [th EXCEPT ![d] = to]
<1> USE DEF ThreadStates, ThreadGoes, procVars
<1>1. CASE Enter(d)
  BY <1>1 DEF Enter
<1>2. CASE RecvBytes(d)
  BY <1>2 DEF RecvBytes
<1>3. CASE RecvEof(d) \/ RecvError(d)
  BY <1>3 DEF RecvEof, RecvError
<1>4. CASE SendBytes(d)
  <2>1. \E b \in BOOLEAN : th' = [th EXCEPT ![d] = IF b THEN "send" ELSE "recv"]
    BY <1>4 DEF SendBytes
  <2> QED
    BY <1>4, <2>1 DEF SendBytes
<1>5. CASE SendError(d)
  BY <1>5 DEF SendError
<1>6. CASE Shutdown(d)
  BY <1>6 DEF Shutdown
<1> QED
  BY <1>1, <1>2, <1>3, <1>4, <1>5, <1>6 DEF Forward

THEOREM OwnershipHolds == Spec => []Ownership
<1>1. Init => Ownership
  BY DEF Init, Ownership, Sides, Dirs
<1>2. TypeOK /\ Ownership /\ [Next]_vars => Ownership'
  <2> SUFFICES ASSUME TypeOK, Ownership, [Next]_vars PROVE Ownership'
    OBVIOUS
  <2> USE DEF fwdVars, procVars
  <2>0. /\ owners \subseteq ({"main", "handler"} \cup Dirs)
        /\ th \in [Dirs -> ThreadStates]
        /\ sock \in [Sides -> {"open", "closed"}]
    BY DEF TypeOK
  <2>1. CASE MainReleases
    BY <2>0, <2>1 DEF MainReleases, DropOwner, Ownership, Sides, Dirs
  <2>2. CASE Handler
    <3>1. CASE StartThread("c2t", "makeT1", "makeT2")
      BY <3>1, <2>0 DEF StartThread, HandlerGoes, Ownership, Sides, Dirs
    <3>2. CASE ThreadFails("t1", "makeT1", "release")
      BY <3>2, <2>0 DEF ThreadFails, HandlerGoes, Ownership
    <3>3. CASE StartThread("t2c", "makeT2", "join1")
      BY <3>3, <2>0 DEF StartThread, HandlerGoes, Ownership, Sides, Dirs
    <3>4. CASE ThreadFails("t2", "makeT2", "unwind")
      BY <3>4, <2>0 DEF ThreadFails, HandlerGoes, Ownership
    <3>5. CASE Join("c2t", "join1", "join2")
      BY <3>5, <2>0 DEF Join, HandlerGoes, Ownership
    <3>6. CASE Join("t2c", "join2", "release")
      BY <3>6, <2>0 DEF Join, HandlerGoes, Ownership, Dirs
    <3>7. CASE Join("c2t", "unwind", "release")
      BY <3>7, <2>0 DEF Join, HandlerGoes, Ownership, Dirs
    <3>8. CASE HandlerReleases
      BY <3>8, <2>0 DEF HandlerReleases, HandlerGoes, DropOwner, Ownership,
                        Sides, Dirs
    <3> QED
      BY <2>2, <3>1, <3>2, <3>3, <3>4, <3>5, <3>6, <3>7, <3>8 DEF Handler
  <2>3. ASSUME NEW d \in Dirs, Forward(d) PROVE Ownership'
    <3>1. CASE Leave(d)
      BY <3>1, <2>0 DEF Leave, ThreadGoes, DropOwner, Ownership, Sides, Dirs
    <3>2. CASE ~Leave(d)
      BY <3>2, <2>0, <2>3, ForwardMoves DEF Ownership, Dirs
    <3> QED
      BY <3>1, <3>2
  <2>4. ASSUME NEW d \in Dirs, PeerWrites(d) \/ PeerReads(d)
        PROVE  Ownership'
    BY <2>4 DEF PeerWrites, PeerReads, Ownership
  <2>5. ASSUME NEW s \in Sides, PeerFinishes(s) \/ PeerFails(s)
        PROVE  Ownership'
    BY <2>5 DEF PeerFinishes, PeerFails, Ownership
  <2>6. CASE Terminate
    BY <2>6 DEF Terminate, Ownership
  <2>7. CASE Finished \/ UNCHANGED vars
    BY <2>7 DEF Finished, vars, Ownership
  <2> QED
    BY <2>1, <2>2, <2>3, <2>4, <2>5, <2>6, <2>7 DEF Next
<1> QED
  BY <1>1, <1>2, TypeCorrect, PTL DEF Spec

(* No socket of the connection is closed while a thread of a living        *)
(* process can still use it.                                               *)
THEOREM NoUseAfterCloseHolds == Spec => []NoUseAfterClose
<1>1. TypeOK /\ Ownership => NoUseAfterClose
  BY DEF TypeOK, Ownership, NoUseAfterClose, ThreadStates
<1> QED
  BY <1>1, TypeCorrect, OwnershipHolds, PTL

-----------------------------------------------------------------------------
(* Where the bytes are.                                                    *)

(* sentTotal stays inside the buffer, and the buffer is used up whenever   *)
(* the thread waits in recv().                                             *)
BufferUse ==
    \A d \in Dirs :
        /\ off[d] <= Len(buf[d])
        /\ th[d] = "send" => off[d] < Len(buf[d])
        /\ th[d] \in {"none", "entry", "recv"} => off[d] = Len(buf[d])

(* StreamIntact position by position: delivered, held and unread bytes     *)
(* follow each other without a gap.                                        *)
InPlace(sent, held, used, unread, total) ==
    /\ Len(sent) + (Len(held) - used) + Len(unread) = total
    /\ \A i \in 1..Len(sent) : sent[i] = i
    /\ \A i \in (used + 1)..Len(held) : held[i] = Len(sent) + (i - used)
    /\ \A i \in 1..Len(unread) :
          unread[i] = Len(sent) + (Len(held) - used) + i

Positions ==
    \A d \in Dirs :
        InPlace(delivered[d], buf[d], off[d], wire[d], written[d])

(* What recv() and send() do to the bytes, free of EXCEPT.                 *)
LEMMA RecvMoves ==
  ASSUME TypeOK, NEW d \in Dirs, RecvBytes(d)
  PROVE  \E n \in Nat \ {0} :
            /\ n <= Len(wire[d])
            /\ buf' = [buf EXCEPT ![d] = SubSeq(wire[d], 1, n)]
            /\ wire' = [wire EXCEPT ![d] = SubSeq(wire[d], n + 1, Len(wire[d]))]
            /\ off' = [off EXCEPT ![d] = 0]
<1>1. PICK n \in 1..Smaller(BufSize, Len(wire[d])) :
         /\ buf' = [buf EXCEPT ![d] = SubSeq(wire[d], 1, n)]
         /\ wire' = [wire EXCEPT ![d] = SubSeq(@, n + 1, Len(@))]
  BY DEF RecvBytes
<1>2. wire[d] \in Seq(Nat) /\ BufSize \in Int /\ Len(wire[d]) \in Int
  BY RelayAssumption DEF TypeOK
<1>3. n \in Nat \ {0} /\ n <= Len(wire[d])
  BY ONLY <1>1, <1>2, SmallerBounds
<1>4. off' = [off EXCEPT ![d] = 0]
  BY DEF RecvBytes
<1>5. wire' = [wire EXCEPT ![d] = SubSeq(wire[d], n + 1, Len(wire[d]))]
  BY <1>1, Zenon
<1> QED
  BY <1>1, <1>3, <1>4, <1>5

LEMMA SendMoves ==
  ASSUME TypeOK, NEW d \in Dirs, SendBytes(d)
  PROVE  \E n \in Nat \ {0} :
            /\ off[d] + n <= Len(buf[d])
            /\ delivered' = [delivered EXCEPT ![d] =
                 delivered[d] \o SubSeq(buf[d], off[d] + 1, off[d] + n)]
            /\ off' = [off EXCEPT ![d] = off[d] + n]
            /\ th' = [th EXCEPT ![d] = IF off[d] + n < Len(buf[d])
                                       THEN "send" ELSE "recv"]
<1>1. PICK n \in 1..Smaller(Len(buf[d]) - off[d],
                          Window - (Len(delivered[d]) - peerRead[d])) :
         /\ delivered' = [delivered EXCEPT ![d] =
                            @ \o SubSeq(buf[d], off[d] + 1, off[d] + n)]
         /\ off' = [off EXCEPT ![d] = @ + n]
         /\ th' = [th EXCEPT ![d] = IF off[d] + n < Len(buf[d])
                                    THEN "send" ELSE "recv"]
  BY DEF SendBytes
<1>2. /\ Len(buf[d]) \in Nat /\ Len(delivered[d]) \in Nat
      /\ off[d] \in Nat /\ peerRead[d] \in Nat /\ Window \in Nat
  BY RelayAssumption DEF TypeOK
<1>3. n \in Nat \ {0} /\ off[d] + n <= Len(buf[d])
  <2>1. /\ Len(buf[d]) - off[d] \in Int
        /\ Window - (Len(delivered[d]) - peerRead[d]) \in Int
    BY ONLY <1>2
  <2>2. n \in Nat /\ 1 <= n /\ n <= Len(buf[d]) - off[d]
    BY ONLY <1>1, <2>1, SmallerBounds
  <2> QED
    BY ONLY <1>2, <2>2
<1>4. /\ delivered' = [delivered EXCEPT ![d] =
             delivered[d] \o SubSeq(buf[d], off[d] + 1, off[d] + n)]
      /\ off' = [off EXCEPT ![d] = off[d] + n]
  BY <1>1, Zenon
<1> QED
  BY <1>1, <1>3, <1>4, Zenon

(* Every other step leaves what was received and sent alone, and no thread *)
(* starts to wait in recv() with bytes still in its buffer.                *)
LEMMA OtherSteps ==
  ASSUME TypeOK, Ownership, [Next]_vars,
         \A e \in Dirs : ~RecvBytes(e) /\ ~SendBytes(e)
  PROVE  /\ UNCHANGED <<buf, off, delivered>>
         /\ \A e \in Dirs :
               /\ th'[e] = "send" => th[e] = "send"
               /\ th'[e] \in {"none", "entry", "recv"} =>
                     th[e] \in {"none", "entry", "recv"}
         /\ \/ UNCHANGED <<wire, written>>
            \/ \E e \in Dirs : PeerWrites(e)
<1> DEFINE Waiting == {"none", "entry", "recv"}
           Goal == /\ UNCHANGED <<buf, off, delivered>>
                   /\ \A e \in Dirs : /\ th'[e] = "send" => th[e] = "send"
                                      /\ th'[e] \in Waiting => th[e] \in Waiting
                   /\ \/ UNCHANGED <<wire, written>>
                      \/ \E e \in Dirs : PeerWrites(e)
<1> USE DEF fwdVars, dataVars, peerVars, procVars
<1>0. th \in [Dirs -> ThreadStates]
  BY DEF TypeOK
<1>1. CASE MainReleases
  BY <1>1 DEF MainReleases
<1>2. CASE Handler
  <2>1. ASSUME NEW d \in Dirs, NEW to, \/ StartThread(d, "makeT1", to)
                                       \/ d = "t2c" /\ StartThread(d, "makeT2", to)
        PROVE  Goal
    BY <1>0, <2>1 DEF StartThread, HandlerGoes, Ownership
  <2> QED
    BY <1>2, <2>1 DEF Handler, ThreadFails, Join, HandlerReleases, Dirs
<1>3. ASSUME NEW e \in Dirs, Forward(e) PROVE Goal
  BY <1>0, <1>3 DEF Forward, ThreadGoes, Enter, RecvEof, RecvError, SendError,
                    Shutdown, Leave
<1>4. ASSUME NEW e \in Dirs, PeerWrites(e) \/ PeerReads(e) PROVE Goal
  BY <1>4 DEF PeerWrites, PeerReads
<1>5. ASSUME NEW s \in Sides, PeerFinishes(s) \/ PeerFails(s) PROVE Goal
  BY <1>5 DEF PeerFinishes, PeerFails
<1>6. CASE Terminate \/ Finished \/ UNCHANGED vars
  BY <1>6 DEF Terminate, Finished, vars
<1> QED
  BY <1>1, <1>2, <1>3, <1>4, <1>5, <1>6 DEF Next

THEOREM BufferUseHolds == Spec => []BufferUse
<1>1. Init => BufferUse
  BY DEF Init, BufferUse
<1>2. TypeOK /\ Ownership /\ BufferUse /\ [Next]_vars => BufferUse'
  <2> SUFFICES ASSUME TypeOK, Ownership, BufferUse, [Next]_vars
               PROVE  BufferUse'
    OBVIOUS
  <2>0. /\ off \in [Dirs -> Nat] /\ buf \in [Dirs -> Seq(Nat)]
        /\ wire \in [Dirs -> Seq(Nat)] /\ th \in [Dirs -> ThreadStates]
    BY DEF TypeOK
  <2>1. ASSUME NEW d \in Dirs, RecvBytes(d) PROVE BufferUse'
    <3>1. PICK n \in Nat \ {0} :
             /\ n <= Len(wire[d])
             /\ buf' = [buf EXCEPT ![d] = SubSeq(wire[d], 1, n)]
             /\ off' = [off EXCEPT ![d] = 0]
      BY <2>1, RecvMoves
    <3>2. Len(SubSeq(wire[d], 1, n)) = n
      BY <2>0, <3>1, Slice
    <3>3. th' = [th EXCEPT ![d] = "send"]
      BY <2>1 DEF RecvBytes, ThreadGoes
    <3>4. buf'[d] = SubSeq(wire[d], 1, n) /\ off'[d] = 0 /\ th'[d] = "send"
      BY <2>0, <3>1, <3>3, Zenon
    <3>5. \A e \in Dirs \ {d} :
             buf'[e] = buf[e] /\ off'[e] = off[e] /\ th'[e] = th[e]
      BY ONLY <2>0, <3>1, <3>3, Zenon
    <3> QED
      BY ONLY BufferUse, <3>1, <3>2, <3>4, <3>5 DEF BufferUse
  <2>2. ASSUME NEW d \in Dirs, SendBytes(d) PROVE BufferUse'
    <3>1. PICK n \in Nat \ {0} :
             /\ off[d] + n <= Len(buf[d])
             /\ off' = [off EXCEPT ![d] = off[d] + n]
             /\ th' = [th EXCEPT ![d] = IF off[d] + n < Len(buf[d])
                                        THEN "send" ELSE "recv"]
      BY <2>2, SendMoves
    <3>2. buf' = buf
      BY <2>2 DEF SendBytes
    <3> QED
      BY <2>0, <3>1, <3>2 DEF BufferUse
  <2>3. CASE \A d \in Dirs : ~RecvBytes(d) /\ ~SendBytes(d)
    BY <2>3, OtherSteps DEF BufferUse
  <2> QED
    BY <2>1, <2>2, <2>3
<1> QED
  BY <1>1, <1>2, TypeCorrect, OwnershipHolds, PTL DEF Spec

LEMMA RecvInPlace ==
  ASSUME NEW sent, NEW held, NEW unread,
         sent \in Seq(Nat), held \in Seq(Nat), unread \in Seq(Nat),
         NEW total \in Nat, NEW n \in Nat \ {0}, n <= Len(unread),
         InPlace(sent, held, Len(held), unread, total)
  PROVE  InPlace(sent, SubSeq(unread, 1, n), 0,
                 SubSeq(unread, n + 1, Len(unread)), total)
<1> DEFINE got  == SubSeq(unread, 1, n)
           rest == SubSeq(unread, n + 1, Len(unread))
<1>1. Len(sent) \in Nat /\ Len(held) \in Nat /\ Len(unread) \in Nat
  OBVIOUS
<1>2. /\ Len(got) = n
      /\ \A i \in 1..n : got[i] = unread[i]
  <2>1. /\ Len(got) = n - 1 + 1
        /\ \A i \in 1..(n - 1 + 1) : got[i] = unread[1 + i - 1]
    BY ONLY <1>1, Slice, n \in Nat \ {0}, n <= Len(unread), unread \in Seq(Nat)
  <2> QED
    BY ONLY <2>1, n \in Nat \ {0}
<1>3. /\ Len(rest) = Len(unread) - n
      /\ \A i \in 1..(Len(unread) - n) : rest[i] = unread[n + i]
  <2>1. /\ Len(rest) = Len(unread) - (n + 1) + 1
        /\ \A i \in 1..(Len(unread) - (n + 1) + 1) :
              rest[i] = unread[n + 1 + i - 1]
    BY ONLY <1>1, Slice, n \in Nat \ {0}, n <= Len(unread), unread \in Seq(Nat)
  <2> QED
    BY ONLY <1>1, <2>1, n \in Nat \ {0}
<1> HIDE DEF got, rest
<1>4. /\ Len(sent) + Len(unread) = total
      /\ \A i \in 1..Len(sent) : sent[i] = i
      /\ \A i \in 1..Len(unread) : unread[i] = Len(sent) + i
  BY ONLY <1>1, InPlace(sent, held, Len(held), unread, total), total \in Nat
     DEF InPlace
<1>5. Len(sent) + (Len(got) - 0) + Len(rest) = total
  <2>1. Len(got) = n /\ Len(rest) = Len(unread) - n /\ Len(sent) + Len(unread) = total
    BY ONLY <1>2, <1>3, <1>4
  <2> QED
    BY ONLY <1>1, <2>1, n \in Nat, total \in Nat
<1>6. \A i \in (0 + 1)..Len(got) : got[i] = Len(sent) + (i - 0)
  <2> SUFFICES ASSUME NEW i \in 1..n PROVE got[i] = Len(sent) + i
    BY <1>1, <1>2
  <2> QED
    BY ONLY <1>1, <1>2, <1>4, i \in 1..n, n \in Nat, n <= Len(unread)
<1>7. \A i \in 1..Len(rest) : rest[i] = Len(sent) + (Len(got) - 0) + i
  <2> SUFFICES ASSUME NEW i \in 1..(Len(unread) - n)
               PROVE  rest[i] = Len(sent) + n + i
    BY <1>1, <1>2, <1>3
  <2>1. n + i \in 1..Len(unread)
    BY <1>1
  <2> QED
    BY ONLY <1>1, <1>3, <1>4, <2>1, i \in 1..(Len(unread) - n), n \in Nat
<1> QED
  BY <1>4, <1>5, <1>6, <1>7 DEF InPlace, got, rest

LEMMA SendInPlace ==
  ASSUME NEW sent, NEW held, NEW unread,
         sent \in Seq(Nat), held \in Seq(Nat), unread \in Seq(Nat),
         NEW total \in Nat, NEW used \in Nat, NEW n \in Nat \ {0},
         used + n <= Len(held),
         InPlace(sent, held, used, unread, total)
  PROVE  InPlace(sent \o SubSeq(held, used + 1, used + n), held, used + n,
                 unread, total)
<1> DEFINE slice == SubSeq(held, used + 1, used + n)
           all   == sent \o slice
<1>1. Len(sent) \in Nat /\ Len(held) \in Nat /\ Len(unread) \in Nat
  OBVIOUS
<1>2. /\ slice \in Seq(Nat) /\ Len(slice) = n
      /\ \A i \in 1..n : slice[i] = held[used + i]
  <2>1. /\ slice \in Seq(Nat)
        /\ Len(slice) = (used + n) - (used + 1) + 1
        /\ \A i \in 1..((used + n) - (used + 1) + 1) :
              slice[i] = held[used + 1 + i - 1]
    <3>1. /\ used + 1 \in Nat \ {0} /\ used + n \in Nat
          /\ used + 1 <= used + n + 1
      OBVIOUS
    <3> QED
      BY ONLY <3>1, Slice, used + n <= Len(held), held \in Seq(Nat)
  <2> QED
    BY ONLY <2>1, n \in Nat \ {0}, used \in Nat
<1> HIDE DEF slice
<1>3. /\ Len(all) = Len(sent) + n
      /\ \A i \in 1..Len(sent) + n :
            all[i] = IF i <= Len(sent) THEN sent[i] ELSE slice[i - Len(sent)]
  BY ONLY <1>2, ConcatProperties, sent \in Seq(Nat)
<1> HIDE DEF all
<1>4. /\ Len(sent) + (Len(held) - used) + Len(unread) = total
      /\ \A i \in 1..Len(sent) : sent[i] = i
      /\ \A i \in (used + 1)..Len(held) : held[i] = Len(sent) + (i - used)
      /\ \A i \in 1..Len(unread) :
            unread[i] = Len(sent) + (Len(held) - used) + i
  BY DEF InPlace
<1>5. ASSUME NEW i \in 1..Len(all) PROVE all[i] = i
  <2>1. CASE i <= Len(sent)
    BY ONLY <1>1, <1>3, <1>4, <2>1, i \in 1..Len(all), n \in Nat
  <2>2. CASE ~(i <= Len(sent))
    <3>1. i - Len(sent) \in 1..n /\ all[i] = slice[i - Len(sent)]
      BY ONLY <1>1, <1>3, <2>2, i \in 1..Len(all), n \in Nat
    <3>2. slice[i - Len(sent)] = held[used + (i - Len(sent))]
      BY ONLY <1>2, <3>1
    <3>3. used + (i - Len(sent)) \in (used + 1)..Len(held)
      BY <1>1, <3>1
    <3>4. held[used + (i - Len(sent))]
             = Len(sent) + ((used + (i - Len(sent))) - used)
      BY ONLY <1>4, <3>3
    <3> QED
      BY ONLY <1>1, <1>3, <3>1, <3>2, <3>4, i \in 1..Len(all), used \in Nat, n \in Nat
  <2> QED
    BY <2>1, <2>2
<1>6. Len(all) + (Len(held) - (used + n)) + Len(unread) = total
  <2>1. /\ Len(all) = Len(sent) + n
        /\ Len(sent) + (Len(held) - used) + Len(unread) = total
    BY ONLY <1>3, <1>4
  <2> QED
    BY ONLY <1>1, <2>1, used \in Nat, n \in Nat, total \in Nat
<1>7. ASSUME NEW i \in (used + n + 1)..Len(held)
      PROVE  held[i] = Len(all) + (i - (used + n))
  BY <1>1, <1>3, <1>4
<1>8. ASSUME NEW i \in 1..Len(unread)
      PROVE  unread[i] = Len(all) + (Len(held) - (used + n)) + i
  BY <1>1, <1>3, <1>4
<1> QED
  BY <1>5, <1>6, <1>7, <1>8 DEF InPlace, all, slice

LEMMA WriteInPlace ==
  ASSUME NEW sent, NEW held, NEW unread,
         sent \in Seq(Nat), held \in Seq(Nat), unread \in Seq(Nat),
         NEW total \in Nat, NEW used \in Nat,
         InPlace(sent, held, used, unread, total)
  PROVE  InPlace(sent, held, used, Append(unread, total + 1), total + 1)
<1> DEFINE more == Append(unread, total + 1)
<1>1. Len(sent) \in Nat /\ Len(held) \in Nat /\ Len(unread) \in Nat
  OBVIOUS
<1>2. /\ Len(more) = Len(unread) + 1
      /\ \A i \in 1..Len(unread) : more[i] = unread[i]
      /\ more[Len(unread) + 1] = total + 1
  BY AppendProperties
<1> HIDE DEF more
<1> QED
  BY <1>1, <1>2 DEF InPlace

THEOREM PositionsHold == Spec => []Positions
<1>1. Init => Positions
  BY DEF Init, Positions, InPlace
<1>2. TypeOK /\ Ownership /\ BufferUse /\ Positions /\ [Next]_vars => Positions'
  <2> SUFFICES ASSUME TypeOK, Ownership, BufferUse, Positions, [Next]_vars
               PROVE  Positions'
    OBVIOUS
  <2>0. /\ off \in [Dirs -> Nat] /\ buf \in [Dirs -> Seq(Nat)]
        /\ wire \in [Dirs -> Seq(Nat)] /\ written \in [Dirs -> Nat]
        /\ delivered \in [Dirs -> Seq(Nat)]
    BY DEF TypeOK
  <2>1. ASSUME NEW d \in Dirs, RecvBytes(d) PROVE Positions'
    <3>1. PICK n \in Nat \ {0} :
             /\ n <= Len(wire[d])
             /\ buf' = [buf EXCEPT ![d] = SubSeq(wire[d], 1, n)]
             /\ wire' = [wire EXCEPT ![d] =
                           SubSeq(wire[d], n + 1, Len(wire[d]))]
             /\ off' = [off EXCEPT ![d] = 0]
      BY <2>1, RecvMoves
    <3>2. UNCHANGED <<delivered, written>>
      BY <2>1 DEF RecvBytes
    <3>3. InPlace(delivered[d], buf[d], Len(buf[d]), wire[d], written[d])
      BY <2>1 DEF RecvBytes, ThreadGoes, BufferUse, Positions
    <3>4. InPlace(delivered[d], SubSeq(wire[d], 1, n), 0,
                  SubSeq(wire[d], n + 1, Len(wire[d])), written[d])
      BY ONLY <2>0, <3>1, <3>3, RecvInPlace, d \in Dirs
    <3>5. buf'[d] = SubSeq(wire[d], 1, n)
      BY ONLY <2>0, <3>1, Zenon
    <3>6. wire'[d] = SubSeq(wire[d], n + 1, Len(wire[d])) /\ off'[d] = 0
      BY ONLY <2>0, <3>1, d \in Dirs, Zenon
    <3>7. \A e \in Dirs \ {d} :
             buf'[e] = buf[e] /\ off'[e] = off[e] /\ wire'[e] = wire[e]
      BY ONLY <2>0, <3>1, Zenon
    <3>8. SUFFICES ASSUME NEW e \in Dirs
                   PROVE  InPlace(delivered[e], buf'[e], off'[e], wire'[e],
                                  written[e])
      BY <3>2 DEF Positions
    <3>9. CASE e = d
      BY ONLY <3>4, <3>5, <3>6, <3>9
    <3>10. CASE e /= d
      BY <3>7, <3>10 DEF Positions
    <3> QED
      BY <3>9, <3>10
  <2>2. ASSUME NEW d \in Dirs, SendBytes(d) PROVE Positions'
    <3>1. PICK n \in Nat \ {0} :
             /\ off[d] + n <= Len(buf[d])
             /\ delivered' = [delivered EXCEPT ![d] =
                  delivered[d] \o SubSeq(buf[d], off[d] + 1, off[d] + n)]
             /\ off' = [off EXCEPT ![d] = off[d] + n]
      BY <2>2, SendMoves
    <3>2. UNCHANGED <<buf, wire, written>>
      BY <2>2 DEF SendBytes
    <3>3. InPlace(delivered[d], buf[d], off[d], wire[d], written[d])
      BY DEF Positions
    <3>4. InPlace(delivered[d] \o SubSeq(buf[d], off[d] + 1, off[d] + n),
                  buf[d], off[d] + n, wire[d], written[d])
      BY ONLY <2>0, <3>1, <3>3, SendInPlace, d \in Dirs
    <3>5. /\ delivered'[d] =
               delivered[d] \o SubSeq(buf[d], off[d] + 1, off[d] + n)
          /\ off'[d] = off[d] + n
      BY ONLY <2>0, <3>1, d \in Dirs, Zenon
    <3>6. \A e \in Dirs \ {d} :
             delivered'[e] = delivered[e] /\ off'[e] = off[e]
      BY ONLY <2>0, <3>1, Zenon
    <3>7. SUFFICES ASSUME NEW e \in Dirs
                   PROVE  InPlace(delivered'[e], buf[e], off'[e], wire[e],
                                  written[e])
      BY <3>2 DEF Positions
    <3>8. CASE e = d
      BY ONLY <3>4, <3>5, <3>8
    <3>9. CASE e /= d
      BY <3>6, <3>9 DEF Positions
    <3> QED
      BY <3>8, <3>9
  <2>3. ASSUME NEW d \in Dirs, PeerWrites(d) PROVE Positions'
    <3>1. /\ written' = [written EXCEPT ![d] = written[d] + 1]
          /\ wire' = [wire EXCEPT ![d] = Append(wire[d], written[d] + 1)]
          /\ UNCHANGED <<buf, off, delivered>>
      BY <2>3, Zenon DEF PeerWrites, fwdVars
    <3>2. /\ written'[d] = written[d] + 1
          /\ wire'[d] = Append(wire[d], written[d] + 1)
          /\ \A e \in Dirs \ {d} : written'[e] = written[e] /\ wire'[e] = wire[e]
      BY ONLY <2>0, <3>1, d \in Dirs, Zenon
    <3>3. InPlace(delivered[d], buf[d], off[d], wire[d], written[d])
      BY DEF Positions
    <3>4. InPlace(delivered[d], buf[d], off[d],
                  Append(wire[d], written[d] + 1), written[d] + 1)
      BY ONLY <2>0, <3>3, WriteInPlace, d \in Dirs
    <3>5. SUFFICES ASSUME NEW e \in Dirs
                   PROVE  InPlace(delivered[e], buf[e], off[e], wire'[e],
                                  written'[e])
      BY <3>1 DEF Positions
    <3>6. CASE e = d
      BY ONLY <3>2, <3>4, <3>6
    <3>7. CASE e /= d
      BY <3>2, <3>7 DEF Positions
    <3> QED
      BY <3>6, <3>7
  <2>4. CASE \A d \in Dirs : ~RecvBytes(d) /\ ~SendBytes(d) /\ ~PeerWrites(d)
    BY <2>4, OtherSteps DEF Positions
  <2> QED
    BY <2>1, <2>2, <2>3, <2>4
<1> QED
  BY <1>1, <1>2, TypeCorrect, OwnershipHolds, BufferUseHolds, PTL DEF Spec

Intact(sent, held, used, unread, total) ==
    sent \o SubSeq(held, used + 1, Len(held)) \o unread = [i \in 1..total |-> i]

\* Bytes that are in place, put together, are the stream that was written.
LEMMA InPlaceIsIntact ==
  ASSUME NEW sent, NEW held, NEW unread,
         sent \in Seq(Nat), held \in Seq(Nat), unread \in Seq(Nat),
         NEW total \in Nat, NEW used \in Nat, used <= Len(held),
         InPlace(sent, held, used, unread, total)
  PROVE  Intact(sent, held, used, unread, total)
<1> DEFINE k    == Len(held) - used
           rest == SubSeq(held, used + 1, Len(held))
           most == sent \o rest
           all  == most \o unread
<1>1. /\ Len(sent) \in Nat /\ Len(held) \in Nat /\ Len(unread) \in Nat
      /\ k \in Nat
  OBVIOUS
<1>2. /\ rest \in Seq(Nat) /\ Len(rest) = k
      /\ \A i \in 1..k : rest[i] = held[used + i]
  <2>1. /\ rest \in Seq(Nat)
        /\ Len(rest) = Len(held) - (used + 1) + 1
        /\ \A i \in 1..(Len(held) - (used + 1) + 1) :
              rest[i] = held[used + 1 + i - 1]
    <3>1. used + 1 \in Nat \ {0} /\ used + 1 <= Len(held) + 1
      BY <1>1
    <3> QED
      BY ONLY <1>1, <3>1, Slice, held \in Seq(Nat)
  <2> QED
    BY ONLY <1>1, <2>1, used \in Nat
<1>3. /\ Len(sent) + k + Len(unread) = total
      /\ \A i \in 1..Len(sent) : sent[i] = i
      /\ \A i \in (used + 1)..Len(held) : held[i] = Len(sent) + (i - used)
      /\ \A i \in 1..Len(unread) : unread[i] = Len(sent) + k + i
  BY DEF InPlace
<1>4. k = Len(held) - used
  OBVIOUS
<1> HIDE DEF rest, k
<1>5. /\ most \in Seq(Nat) /\ Len(most) = Len(sent) + k
      /\ \A i \in 1..(Len(sent) + k) :
            most[i] = IF i <= Len(sent) THEN sent[i] ELSE rest[i - Len(sent)]
  BY ONLY <1>2, ConcatProperties, sent \in Seq(Nat)
<1> HIDE DEF most
<1>6. /\ all \in Seq(Nat) /\ Len(all) = Len(sent) + k + Len(unread)
      /\ \A i \in 1..(Len(sent) + k + Len(unread)) :
            all[i] = IF i <= Len(sent) + k THEN most[i]
                                           ELSE unread[i - (Len(sent) + k)]
  BY ONLY <1>5, ConcatProperties, unread \in Seq(Nat)
<1> HIDE DEF all
<1>7. ASSUME NEW i \in 1..total PROVE all[i] = i
  <2>1. CASE i <= Len(sent)
    <3>1. all[i] = most[i] /\ most[i] = sent[i]
      BY ONLY <1>1, <1>3, <1>5, <1>6, <2>1, i \in 1..total
    <3> QED
      BY ONLY <1>1, <1>3, <2>1, <3>1, i \in 1..total
  <2>2. CASE Len(sent) < i /\ i <= Len(sent) + k
    <3>1. /\ i - Len(sent) \in 1..k
          /\ all[i] = most[i] /\ most[i] = rest[i - Len(sent)]
      BY ONLY <1>1, <1>3, <1>5, <1>6, <2>2, i \in 1..total
    <3>2. rest[i - Len(sent)] = held[used + (i - Len(sent))]
      BY ONLY <1>2, <3>1
    <3>3. used + (i - Len(sent)) \in (used + 1)..Len(held)
      BY ONLY <1>1, <1>4, <3>1, used \in Nat
    <3>4. held[used + (i - Len(sent))]
             = Len(sent) + ((used + (i - Len(sent))) - used)
      BY ONLY <1>3, <3>3
    <3> QED
      BY ONLY <1>1, <3>1, <3>2, <3>4, used \in Nat, i \in 1..total, total \in Nat
  <2>3. CASE Len(sent) + k < i
    <3>1. /\ i - (Len(sent) + k) \in 1..Len(unread)
          /\ all[i] = unread[i - (Len(sent) + k)]
      BY ONLY <1>1, <1>3, <1>6, <2>3, i \in 1..total
    <3> QED
      BY ONLY <1>1, <1>3, <3>1, i \in 1..total, total \in Nat
  <2> QED
    BY <1>1, <2>1, <2>2, <2>3
<1>8. all = [i \in 1..total |-> all[i]]
  BY ONLY <1>3, <1>6, LenProperties
<1> QED
  BY ONLY <1>3, <1>6, <1>7, <1>8 DEF Intact, all, most, rest

(* Nothing is lost, repeated or reordered on the way through the proxy.    *)
THEOREM StreamIntactHolds == Spec => []StreamIntact
<1>1. TypeOK /\ BufferUse /\ Positions => StreamIntact
  <2> SUFFICES ASSUME TypeOK, BufferUse, Positions, NEW d \in Dirs
               PROVE  delivered[d] \o Unsent(d) \o wire[d]
                         = [i \in 1..written[d] |-> i]
    BY DEF StreamIntact
  <2>1. /\ delivered[d] \in Seq(Nat) /\ wire[d] \in Seq(Nat)
        /\ buf[d] \in Seq(Nat) /\ off[d] \in Nat /\ written[d] \in Nat
        /\ off[d] <= Len(buf[d])
    BY DEF TypeOK, BufferUse
  <2>2. InPlace(delivered[d], buf[d], off[d], wire[d], written[d])
    BY DEF Positions
  <2>3. Intact(delivered[d], buf[d], off[d], wire[d], written[d])
    BY ONLY <2>1, <2>2, InPlaceIsIntact
  <2> QED
    BY ONLY <2>3 DEF Unsent, Intact
<1> QED
  BY <1>1, TypeCorrect, BufferUseHolds, PositionsHold, PTL

-----------------------------------------------------------------------------
(* Why a direction ends.                                                   *)

\* The source has finished and nothing it wrote is left in the proxy.
Drained(d) == fin[Src(d)] /\ wire[d] = <<>> /\ off[d] = Len(buf[d])

(* The strengthening of EndsForCause and EofIsHonest: it names the bytes   *)
(* themselves instead of their number, and ties the end of stream to the   *)
(* place of the thread that sends it.                                      *)
Endings ==
    \A d \in Dirs :
        /\ th[d] \in {"shut", "leave", "exited"} =>
              Drained(d) \/ rst[Src(d)] \/ rst[Dst(d)]
        /\ finSent[Dst(d)] =>
              /\ th[d] \in {"leave", "exited"}
              /\ Drained(d) \/ rst[Src(d)]


THEOREM EndingsHold == Spec => []Endings
<1>1. Init => Endings
  BY DEF Init, Endings, Dirs, Sides, Src, Dst
<1>2. TypeOK /\ Ownership /\ BufferUse /\ Endings /\ [Next]_vars => Endings'
  <2> SUFFICES ASSUME TypeOK, Ownership, BufferUse, Endings, [Next]_vars
               PROVE  Endings'
    OBVIOUS
  <2> USE DEF fwdVars, dataVars, peerVars, procVars
  <2>0. /\ off \in [Dirs -> Nat] /\ buf \in [Dirs -> Seq(Nat)]
        /\ wire \in [Dirs -> Seq(Nat)] /\ th \in [Dirs -> ThreadStates]
        /\ fin \in [Sides -> BOOLEAN] /\ rst \in [Sides -> BOOLEAN]
        /\ finSent \in [Sides -> BOOLEAN]
        /\ \A d \in Dirs : Src(d) \in Sides /\ Dst(d) \in Sides
        /\ \A d, e \in Dirs : Dst(d) = Dst(e) => d = e
    BY DEF TypeOK, Dirs, Sides, Src, Dst
  <2>1. CASE MainReleases \/ Terminate \/ Finished \/ UNCHANGED vars
    BY <2>1 DEF MainReleases, Terminate, Finished, vars, Endings, Drained
  <2>2. CASE Handler
    <3>1. ASSUME NEW d \in Dirs, NEW to, \/ StartThread(d, "makeT1", to)
                                         \/ /\ d = "t2c"
                                            /\ StartThread(d, "makeT2", to)
          PROVE  Endings'
      <4>1. /\ th[d] = "none" /\ th' = [th EXCEPT ![d] = "entry"]
            /\ UNCHANGED <<buf, off, wire, fin, rst, finSent>>
        BY <3>1 DEF StartThread, HandlerGoes, Ownership
      <4> QED
        BY <2>0, <4>1 DEF Endings, Drained
    <3> QED
      BY <2>2, <3>1 DEF Handler, ThreadFails, Join, HandlerReleases, Dirs,
                        Endings, Drained
  <2>3. ASSUME NEW d \in Dirs, Forward(d) PROVE Endings'
    <3>1. CASE Enter(d)
      BY <2>0, <3>1 DEF Enter, ThreadGoes, Endings, Drained
    <3>2. CASE RecvBytes(d)
      <4>1. /\ th[d] = "recv" /\ th' = [th EXCEPT ![d] = "send"]
            /\ UNCHANGED <<fin, rst, finSent>>
        BY <3>2 DEF RecvBytes, ThreadGoes
      <4>2. \A e \in Dirs \ {d} :
               wire'[e] = wire[e] /\ buf'[e] = buf[e] /\ off'[e] = off[e]
        <5>1. PICK n \in Nat \ {0} :
                 /\ buf' = [buf EXCEPT ![d] = SubSeq(wire[d], 1, n)]
                 /\ wire' = [wire EXCEPT ![d] =
                               SubSeq(wire[d], n + 1, Len(wire[d]))]
                 /\ off' = [off EXCEPT ![d] = 0]
          BY <3>2, RecvMoves
        <5> QED
          BY ONLY <2>0, <5>1, Zenon
      <4> QED
        BY <2>0, <4>1, <4>2 DEF Endings, Drained
    <3>3. CASE RecvEof(d)
      BY <2>0, <3>3 DEF RecvEof, ThreadGoes, Endings, Drained, BufferUse
    <3>4. CASE RecvError(d)
      BY <2>0, <3>4 DEF RecvError, ThreadGoes, Endings, Drained
    <3>5. CASE SendBytes(d)
      <4>1. /\ th[d] = "send" /\ th'[d] \in {"send", "recv"}
            /\ \A e \in Dirs \ {d} : th'[e] = th[e] /\ off'[e] = off[e]
        <5>1. th[d] = "send"
          BY <3>5 DEF SendBytes
        <5>2. PICK n \in Nat \ {0} :
                 /\ off' = [off EXCEPT ![d] = off[d] + n]
                 /\ th' = [th EXCEPT ![d] = IF off[d] + n < Len(buf[d])
                                            THEN "send" ELSE "recv"]
          BY <3>5, SendMoves
        <5> QED
          BY <2>0, <5>1, <5>2
      <4>2. UNCHANGED <<buf, wire, fin, rst, finSent>>
        BY <3>5 DEF SendBytes
      <4> QED
        BY <2>0, <4>1, <4>2 DEF Endings, Drained
    <3>6. CASE SendError(d)
      BY <2>0, <3>6 DEF SendError, ThreadGoes, Endings, Drained
    <3>7. CASE Shutdown(d)
      <4>1. /\ th[d] = "shut" /\ th' = [th EXCEPT ![d] = "leave"]
            /\ UNCHANGED <<buf, off, wire, fin, rst>>
        BY <3>7 DEF Shutdown, ThreadGoes
      <4>2. /\ \A e \in Dirs \ {d} : finSent'[Dst(e)] = finSent[Dst(e)]
            /\ finSent'[Dst(d)] => finSent[Dst(d)] \/ ~rst[Dst(d)]
        BY <2>0, <3>7 DEF Shutdown
      <4>3. ~finSent[Dst(d)] /\ (Drained(d) \/ rst[Src(d)] \/ rst[Dst(d)])
        BY <4>1 DEF Endings
      <4>4. th'[d] = "leave" /\ \A e \in Dirs \ {d} : th'[e] = th[e]
        BY <2>0, <4>1
      <4>5. \A e \in Dirs : Drained(e)' = Drained(e)
        BY <4>1 DEF Drained
      <4> QED
        BY <4>1, <4>2, <4>3, <4>4, <4>5 DEF Endings
    <3>8. CASE Leave(d)
      BY <2>0, <3>8 DEF Leave, ThreadGoes, Endings, Drained
    <3> QED
      BY <2>3, <3>1, <3>2, <3>3, <3>4, <3>5, <3>6, <3>7, <3>8 DEF Forward
  <2>4. ASSUME NEW d \in Dirs, PeerWrites(d) PROVE Endings'
    BY <2>0, <2>4 DEF PeerWrites, Endings, Drained
  <2>5. ASSUME NEW d \in Dirs, PeerReads(d) PROVE Endings'
    BY <2>5 DEF PeerReads, Endings, Drained
  <2>6. ASSUME NEW s \in Sides, PeerFinishes(s) PROVE Endings'
    BY <2>0, <2>6 DEF PeerFinishes, Endings, Drained
  <2>7. ASSUME NEW s \in Sides, PeerFails(s) PROVE Endings'
    BY <2>0, <2>7 DEF PeerFails, Endings, Drained
  <2> QED
    BY <2>1, <2>2, <2>3, <2>4, <2>5, <2>6, <2>7 DEF Next
<1> QED
  BY <1>1, <1>2, TypeCorrect, OwnershipHolds, BufferUseHolds, PTL DEF Spec

\* What is drained has been delivered: the bytes have no other place to be.
LEMMA DrainedIsDelivered ==
  ASSUME TypeOK, Positions, NEW d \in Dirs, Drained(d)
  PROVE  fin[Src(d)] /\ Len(delivered[d]) = written[d]
<1>1. /\ Len(delivered[d]) \in Nat /\ off[d] \in Nat /\ written[d] \in Nat
      /\ Len(buf[d]) \in Nat /\ Len(wire[d]) = 0
  BY DEF TypeOK, Drained
<1>2. Len(delivered[d]) + (Len(buf[d]) - off[d]) + Len(wire[d]) = written[d]
  BY DEF Positions, InPlace
<1>3. fin[Src(d)] /\ off[d] = Len(buf[d])
  BY DEF Drained
<1> QED
  BY ONLY <1>1, <1>2, <1>3

(* A thread of the relay ends only for a reason of its own direction.      *)
THEOREM EndsForCauseHolds == Spec => []EndsForCause
<1>1. TypeOK /\ Positions /\ Endings => EndsForCause
  BY DrainedIsDelivered DEF Endings, EndsForCause
<1> QED
  BY <1>1, TypeCorrect, PositionsHold, EndingsHold, PTL

(* The end of a stream is passed on only after all of it, or after its     *)
(* source has failed.                                                      *)
THEOREM EofIsHonestHolds == Spec => []EofIsHonest
<1>1. TypeOK /\ Positions /\ Endings => EofIsHonest
  BY DrainedIsDelivered DEF Endings, EofIsHonest
<1> QED
  BY <1>1, TypeCorrect, PositionsHold, EndingsHold, PTL

-----------------------------------------------------------------------------
(* Each direction implements ByteStream.                                   *)

Broken == rst["client"] \/ rst["target"]

StreamVars(d) == <<written[d], delivered[d], fin[Src(d)], Broken,
                   finSent[Dst(d)]>>

Numbers(n) == [i \in 1..n |-> i]

\* A step of ByteStream, told for direction d.
StreamNext(d) ==
    \/ /\ ~fin[Src(d)]
       /\ written'[d] = written[d] + 1
       /\ UNCHANGED <<delivered[d], fin[Src(d)], Broken, finSent[Dst(d)]>>
    \/ /\ ~finSent[Dst(d)]
       /\ \E n \in (Len(delivered[d]) + 1)..written[d] :
             delivered'[d] = Numbers(n)
       /\ UNCHANGED <<written[d], fin[Src(d)], Broken, finSent[Dst(d)]>>
    \/ /\ fin'[Src(d)] = TRUE
       /\ UNCHANGED <<written[d], delivered[d], Broken, finSent[Dst(d)]>>
    \/ /\ Broken' = TRUE
       /\ UNCHANGED <<written[d], delivered[d], fin[Src(d)], finSent[Dst(d)]>>
    \/ /\ ~finSent[Dst(d)]
       /\ Broken \/ (fin[Src(d)] /\ delivered[d] = Numbers(written[d]))
       /\ finSent'[Dst(d)] = TRUE
       /\ UNCHANGED <<written[d], delivered[d], fin[Src(d)], Broken>>

\* Delivered bytes that are in place are the numbers up to their own number.
LEMMA DeliveredInOrder ==
  ASSUME NEW sent, NEW held, NEW unread,
         sent \in Seq(Nat), held \in Seq(Nat), unread \in Seq(Nat),
         NEW total \in Nat, NEW used \in Nat, used <= Len(held),
         InPlace(sent, held, used, unread, total)
  PROVE  /\ sent = Numbers(Len(sent))
         /\ Len(sent) \in Nat
         /\ Len(sent) <= total
<1>1. \A i \in 1..Len(sent) : sent[i] = i
  BY DEF InPlace
<1>2. sent = [i \in 1..Len(sent) |-> sent[i]]
  BY LenProperties
<1>3. Len(sent) + (Len(held) - used) + Len(unread) = total
  BY DEF InPlace
<1>4. Len(sent) \in Nat /\ Len(held) \in Nat /\ Len(unread) \in Nat
  OBVIOUS
<1>5. Len(sent) <= total
  BY ONLY <1>3, <1>4, used <= Len(held), used \in Nat, total \in Nat
<1> QED
  BY ONLY <1>1, <1>2, <1>4, <1>5 DEF Numbers

LEMMA StepsAreStreamSteps ==
  ASSUME TypeOK, Ownership, BufferUse, Positions, Endings, [Next]_vars,
         TypeOK', BufferUse', Positions', NEW d \in Dirs
  PROVE  StreamNext(d) \/ UNCHANGED StreamVars(d)
<1> USE DEF fwdVars, dataVars, peerVars, procVars
<1> DEFINE Goal == StreamNext(d) \/ UNCHANGED StreamVars(d)
<1>0. /\ fin \in [Sides -> BOOLEAN] /\ rst \in [Sides -> BOOLEAN]
      /\ finSent \in [Sides -> BOOLEAN] /\ written \in [Dirs -> Nat]
      /\ Src(d) \in Sides /\ Dst(d) \in Sides
      /\ \A e \in Dirs : Dst(e) = Dst(d) => e = d
      /\ \A e \in Dirs : Src(e) \in Sides /\ Dst(e) \in Sides
  BY DEF TypeOK, Dirs, Sides, Src, Dst
<1>1. CASE UNCHANGED <<written, delivered, fin, rst, finSent>>
  BY <1>1 DEF StreamVars, Broken
<1>2. CASE MainReleases \/ Handler \/ Terminate \/ Finished \/ UNCHANGED vars
  BY <1>1, <1>2 DEF MainReleases, Handler, StartThread, ThreadFails, Join,
                    HandlerReleases, Terminate, Finished, vars
<1>3. ASSUME NEW e \in Dirs, Forward(e) PROVE Goal
  <2>1. CASE Enter(e) \/ RecvBytes(e) \/ RecvEof(e) \/ RecvError(e)
             \/ SendError(e) \/ Leave(e)
    BY <1>1, <2>1 DEF Enter, RecvBytes, RecvEof, RecvError, SendError, Leave
  <2>2. CASE SendBytes(e)
    <3>1. UNCHANGED <<written, fin, rst, finSent>>
      BY <2>2 DEF SendBytes
    <3>2. PICK n \in Nat \ {0} :
             /\ off[e] + n <= Len(buf[e])
             /\ delivered' = [delivered EXCEPT ![e] =
                  delivered[e] \o SubSeq(buf[e], off[e] + 1, off[e] + n)]
      BY <2>2, SendMoves
    <3>3. /\ delivered \in [Dirs -> Seq(Nat)] /\ buf[e] \in Seq(Nat)
          /\ off[e] \in Nat
      BY DEF TypeOK
    <3>4. CASE e = d
      <4>1. delivered'[d] =
               delivered[d] \o SubSeq(buf[d], off[d] + 1, off[d] + n)
        BY ONLY <3>2, <3>3, <3>4, d \in Dirs, Zenon
      <4>2. /\ SubSeq(buf[d], off[d] + 1, off[d] + n) \in Seq(Nat)
            /\ Len(SubSeq(buf[d], off[d] + 1, off[d] + n)) = n
        <5>1. /\ off[d] + 1 \in Nat \ {0} /\ off[d] + n \in Nat
              /\ off[d] + 1 <= off[d] + n + 1
              /\ (off[d] + n) - (off[d] + 1) + 1 = n
          BY <3>3, <3>4
        <5> QED
          BY ONLY <3>2, <3>3, <3>4, <5>1, Slice
      <4>3. Len(delivered'[d]) = Len(delivered[d]) + n
        BY ONLY <3>3, <4>1, <4>2, ConcatProperties, d \in Dirs
      <4>4. /\ delivered'[d] = Numbers(Len(delivered'[d]))
            /\ Len(delivered'[d]) \in Nat
            /\ Len(delivered'[d]) <= written'[d]
        <5>1. /\ delivered'[d] \in Seq(Nat) /\ buf'[d] \in Seq(Nat)
              /\ wire'[d] \in Seq(Nat) /\ written'[d] \in Nat
              /\ off'[d] \in Nat /\ off'[d] <= Len(buf'[d])
          BY DEF TypeOK, BufferUse
        <5>2. InPlace(delivered'[d], buf'[d], off'[d], wire'[d], written'[d])
          BY DEF Positions
        <5> QED
          BY ONLY <5>1, <5>2, DeliveredInOrder
      <4>5. ~finSent[Dst(d)]
        <5>1. th[d] = "send"
          BY <2>2, <3>4 DEF SendBytes
        <5> QED
          BY <5>1 DEF Endings
      <4>6. Len(delivered[d]) \in Nat
        BY <3>3
      <4>7. Len(delivered'[d]) \in (Len(delivered[d]) + 1)..written'[d]
        <5>1. written'[d] \in Nat
          BY DEF TypeOK
        <5> QED
          BY ONLY <4>3, <4>4, <4>6, <5>1, n \in Nat \ {0}
      <4> QED
        BY ONLY <3>1, <4>4, <4>5, <4>7 DEF StreamNext, Broken
    <3>5. CASE e /= d
      BY <3>1, <3>2, <3>3, <3>5 DEF StreamVars, Broken
    <3> QED
      BY <3>4, <3>5
  <2>3. CASE Shutdown(e)
    <3>1. UNCHANGED <<written, delivered, fin, rst>>
      BY <2>3 DEF Shutdown
    <3>2. CASE finSent'[Dst(d)] = finSent[Dst(d)]
      BY <3>1, <3>2 DEF StreamVars, Broken
    <3>3. CASE finSent'[Dst(d)] /= finSent[Dst(d)]
      <4>1. e = d /\ th[d] = "shut" /\ finSent'[Dst(d)] = ~rst[Dst(d)]
        BY <1>0, <2>3, <3>3 DEF Shutdown, ThreadGoes
      <4>2. ~finSent[Dst(d)] /\ (Drained(d) \/ rst[Src(d)] \/ rst[Dst(d)])
        BY <4>1 DEF Endings
      <4>3. finSent'[Dst(d)] = TRUE /\ ~rst[Dst(d)]
        BY <1>0, <3>3, <4>1, <4>2
      <4>4. rst[Src(d)] => Broken
        BY <1>0 DEF Broken, Sides
      <4>5. Drained(d) => fin[Src(d)] /\ delivered[d] = Numbers(written[d])
        <5>1. /\ delivered[d] \in Seq(Nat) /\ buf[d] \in Seq(Nat)
              /\ wire[d] \in Seq(Nat) /\ written[d] \in Nat
              /\ off[d] \in Nat /\ off[d] <= Len(buf[d])
          BY DEF TypeOK, BufferUse
        <5>2. InPlace(delivered[d], buf[d], off[d], wire[d], written[d])
          BY DEF Positions
        <5>3. delivered[d] = Numbers(Len(delivered[d]))
          BY ONLY <5>1, <5>2, DeliveredInOrder
        <5> QED
          BY <5>3, DrainedIsDelivered
      <4> QED
        BY <3>1, <4>2, <4>3, <4>4, <4>5 DEF StreamNext, Broken
    <3> QED
      BY <3>2, <3>3
  <2> QED
    BY <1>3, <2>1, <2>2, <2>3 DEF Forward
<1>4. ASSUME NEW e \in Dirs, PeerWrites(e) PROVE Goal
  <2>1. CASE e = d
    BY <1>0, <1>4, <2>1 DEF PeerWrites, StreamNext, Broken
  <2>2. CASE e /= d
    BY <1>0, <1>4, <2>2 DEF PeerWrites, StreamVars, Broken
  <2> QED
    BY <2>1, <2>2
<1>5. ASSUME NEW e \in Dirs, PeerReads(e) PROVE Goal
  BY <1>1, <1>5 DEF PeerReads
<1>6. ASSUME NEW s \in Sides, PeerFinishes(s) PROVE Goal
  BY <1>0, <1>6 DEF PeerFinishes, StreamNext, StreamVars, Broken
<1>7. ASSUME NEW s \in Sides, PeerFails(s) PROVE Goal
  BY <1>0, <1>7 DEF PeerFails, StreamNext, Broken, Sides
<1> QED
  BY <1>2, <1>3, <1>4, <1>5, <1>6, <1>7 DEF Next

(* Both directions of a connection are byte streams: whatever fails, what  *)
(* arrives is a gapless prefix of what was written, and the end is not     *)
(* announced early.                                                        *)
THEOREM RelayImplementsStreams == Spec => ImplementsStreams
<1> DEFINE Inv == TypeOK /\ Ownership /\ BufferUse /\ Positions /\ Endings
<1>1. Init => ClientStream!Init /\ TargetStream!Init
  BY DEF Init, ClientStream!Init, TargetStream!Init, Sides, Dirs
<1>2. Inv /\ Inv' /\ [Next]_vars => [ClientStream!Next]_(ClientStream!streamVars)
  <2> SUFFICES ASSUME Inv, Inv', [Next]_vars
               PROVE  ClientStream!Next \/ UNCHANGED ClientStream!streamVars
    OBVIOUS
  <2>1. StreamNext("c2t") \/ UNCHANGED StreamVars("c2t")
    BY StepsAreStreamSteps DEF Dirs
  <2> QED
    BY <2>1 DEF StreamNext, StreamVars, Numbers, Broken, Src, Dst,
                ClientStream!Next, ClientStream!Write, ClientStream!Transfer,
                ClientStream!Finish, ClientStream!Break, ClientStream!Announce,
                ClientStream!streamVars, ClientStream!Bytes
<1>3. Inv /\ Inv' /\ [Next]_vars => [TargetStream!Next]_(TargetStream!streamVars)
  <2> SUFFICES ASSUME Inv, Inv', [Next]_vars
               PROVE  TargetStream!Next \/ UNCHANGED TargetStream!streamVars
    OBVIOUS
  <2>1. StreamNext("t2c") \/ UNCHANGED StreamVars("t2c")
    BY StepsAreStreamSteps DEF Dirs
  <2> QED
    BY <2>1 DEF StreamNext, StreamVars, Numbers, Broken, Src, Dst,
                TargetStream!Next, TargetStream!Write, TargetStream!Transfer,
                TargetStream!Finish, TargetStream!Break, TargetStream!Announce,
                TargetStream!streamVars, TargetStream!Bytes
<1> QED
  BY <1>1, <1>2, <1>3, TypeCorrect, OwnershipHolds, BufferUseHolds,
     PositionsHold, EndingsHold, PTL
     DEF Spec, ImplementsStreams, ClientStream!Spec, TargetStream!Spec

=============================================================================
