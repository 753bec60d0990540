-------------------------- MODULE AcceptLoopProofs --------------------------
(***************************************************************************)
(* Proofs about AcceptLoop, for every table of handles and every set of    *)
(* clients.                                                                *)
(***************************************************************************)
EXTENDS AcceptLoop, SequenceTheorems, TLAPS

-----------------------------------------------------------------------------
(* Type correctness.                                                       *)

\* Letting go of a Connection keeps the table and the objects in their types.
LEMMA DropTypes ==
  ASSUME open \subseteq Handles, conns \subseteq Connections,
         NEW c \in conns, NEW o, Drop(c, o)
  PROVE  open' \subseteq Handles /\ conns' \subseteq Connections
<1>1. CASE c.owners /= {o}
  <2>1. [c EXCEPT !.owners = @ \ {o}] \in Connections
    BY <1>1 DEF Drop, Connections, OwnerSets
  <2> QED
    BY <1>1, <2>1 DEF Drop
<1>2. CASE c.owners = {o}
  BY <1>2 DEF Drop
<1> QED
  BY <1>1, <1>2

(* The locals that a place of main() may use have been assigned.           *)
Assigned ==
    /\ main \notin {"args", "socket", "exited"} => listener \in Handles
    /\ main \in {"target", "connect", "wrap", "spawn"} =>
          client \in Handles /\ peer \in Clients
    /\ main \in {"connect", "wrap", "spawn"} => target \in Handles

\* Leaving the queue keeps it a queue.
LEMMA LeaveQueueType ==
  ASSUME NEW S, NEW q \in Seq(S), NEW i \in 1..Len(q)
  PROVE  SubSeq(q, 1, i - 1) \o SubSeq(q, i + 1, Len(q)) \in Seq(S)
<1>1. \A j \in 1..Len(q) : q[j] \in S
  BY LenProperties
<1>2. Len(q) \in Nat
  OBVIOUS
<1>3. SubSeq(q, 1, i - 1) \in Seq(S)
  BY <1>1, <1>2, SubSeqProperties
<1>4. SubSeq(q, i + 1, Len(q)) \in Seq(S)
  BY <1>1, <1>2, SubSeqProperties
<1> QED
  BY ONLY <1>3, <1>4, ConcatProperties

\* Init and every action keep the variables in their types.
THEOREM AcceptTypes == Spec => [](TypeOK /\ Assigned)
<1> DEFINE Inv == TypeOK /\ Assigned
<1>1. Init => Inv
  <2> SUFFICES ASSUME Init PROVE Inv
    OBVIOUS
  <2>1. fate \in [Clients -> Fates]
    BY DEF Init, Fates
  <2>2. backlog \in Seq(Clients)
    BY DEF Init
  <2> QED
    BY <2>1, <2>2 DEF Init, TypeOK, Places, Assigned
<1>2. Inv /\ [Next]_vars => Inv'
  <2> SUFFICES ASSUME TypeOK, Assigned, [Next]_vars PROVE TypeOK' /\ Assigned'
    OBVIOUS
  <2> USE DEF TypeOK, Assigned, Places, Goes, locals, world
  <2>0. \A f \in Fates, c \in Clients : [fate EXCEPT ![c] = f] \in [Clients -> Fates]
    OBVIOUS
  <2>a. {"away", "taken", "relayed", "queued"} \subseteq Fates
    BY DEF Fates
  <2>b. [c \in Clients |-> "away"] \in [Clients -> Fates]
    BY <2>a
  <2>c. {"main"} \in OwnerSets /\ {"main", "handler"} \in OwnerSets
    <3>1. "main" \in {"main"} /\ "main" \in {"main", "handler"}
      OBVIOUS
    <3> QED
      BY <3>1, Zenon DEF OwnerSets
  <2>1. CASE Startup
    <3>1. CASE BadStart \/ StartWinsock \/ ListenerFails \/ SetUp
      BY <3>1 DEF BadStart, StartWinsock, ListenerFails, SetUp
    <3>2. CASE CreateListener
      BY <3>2 DEF CreateListener
    <3>3. CASE SetUpFails
      <4>1. <<>> \in Seq(Clients)
        OBVIOUS
      <4> QED
        BY <3>3, <2>b, <4>1 DEF SetUpFails
    <3> QED
      BY <2>1, <3>1, <3>2, <3>3 DEF Startup
  <2>2. CASE AcceptClient
    <3>1. Head(backlog) \in Clients /\ Tail(backlog) \in Seq(Clients)
      BY <2>2, HeadTailProperties DEF AcceptClient
    <3>2. PICK h \in Handles \ open : client' = h /\ open' = open \cup {h}
      BY <2>2 DEF AcceptClient
    <3>3. fate' \in [Clients -> Fates]
      BY <2>2, <2>0, <2>a, <3>1 DEF AcceptClient
    <3>4. backlog' \in Seq(Clients) /\ peer' \in Clients
      BY <2>2, <3>1 DEF AcceptClient
    <3> QED
      BY <2>2, <3>2, <3>3, <3>4 DEF AcceptClient
  <2>3. CASE AcceptFails \/ Ended \/ UNCHANGED vars
    BY <2>3 DEF AcceptFails, Ended, vars
  <2>4. CASE CreateTarget
    BY <2>4 DEF CreateTarget
  <2>5. CASE TargetFails \/ ConnectFails
    <3>1. fate' \in [Clients -> Fates]
      BY <2>5, <2>0, <2>a DEF TargetFails, ConnectFails
    <3> QED
      BY <2>5, <3>1 DEF TargetFails, ConnectFails
  <2>6. CASE ConnectSucceeds
    BY <2>6 DEF ConnectSucceeds
  <2>7. CASE Wrap
    <3>1. [client |-> client, target |-> target, peer |-> peer,
           owners |-> {"main"}] \in Connections
      BY <2>7, <2>c DEF Wrap, Connections
    <3> QED
      BY <2>7, <3>1 DEF Wrap
  <2>8. CASE Spawn
    <3>1. \A c \in conns :
             [c EXCEPT !.owners = {"main", "handler"}] \in Connections
      BY <2>c DEF Connections
    <3>2. conns' \subseteq Connections
      BY <2>8, <3>1 DEF Spawn
    <3>3. fate' \in [Clients -> Fates]
      BY <2>8, <2>0, <2>a DEF Spawn
    <3> QED
      BY <2>8, <3>2, <3>3 DEF Spawn
  <2>9. CASE Throws
    <3>1. <<>> \in Seq(Clients)
      OBVIOUS
    <3> QED
      BY <2>9, <2>b, <3>1 DEF Throws
  <2>10. CASE Release
    <3>1. open' \subseteq Handles /\ conns' \subseteq Connections
      BY <2>10, DropTypes DEF Release
    <3> QED
      BY <2>10, <3>1 DEF Release
  <2>11. CASE HandlerEnds
    <3>1. PICK c \in conns : /\ Drop(c, "handler")
                             /\ fate' = [fate EXCEPT ![c.peer] = "away"]
      BY <2>11 DEF HandlerEnds
    <3>2. open' \subseteq Handles /\ conns' \subseteq Connections
      BY <3>1, DropTypes
    <3>3. fate' \in [Clients -> Fates]
      BY <3>1, <2>0, <2>a DEF Connections
    <3> QED
      BY <2>11, <3>2, <3>3 DEF HandlerEnds
  <2>12. ASSUME NEW c \in Clients, ClientConnects(c) PROVE TypeOK' /\ Assigned'
    <3>1. fate' \in [Clients -> Fates]
      BY <2>12, <2>0, <2>a DEF ClientConnects
    <3>2. backlog' \in Seq(Clients)
      BY <2>12, AppendProperties DEF ClientConnects
    <3> QED
      BY <2>12, <3>1, <3>2 DEF ClientConnects
  <2>13. ASSUME NEW c \in Clients, ClientGivesUp(c) PROVE TypeOK' /\ Assigned'
    <3>1. fate' \in [Clients -> Fates]
      BY <2>13, <2>0, <2>a DEF ClientGivesUp
    <3>2. backlog' \in Seq(Clients)
      BY <2>13, LeaveQueueType DEF ClientGivesUp
    <3> QED
      BY <2>13, <3>1, <3>2 DEF ClientGivesUp
  <2> QED
    BY <2>1, <2>2, <2>3, <2>4, <2>5, <2>6, <2>7, <2>8, <2>9, <2>10, <2>11,
       <2>12, <2>13 DEF Next, Loop
<1> QED
  BY <1>1, <1>2, PTL DEF Spec

\* The variables of the accept loop keep their types.
THEOREM AcceptTypeCorrect == Spec => []TypeOK
BY AcceptTypes, PTL

-----------------------------------------------------------------------------
(* Who holds which handle.                                                 *)

(* What HandlesAccounted needs beside HandlesExclusive: connections exist  *)
(* only in the loop, and main() shares one exactly while it is between     *)
(* creating it and the end of the iteration.                               *)
Shared ==
    /\ main \in {"args", "socket", "bind", "listen", "pton", "exited", "dead"}
          => conns = {}
    /\ main \notin {"spawn", "release"} => \A c \in conns : "main" \notin c.owners
    /\ \A c, d \in conns : "main" \in c.owners /\ "main" \in d.owners => c = d
    /\ wsa = (Running /\ main /= "args")

\* No two connections, and no connection and main(), hold the same handle.
Apart ==
    /\ \A c \in conns : c.client /= c.target /\ HeldBy(c) \cap HeldByMain = {}
    /\ \A c, d \in conns : c /= d => HeldBy(c) \cap HeldBy(d) = {}

\* Another set of owners does not change who holds what.
LEMMA ReownKeeps ==
  ASSUME HandlesAccounted, Apart, NEW c \in conns, NEW r,
         r.client = c.client, r.target = c.target,
         conns' = (conns \ {c}) \cup {r}, open' = open,
         HeldByMain' = HeldByMain
  PROVE  HandlesAccounted' /\ Apart'
<1>1. HeldBy(r) = HeldBy(c)
  BY DEF HeldBy
<1>2. UNION {HeldBy(d) : d \in conns'} = UNION {HeldBy(d) : d \in conns}
  BY <1>1
<1>3. HandlesAccounted'
  BY <1>2 DEF HandlesAccounted, HeldBy
<1>4. Apart'
  BY <1>1 DEF Apart, HeldBy
<1> QED
  BY <1>3, <1>4

\* The last owner frees the two handles of its Connection and no other.
LEMMA CloseKeeps ==
  ASSUME HandlesAccounted, Apart, NEW c \in conns,
         conns' = conns \ {c}, open' = open \ {c.client, c.target},
         HeldByMain' = HeldByMain
  PROVE  HandlesAccounted' /\ Apart'
<1>1. \A d \in conns' : HeldBy(d) \cap HeldBy(c) = {}
  BY DEF Apart
<1>2. HandlesAccounted'
  <2>1. HeldBy(c) \cap HeldByMain = {}
    BY DEF Apart
  <2>2. ASSUME NEW h
        PROVE  h \in open' <=> \/ h \in HeldByMain
                               \/ \E d \in conns' : h \in HeldBy(d)
    <3>1. h \in open <=> h \in HeldByMain \/ \E d \in conns : h \in HeldBy(d)
      BY DEF HandlesAccounted
    <3>2. h \in open' <=> h \in open /\ h \notin HeldBy(c)
      BY DEF HeldBy
    <3> QED
      BY <1>1, <2>1, <3>1, <3>2
  <2>3. open' = HeldByMain \cup UNION {HeldBy(d) : d \in conns'}
    BY <2>2
  <2>4. \A d : HeldBy(d)' = HeldBy(d)
    BY DEF HeldBy
  <2> QED
    BY <2>3, <2>4 DEF HandlesAccounted
<1>3. Apart'
  BY DEF Apart, HeldBy
<1> QED
  BY <1>2, <1>3

LEMMA DropKeeps ==
  ASSUME HandlesAccounted, Apart, NEW c \in conns, NEW o, Drop(c, o),
         HeldByMain' = HeldByMain
  PROVE  HandlesAccounted' /\ Apart'
<1>1. CASE c.owners = {o}
  BY <1>1, CloseKeeps DEF Drop
<1>2. CASE c.owners /= {o}
  <2>1. conns' = (conns \ {c}) \cup {[c EXCEPT !.owners = @ \ {o}]}
        /\ open' = open
    BY <1>2 DEF Drop
  <2>2. /\ [c EXCEPT !.owners = @ \ {o}].client = c.client
        /\ [c EXCEPT !.owners = @ \ {o}].target = c.target
    OBVIOUS
  <2> QED
    BY <2>1, <2>2, ReownKeeps
<1> QED
  BY <1>1, <1>2

HandleInv == HandlesAccounted /\ HandlesExclusive /\ Shared

THEOREM HandleInvHolds == Spec => []HandleInv
<1>1. Init => HandleInv
  BY DEF Init, HandleInv, HandlesAccounted, HandlesExclusive, Shared, HeldByMain,
         Running
<1>2. TypeOK /\ Assigned /\ HandleInv /\ [Next]_vars => HandleInv'
  <2> SUFFICES ASSUME TypeOK, Assigned, HandleInv, [Next]_vars PROVE HandleInv'
    OBVIOUS
  <2>0. HandlesAccounted /\ HandlesExclusive /\ Shared /\ Apart
    BY DEF HandleInv, HandlesExclusive, Apart
  <2> USE DEF locals, world, Goes, Running
  <2>1. CASE BadStart \/ StartWinsock \/ ListenerFails
    BY <2>0, <2>1 DEF BadStart, StartWinsock, ListenerFails, HandleInv,
          HandlesAccounted, HandlesExclusive, Shared, HeldByMain
  <2>2. CASE CreateListener
    BY <2>0, <2>2 DEF CreateListener, HandleInv,
          HandlesAccounted, HandlesExclusive, Shared, HeldByMain
  <2>3. CASE SetUp
    BY <2>0, <2>3 DEF SetUp, HandleInv,
          HandlesAccounted, HandlesExclusive, Shared, HeldByMain
  <2>4. CASE SetUpFails
    <3>1. conns = {} /\ HeldByMain = {listener} /\ HeldByMain' = {}
      BY <2>0, <2>4 DEF SetUpFails, Shared, HeldByMain
    <3>2. open = {listener}
      BY <2>0, <3>1 DEF HandlesAccounted
    <3>3. open' = {} /\ conns' = {}
      BY <2>4, <3>1, <3>2 DEF SetUpFails
    <3> QED
      BY <2>4, <3>1, <3>3 DEF SetUpFails, HandleInv, HandlesAccounted,
         HandlesExclusive, Shared
  <2>5. CASE AcceptClient
    BY <2>0, <2>5 DEF AcceptClient, HandleInv,
          HandlesAccounted, HandlesExclusive, Shared, HeldByMain, HeldBy
  <2>6. CASE AcceptFails \/ Ended \/ UNCHANGED vars
    BY <2>0, <2>6 DEF AcceptFails, Ended, vars, HandleInv,
          HandlesAccounted, HandlesExclusive, Shared, HeldByMain
  <2>7. CASE CreateTarget
    BY <2>0, <2>7 DEF CreateTarget, HandleInv,
          HandlesAccounted, HandlesExclusive, Shared, HeldByMain, HeldBy
  <2>8. CASE TargetFails
    <3>1. /\ HeldByMain = {listener, client} /\ HeldByMain' = {listener}
          /\ client /= listener /\ open' = open \ {client} /\ conns' = conns
      BY <2>0, <2>8 DEF TargetFails, HeldByMain, HandlesExclusive
    <3>2. \A c \in conns : client \notin HeldBy(c)
      BY <2>0, <3>1 DEF Apart
    <3>3. HandlesAccounted'
      BY <2>0, <3>1, <3>2 DEF HandlesAccounted, HeldBy
    <3>4. HandlesExclusive'
      BY <2>0, <2>8, <3>1 DEF TargetFails, HandlesExclusive, HeldBy
    <3>5. Shared'
      BY <2>0, <2>8 DEF TargetFails, Shared
    <3> QED
      BY <3>3, <3>4, <3>5 DEF HandleInv
  <2>9. CASE ConnectFails
    <3>1. /\ HeldByMain = {listener, client, target}
          /\ HeldByMain' = {listener}
          /\ client /= listener /\ target /= listener
          /\ open' = open \ {client, target} /\ conns' = conns
      BY <2>0, <2>9 DEF ConnectFails, HeldByMain, HandlesExclusive
    <3>2. \A c \in conns : client \notin HeldBy(c) /\ target \notin HeldBy(c)
      BY <2>0, <3>1 DEF Apart
    <3>3. HandlesAccounted'
      BY <2>0, <3>1, <3>2 DEF HandlesAccounted, HeldBy
    <3>4. HandlesExclusive'
      BY <2>0, <2>9, <3>1 DEF ConnectFails, HandlesExclusive, HeldBy
    <3>5. Shared'
      BY <2>0, <2>9 DEF ConnectFails, Shared
    <3> QED
      BY <3>3, <3>4, <3>5 DEF HandleInv
  <2>10. CASE ConnectSucceeds
    BY <2>0, <2>10 DEF ConnectSucceeds, HandleInv,
          HandlesAccounted, HandlesExclusive, Shared, HeldByMain
  <2>11. CASE Wrap
    <3> DEFINE new == [client |-> client, target |-> target, peer |-> peer,
                       owners |-> {"main"}]
    <3>1. /\ HeldByMain = {listener, client, target}
          /\ HeldByMain' = {listener} /\ client /= target
          /\ client /= listener /\ target /= listener
          /\ conns' = conns \cup {new} /\ open' = open
      BY <2>0, <2>11 DEF Wrap, HeldByMain, HandlesExclusive
    <3>2. /\ HeldBy(new) = {client, target}
          /\ new.client = client /\ new.target = target /\ new.owners = {"main"}
      BY DEF HeldBy
    <3>3. \A c \in conns : /\ c.client /= c.target
                           /\ HeldBy(c) \cap {listener, client, target} = {}
      BY <2>0, <3>1 DEF Apart
    <3> HIDE DEF new
    <3>4. HandlesAccounted'
      <4>1. UNION {HeldBy(c) : c \in conns'}
               = {client, target} \cup UNION {HeldBy(c) : c \in conns}
        BY <3>1, <3>2
      <4> QED
        BY <2>0, <3>1, <4>1 DEF HandlesAccounted, HeldBy
    <3>5. Apart'
      BY <2>0, <3>1, <3>2, <3>3 DEF Apart, HeldBy
    <3>6. Shared'
      BY <2>0, <2>11, <3>1, <3>2 DEF Wrap, Shared
    <3> QED
      BY <2>11, <3>4, <3>5, <3>6 DEF Wrap, HandleInv, HandlesExclusive, Apart
  <2>12. CASE Spawn
    <3>1. PICK c \in conns :
             /\ "main" \in c.owners
             /\ conns' = (conns \ {c})
                           \cup {[c EXCEPT !.owners = {"main", "handler"}]}
      BY <2>12 DEF Spawn
    <3>2. /\ main = "spawn" /\ main' = "release"
          /\ UNCHANGED <<wsa, locals, open>>
      BY <2>12 DEF Spawn
    <3>3. HeldByMain' = HeldByMain
      BY <3>2 DEF HeldByMain
    <3>4. HandlesAccounted' /\ Apart'
      <4>1. /\ [c EXCEPT !.owners = {"main", "handler"}].client = c.client
            /\ [c EXCEPT !.owners = {"main", "handler"}].target = c.target
        BY DEF TypeOK, Connections
      <4> QED
        BY ONLY <2>0, <3>1, <3>2, <3>3, <4>1, ReownKeeps
    <3>5. Shared'
      BY <2>0, <3>1, <3>2 DEF Shared
    <3> QED
      BY <3>2, <3>4, <3>5 DEF HandleInv, HandlesExclusive, Apart
  <2>13. CASE Throws
    BY <2>0, <2>13 DEF Throws, HandleInv,
          HandlesAccounted, HandlesExclusive, Shared, HeldByMain
  <2>14. CASE Release
    <3>1. PICK c \in conns : Drop(c, "main")
      BY <2>14 DEF Release
    <3>2. main = "release" /\ main' = "accept" /\ UNCHANGED <<wsa, locals>>
      BY <2>14 DEF Release
    <3>3. HeldByMain' = HeldByMain
      BY <3>2 DEF HeldByMain
    <3>4. HandlesAccounted' /\ Apart'
      BY <2>0, <3>1, <3>3, DropKeeps
    <3>5. Shared'
      <4>1. /\ c \in Connections
            /\ \/ conns' = conns \ {c}
               \/ conns' = (conns \ {c}) \cup {[c EXCEPT !.owners = @ \ {"main"}]}
        BY <3>1 DEF TypeOK, Drop
      <4>2. [c EXCEPT !.owners = @ \ {"main"}].owners = c.owners \ {"main"}
        BY <4>1 DEF Connections
      <4>3. \A d \in conns \ {c} : "main" \notin d.owners
        BY <2>0, <3>1 DEF Shared, Drop
      <4>4. \A d \in conns' : "main" \notin d.owners
        BY <4>1, <4>2, <4>3
      <4> QED
        BY <2>0, <3>2, <4>4 DEF Shared
    <3> QED
      BY <3>2, <3>4, <3>5 DEF HandleInv, HandlesExclusive, Apart
  <2>15. CASE HandlerEnds
    <3>1. PICK c \in conns : Drop(c, "handler")
      BY <2>15 DEF HandlerEnds
    <3>2. UNCHANGED <<main, wsa, locals>>
      BY <2>15 DEF HandlerEnds
    <3>3. HeldByMain' = HeldByMain
      BY <3>2 DEF HeldByMain
    <3>4. HandlesAccounted' /\ Apart'
      BY <2>0, <3>1, <3>3, DropKeeps
    <3>5. Shared'
      <4>1. /\ c \in Connections
            /\ \/ conns' = conns \ {c}
               \/ conns' = (conns \ {c}) \cup {[c EXCEPT !.owners = @ \ {"handler"}]}
        BY <3>1 DEF TypeOK, Drop
      <4>2. [c EXCEPT !.owners = @ \ {"handler"}].owners = c.owners \ {"handler"}
        BY <4>1 DEF Connections
      <4> QED
        BY <2>0, <3>1, <3>2, <4>1, <4>2 DEF Shared
    <3> QED
      BY <2>0, <3>2, <3>4, <3>5 DEF HandleInv, HandlesExclusive, Apart
  <2>16. ASSUME NEW c \in Clients, ClientConnects(c) \/ ClientGivesUp(c)
         PROVE  HandleInv'
    BY <2>0, <2>16 DEF ClientConnects, ClientGivesUp, HandleInv,
          HandlesAccounted, HandlesExclusive, Shared, HeldByMain
  <2> QED
    BY <2>1, <2>2, <2>3, <2>4, <2>5, <2>6, <2>7, <2>8, <2>9, <2>10, <2>11,
       <2>12, <2>13, <2>14, <2>15, <2>16 DEF Next, Startup, Loop
<1> QED
  BY <1>1, <1>2, AcceptTypes, PTL DEF Spec

(* No handle leaks and none is closed while it still has a holder.         *)
THEOREM HandlesAccountedHolds == Spec => []HandlesAccounted
BY HandleInvHolds, PTL DEF HandleInv

(* No handle has two holders, however often it is reused.                  *)
THEOREM HandlesExclusiveHolds == Spec => []HandlesExclusive
BY HandleInvHolds, PTL DEF HandleInv

(* The program leaves nothing behind when it stops by itself.              *)
THEOREM CleanExitHolds == Spec => []CleanExit
<1>1. HandleInv => CleanExit
  BY DEF HandleInv, HandlesAccounted, Shared, CleanExit, HeldByMain, Running
<1> QED
  BY <1>1, HandleInvHolds, PTL

=============================================================================
