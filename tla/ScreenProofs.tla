---------------------------- MODULE ScreenProofs ----------------------------
(* What Screen promises, for consoles, trees of viewports and sequences of *)
(* calls of any size: that present() stores its cells within the shadow    *)
(* buffer, that this one is never stale, and that restored snapshots bring *)
(* back what they covered.                                                 *)
EXTENDS Screen, SequenceTheorems, TLAPS

-----------------------------------------------------------------------------
(* The tree.  Positions are added up along the parents, so that the        *)
(* recursive functions Abs and Root mean something only if no viewport is  *)
(* above itself: every set of viewports has one whose parent is outside.   *)
Acyclic == \A T \in SUBSET Views : T # {} => \E v \in T : parent[v] \notin T
Tree == parent \in [Views -> Views \cup {Nobody}] /\ Acyclic

\* What holds at the roots, and below wherever it holds, holds everywhere.
LEMMA ParentInduction ==
    ASSUME Tree, NEW S,
           \A v \in Views : parent[v] \in S \cup {Nobody} => v \in S
    PROVE  Views \subseteq S
<1> DEFINE T == Views \ S
<1>1. SUFFICES ASSUME T # {} PROVE FALSE
  OBVIOUS
<1>2. PICK v \in T : parent[v] \notin T
  BY <1>1 DEF Tree, Acyclic
<1>3. parent[v] \in S \cup {Nobody}
  BY <1>2 DEF Tree
<1> QED
  BY <1>3

\* f is defined along the parents, from base at a root.
Follows(f, base, step) ==
    \A v \in Views :
        f[v] = IF parent[v] = Nobody THEN base[v]
                                     ELSE step[<<v, f[parent[v]]>>]

\* Along the parents functions can be defined: the least relation that
\* contains base and is closed under step relates each viewport to one value.
LEMMA ParentRecursion ==
    ASSUME Tree, NEW V, NEW base \in [Views -> V],
           NEW step \in [Views \X V -> V]
    PROVE  \E f \in [Views -> V] : Follows(f, base, step)
<1> DEFINE Closed(Q) ==
             \A v \in Views :
               /\ parent[v] = Nobody => <<v, base[v]>> \in Q
               /\ \A y \in V : <<parent[v], y>> \in Q => <<v, step[<<v, y>>]>> \in Q
           R == {q \in Views \X V :
                   \A Q \in SUBSET (Views \X V) : Closed(Q) => q \in Q}
           Only(v, y) == <<v, y>> \in R /\ \A z \in V : <<v, z>> \in R => z = y
<1>1. Closed(R)
  <2>1. SUFFICES ASSUME NEW v \in Views
                 PROVE  /\ parent[v] = Nobody => <<v, base[v]>> \in R
                        /\ \A y \in V : <<parent[v], y>> \in R => <<v, step[<<v, y>>]>> \in R
    OBVIOUS
  <2>2. parent[v] = Nobody => <<v, base[v]>> \in R
    OBVIOUS
  <2>3. ASSUME NEW y \in V, <<parent[v], y>> \in R
        PROVE  <<v, step[<<v, y>>]>> \in R
    <3>1. <<v, step[<<v, y>>]>> \in Views \X V
      OBVIOUS
    <3>2. ASSUME NEW Q \in SUBSET (Views \X V), Closed(Q) PROVE <<v, step[<<v, y>>]>> \in Q
      BY <2>3, <3>2
    <3> QED
      BY <3>1, <3>2
  <2> QED
    BY <2>2, <2>3
<1>2. \A q \in R : ~Closed(R \ {q})
  <2> HIDE DEF Closed
  <2>1. ASSUME NEW q \in R, Closed(R \ {q}) PROVE FALSE
    <3>1. R \ {q} \in SUBSET (Views \X V)
      OBVIOUS
    <3>2. q \in R \ {q}
      BY <2>1, <3>1
    <3> QED
      BY <3>2
  <2> QED
    BY <2>1
<1>3. ASSUME NEW v \in Views PROVE v \in {u \in Views : \E y \in V : Only(u, y)}
  <2> DEFINE S == {u \in Views : \E y \in V : Only(u, y)}
  <2>1. ASSUME NEW u \in Views, parent[u] = Nobody PROVE Only(u, base[u])
    <3>1. <<u, base[u]>> \in R
      BY <1>1, <2>1
    <3>2. ASSUME NEW z \in V, <<u, z>> \in R, z # base[u] PROVE FALSE
      <4>1. Closed(R \ {<<u, z>>})
        <5> HIDE DEF R
        <5>1. \A w \in Views : parent[w] = Nobody => <<w, base[w]>> \in R \ {<<u, z>>}
          BY <1>1, <3>2
        <5>2. \A w \in Views, x \in V :
                <<parent[w], x>> \in R => w # u
          <6>1. \A q \in R : q[1] \in Views
            BY DEF R
          <6> QED
            BY <2>1, <6>1, ViewAssumption
        <5>3. \A w \in Views, x \in V :
                <<parent[w], x>> \in R \ {<<u, z>>} => <<w, step[<<w, x>>]>> \in R \ {<<u, z>>}
          BY <1>1, <5>2
        <5> QED
          BY <5>1, <5>3
      <4> QED
        BY <1>2, <3>2, <4>1
    <3> QED
      BY <3>1, <3>2
  <2>2. ASSUME NEW u \in Views, parent[u] # Nobody, NEW y \in V, Only(parent[u], y)
        PROVE  Only(u, step[<<u, y>>])
    <3>1. <<u, step[<<u, y>>]>> \in R
      BY <1>1, <2>2
    <3>2. ASSUME NEW z \in V, <<u, z>> \in R, z # step[<<u, y>>] PROVE FALSE
      <4>1. Closed(R \ {<<u, z>>})
        <5>1. \A x \in V : <<parent[u], x>> \in R => x = y
          BY <2>2
        <5> HIDE DEF R
        <5>2. \A w \in Views : parent[w] = Nobody => <<w, base[w]>> \in R \ {<<u, z>>}
           BY <1>1, <2>2
        <5>3. \A w \in Views, x \in V : <<parent[w], x>> \in R \ {<<u, z>>} => <<w, step[<<w, x>>]>> \in R \ {<<u, z>>}
           BY <1>1, <5>1, <3>2
        <5> QED
          BY <5>2, <5>3
      <4> QED
        BY <1>2, <3>2, <4>1
    <3> QED
      BY <3>1, <3>2
  <2>3. \A u \in Views : parent[u] \in S \cup {Nobody} => u \in S
    <3> HIDE DEF R
    <3>1. SUFFICES ASSUME NEW u \in Views, parent[u] \in S \cup {Nobody} PROVE u \in S
      OBVIOUS
    <3>2. CASE parent[u] = Nobody
      BY <2>1, <3>2
    <3>3. CASE parent[u] # Nobody
      <4>1. PICK y \in V : Only(parent[u], y)
        BY <3>1, <3>3
      <4>2. Only(u, step[<<u, y>>])
        BY <2>2, <3>3, <4>1
      <4>3. step[<<u, y>>] \in V
        OBVIOUS
      <4> HIDE DEF Only
      <4> QED
        BY <4>2, <4>3
    <3> QED
      BY <3>2, <3>3
  <2> HIDE DEF S
  <2>4. Views \subseteq S
    BY <2>3, ParentInduction
  <2> QED
    BY <2>4 DEF S
<1> DEFINE f == [v \in Views |-> CHOOSE y \in V : <<v, y>> \in R]
<1> HIDE DEF R
<1>4. ASSUME NEW v \in Views, NEW y \in V, <<v, y>> \in R PROVE f[v] = y
  <2>1. PICK z \in V : Only(v, z)
    BY <1>3
  <2> QED
    BY <1>4, <2>1
<1>5. ASSUME NEW v \in Views PROVE f[v] \in V /\ <<v, f[v]>> \in R
  BY <1>3
<1>6. ASSUME NEW v \in Views PROVE 
               f[v] = IF parent[v] = Nobody THEN base[v]
                                            ELSE step[<<v, f[parent[v]]>>]
  <2>1. CASE parent[v] = Nobody
    <3>1. <<v, base[v]>> \in R
      BY <1>1, <2>1
    <3> QED
      BY <1>4, <2>1, <3>1
  <2>2. CASE parent[v] # Nobody
    <3>1. parent[v] \in Views
      BY <2>2 DEF Tree
    <3>2. f[parent[v]] \in V /\ <<parent[v], f[parent[v]]>> \in R
      BY <1>5, <3>1
    <3> HIDE DEF f
    <3>3. <<v, step[<<v, f[parent[v]]>>]>> \in R
      BY <1>1, <3>2
    <3>4. step[<<v, f[parent[v]]>>] \in V
      BY <3>2
    <3> QED
      BY <1>4, <2>2, <3>3, <3>4
  <2> QED
    BY <2>1, <2>2
<1>7. f \in [Views -> V]
  BY <1>5
<1> HIDE DEF f
<1> QED
  BY <1>6, <1>7 DEF Follows

\* Root is what its definition says.
LEMMA RootRecursion ==
    ASSUME Tree
    PROVE  \A v \in Views : Root[v] = IF parent[v] = Nobody THEN v ELSE Root[parent[v]]
<1> DEFINE base == [v \in Views |-> v]
           step == [q \in Views \X Views |-> q[2]]
<1>1. PICK f \in [Views -> Views] : Follows(f, base, step)
  <2>1. base \in [Views -> Views] /\ step \in [Views \X Views -> Views]
    OBVIOUS
  <2> HIDE DEF base, step
  <2> QED
    BY <2>1, ParentRecursion
<1>2. f = [v \in Views |-> IF parent[v] = Nobody THEN v ELSE f[parent[v]]]
  <2>1. ASSUME NEW v \in Views PROVE f[v] = IF parent[v] = Nobody THEN v ELSE f[parent[v]]
    <3>1. CASE parent[v] = Nobody
      BY <1>1, <3>1 DEF Follows
    <3>2. CASE parent[v] # Nobody
      <4>1. <<v, f[parent[v]]>> \in Views \X Views
        BY <3>2 DEF Tree
      <4>2. step[<<v, f[parent[v]]>>] = f[parent[v]]
        BY <4>1
      <4> QED
        BY <1>1, <3>2, <4>2 DEF Follows
    <3> QED
      BY <3>1, <3>2
  <2> QED
    BY <2>1
<1>3. Root = [v \in Views |-> IF parent[v] = Nobody THEN v ELSE Root[parent[v]]]
  BY <1>2, Zenon DEF Root
<1> QED
  BY <1>3, Zenon

\* The part of the types that positions depend on.
Measures == insets \in [Views -> Nat]

\* So is Abs, the positions of abs_x() and abs_y(), and these are integers.
LEMMA AbsRecursion ==
    ASSUME Tree, Measures
    PROVE  /\ Abs \in [Views -> Int \X Int]
           /\ \A v \in Views :
                Abs[v] = IF parent[v] = Nobody
                         THEN <<Place[v].x, Place[v].y>>
                         ELSE <<Abs[parent[v]][1] + insets[parent[v]] + Place[v].x,
                                Abs[parent[v]][2] + insets[parent[v]] + Place[v].y>>
<1> DEFINE base == [v \in Views |-> <<0 + Place[v].x, 0 + Place[v].y>>]
           step == [q \in Views \X (Int \X Int) |->
                      <<q[2][1] + insets[parent[q[1]]] + Place[q[1]].x,
                        q[2][2] + insets[parent[q[1]]] + Place[q[1]].y>>]
           at(v, a) == <<a[1] + insets[parent[v]] + Place[v].x,
                         a[2] + insets[parent[v]] + Place[v].y>>
           inner == [q \in Views \X (Int \X Int) |->
                      IF parent[q[1]] = Nobody THEN <<0, 0>> ELSE at(q[1], q[2])]
<1>1. \A v \in Views : Place[v].x \in Nat /\ Place[v].y \in Nat
  BY PlaceAssumption
<1>2. PICK f \in [Views -> Int \X Int] : Follows(f, base, inner)
  <2>1. base \in [Views -> Int \X Int]
    BY <1>1
  <2>2. inner \in [Views \X (Int \X Int) -> Int \X Int]
    <3>1. ASSUME NEW v \in Views, NEW a \in Int \X Int, parent[v] # Nobody
          PROVE  at(v, a) \in Int \X Int
      <4>1. insets[parent[v]] \in Nat
        BY <3>1 DEF Tree, Measures
      <4> QED
        BY <1>1, <4>1
    <3> HIDE DEF at
    <3>2. <<0, 0>> \in Int \X Int
      OBVIOUS
    <3> QED
      BY <3>1, <3>2
  <2> HIDE DEF base, inner
  <2> QED
    BY <2>1, <2>2, ParentRecursion
<1>3. \A v \in Views :
        f[v] = IF parent[v] = Nobody THEN base[v] ELSE at(v, f[parent[v]])
  <2>1. SUFFICES ASSUME NEW v \in Views, parent[v] # Nobody
                 PROVE  inner[<<v, f[parent[v]]>>] = at(v, f[parent[v]])
    BY <1>2 DEF Follows
  <2>2. <<v, f[parent[v]]>> \in Views \X (Int \X Int)
    BY <2>1 DEF Tree
  <2> HIDE DEF at
  <2> QED
    BY <2>1, <2>2
<1> DEFINE P(g, v) == LET b == IF parent[v] = Nobody
                THEN <<0, 0>>
                ELSE <<g[parent[v]][1] + insets[parent[v]],
                       g[parent[v]][2] + insets[parent[v]]>>
    IN  <<b[1] + Place[v].x, b[2] + Place[v].y>>
<1>4. ASSUME NEW g, NEW v \in Views
      PROVE  P(g, v) = IF parent[v] = Nobody THEN base[v] ELSE at(v, g[parent[v]])
  OBVIOUS
<1>5. f = [v \in Views |-> P(f, v)]
  <2> HIDE DEF P, base, at
  <2> QED
    BY <1>3, <1>4
<1>6. Abs = [v \in Views |-> P(Abs, v)]
  BY <1>5, Zenon DEF Abs
<1>7. \A v \in Views :
        Abs[v] = IF parent[v] = Nobody THEN base[v] ELSE at(v, Abs[parent[v]])
  <2> HIDE DEF P, base, at
  <2> QED
    BY <1>4, <1>6
<1>8. Abs \in [Views -> Int \X Int]
  <2> DEFINE S == {v \in Views : Abs[v] \in Int \X Int}
  <2>1. ASSUME NEW v \in Views, parent[v] \in S \cup {Nobody} PROVE v \in S
    <3>1. CASE parent[v] = Nobody
      <4>1. base[v] \in Int \X Int
        BY <1>1
      <4> HIDE DEF base
      <4> QED
        BY <1>7, <3>1, <4>1
    <3>2. CASE parent[v] # Nobody
      <4>1. parent[v] \in Views /\ Abs[parent[v]] \in Int \X Int
        BY <2>1, <3>2
      <4>2. insets[parent[v]] \in Nat
        BY <4>1 DEF Measures
      <4>3. at(v, Abs[parent[v]]) \in Int \X Int
        BY <1>1, <4>1, <4>2
      <4> QED
        BY <1>7, <3>2, <4>3
    <3> QED
      BY <3>1, <3>2
  <2> HIDE DEF S
  <2>2. Views \subseteq S
    BY <2>1, ParentInduction
  <2>3. \A v \in Views : Abs[v] \in Int \X Int
    BY <2>2 DEF S
  <2> HIDE DEF P
  <2> QED
    BY <1>6, <2>3
<1> QED
  BY <1>1, <1>7, <1>8

\* As a program hands a viewport to none below it, the tree remains one.
LEMMA AddChildKeepsTree ==
    ASSUME Tree, NEW v \in Views, NEW c \in Views, AddChild(v, c)
    PROVE  Tree'
<1>1. /\ parent[c] = Nobody /\ Root[v] # c
      /\ parent' = [parent EXCEPT ![c] = v]
  BY DEF AddChild
<1>2. parent' \in [Views -> Views \cup {Nobody}]
  BY <1>1 DEF Tree
<1>3. ASSUME NEW T \in SUBSET Views, \A u \in T : parent'[u] \in T
      PROVE  T = {}
  <2> DEFINE U == {u \in T : Root[u] # c}
  <2>1. \A u \in U : parent[u] \in U
    <3>1. SUFFICES ASSUME NEW u \in U PROVE parent[u] \in U
      OBVIOUS
    <3>2. u # c
      BY <1>1, RootRecursion
    <3>3. parent'[u] = parent[u] /\ parent[u] \in T
      BY <1>1, <1>3, <3>2 DEF Tree
    <3>4. parent[u] # Nobody
      BY <3>3, ViewAssumption
    <3>5. Root[u] = Root[parent[u]]
      BY <3>4, RootRecursion
    <3> QED
      BY <3>3, <3>5
  <2>2. U = {}
    BY <2>1 DEF Tree, Acyclic
  <2>3. v \notin T
    BY <1>1, <2>2
  <2>4. c \notin T
    BY <1>1, <1>3, <2>3 DEF Tree
  <2>5. \A u \in T : parent[u] \in T
    BY <1>1, <1>3, <2>4 DEF Tree
  <2> QED
    BY <2>5 DEF Tree, Acyclic
<1>4. Acyclic'
  BY <1>3 DEF Acyclic
<1> QED
  BY <1>2, <1>4 DEF Tree

-----------------------------------------------------------------------------
(* Types.  TypeOK is inductive together with those of the buffers, of the  *)
(* calls to come and of what the holders of snapshots keep.                *)
Sized(w, h) == [w : {w}, h : {h}, cell : [Area(0, 0, w, h) -> Cell]]
Buffers == UNION {Sized(s[1], s[2]) : s \in Nat \X Nat}

\* What todo consists of.
Calls == [of : {"console"}, x : Int, y : Int, buf : Buffers]
            \cup [of : {"viewport"}, view : Views]

\* What a holder is owed, and what it holds.
Claims == UNION {[S -> Cell] : S \in SUBSET Points}

Entries == [view : Views, border : Buffers, client : Buffers, was : Claims]

Shapes ==
    /\ TypeOK
    /\ Acyclic
    /\ canvas \in [Views -> Buffers]
    /\ todo \in Seq(Calls)
    /\ open \in Seq(Entries)
    /\ closed \in Seq(Entries)

\* Membership in Buffers, in both directions.
LEMMA BufferShape ==
    ASSUME NEW w \in Nat, NEW h \in Nat,
           NEW cell \in [Area(0, 0, w, h) -> Cell]
    PROVE  [w |-> w, h |-> h, cell |-> cell] \in Buffers
<1>1. [w |-> w, h |-> h, cell |-> cell]
        \in Sized(w, h)
  BY DEF Sized
<1>2. Sized(w, h) \in {Sized(s[1], s[2]) : s \in Nat \X Nat}
  <2>1. <<w, h>> \in Nat \X Nat /\ Sized(<<w, h>>[1], <<w, h>>[2]) = Sized(w, h)
    OBVIOUS
  <2> QED
    BY <2>1, Zenon
<1> QED
  BY <1>1, <1>2, Zenon DEF Buffers

LEMMA BufferParts ==
    ASSUME NEW b \in Buffers
    PROVE  /\ b = [w |-> b.w, h |-> b.h, cell |-> b.cell]
           /\ b.w \in Nat /\ b.h \in Nat
           /\ b.cell \in [Area(0, 0, b.w, b.h) -> Cell]
<1>1. PICK s \in Nat \X Nat : b \in Sized(s[1], s[2])
  BY Zenon DEF Buffers
<1>2. b.w = s[1] /\ b.h = s[2]
  BY <1>1 DEF Sized
<1> QED
  BY <1>1, <1>2 DEF Sized

LEMMA FilledIsBuffer ==
    ASSUME NEW w \in Nat, NEW h \in Nat, NEW c \in Cell
    PROVE  Filled(w, h, c) \in Buffers
<1>1. [p \in Area(0, 0, w, h) |-> c] \in [Area(0, 0, w, h) -> Cell]
  OBVIOUS
<1> QED
  BY <1>1, BufferShape DEF Filled

LEMMA NothingIsBuffer == Nothing \in Buffers
  BY FilledIsBuffer DEF Nothing, Cell

\* A buffer with a position: what a call of Console::present() is given.
LEMMA PlacedIsCall ==
    ASSUME NEW at \in Int \X Int, NEW b \in Buffers
    PROVE  /\ Placed(at, b) \in Calls
           /\ Placed(at, b) \in [of : {"console"}, x : Int, y : Int, buf : Buffers]
  BY DEF Placed, Calls

\* The cells that Paint reads from a drawing are cells of its buffer.
LEMMA PaintKeepsCells ==
    ASSUME NEW D \in SUBSET (Int \X Int), NEW grid \in [D -> Cell],
           NEW d \in [of : {"console"}, x : Int, y : Int, buf : Buffers]
    PROVE  Paint(grid, d) \in [D -> Cell]
<1>1. d.buf \in Buffers /\ d.x \in Int /\ d.y \in Int
  OBVIOUS
<1>2. /\ d.buf.w \in Nat /\ d.buf.h \in Nat
      /\ d.buf.cell \in [Area(0, 0, d.buf.w, d.buf.h) -> Cell]
  BY <1>1, BufferParts
<1>3. ASSUME NEW p \in D, p \in Covered(d)
      PROVE  d.buf.cell[<<p[1] - d.x, p[2] - d.y>>] \in Cell
  <2>1. <<p[1] - d.x, p[2] - d.y>> \in Area(0, 0, d.buf.w, d.buf.h)
    BY <1>1, <1>2, <1>3 DEF Covered, Area
  <2> QED
    BY <1>2, <2>1
<1>4. ASSUME NEW p \in D PROVE Paint(grid, d)[p] \in Cell
  <2>1. CASE p \in Covered(d)
    BY <1>3, <2>1 DEF Paint
  <2>2. CASE p \notin Covered(d)
    BY <2>2 DEF Paint
  <2> QED
    BY <2>1, <2>2
<1>5. DOMAIN Paint(grid, d) = D /\ Paint(grid, d) = [p \in D |-> Paint(grid, d)[p]]
  BY DEF Paint
<1> HIDE DEF Paint
<1> QED
  BY <1>4, <1>5

LEMMA AreaOfPlane ==
    ASSUME NEW x, NEW y, NEW w, NEW h
    PROVE  Area(x, y, w, h) \subseteq Int \X Int
  BY DEF Area

\* A captured region has the size that was asked for, on the console or not.
LEMMA CaptureIsBuffer ==
    ASSUME TypeOK, NEW at, NEW w \in Nat, NEW h \in Nat,
           NEW readable \in BOOLEAN
    PROVE  Capture(at, w, h, readable) \in Buffers
<1> DEFINE read(q) == IF readable THEN Buffered(q) ELSE Shadowed(q)
           cell == [p \in Area(0, 0, w, h) |->
                      read(<<at[1] + p[1], at[2] + p[2]>>)]
<1>1. \A q : Buffered(q) \in Cell
  <2>1. screen \in [Points -> Cell] /\ Unknown \in Cell
    BY DEF TypeOK, Cell
  <2> QED
    BY ONLY <2>1 DEF Buffered
<1>2. \A q : Shadowed(q) \in Cell
  BY DEF TypeOK, Shadowed, Cell
<1>3. \A q : read(q) \in Cell
  BY <1>1, <1>2
<1> HIDE DEF read
<1>4. cell \in [Area(0, 0, w, h) -> Cell]
  BY <1>3
<1>5. [w |-> w, h |-> h, cell |-> cell] \in Buffers
  BY <1>4, BufferShape
<1> QED
  BY <1>5, Zenon DEF Capture, cell, read

LEMMA ClientSize ==
    ASSUME Measures, NEW v \in Views
    PROVE  /\ ClientWidth(v) \in Nat /\ ClientHeight(v) \in Nat
           /\ ClientWidth(v) = Larger(0, Place[v].w - 2 * insets[v])
           /\ Place[v].w \in Nat \ {0} /\ Place[v].h \in Nat \ {0}
           /\ insets[v] \in Nat
<1>1. Place[v].w \in Nat \ {0} /\ Place[v].h \in Nat \ {0} /\ insets[v] \in Nat
  BY PlaceAssumption DEF Measures
<1> QED
  BY <1>1 DEF ClientWidth, ClientHeight, Larger

LEMMA ShapesGiveTree == Shapes => Tree /\ Measures
  BY DEF Shapes, Tree, Measures, TypeOK

LEMMA Positions ==
    ASSUME Shapes, NEW v \in Views
    PROVE  Abs[v] \in Int \X Int /\ ClientAbs(v) \in Int \X Int
<1>1. Abs[v] \in Int \X Int
  BY ShapesGiveTree, AbsRecursion
<1>2. insets[v] \in Nat
  BY ShapesGiveTree, ClientSize
<1> QED
  BY <1>1, <1>2 DEF ClientAbs

\* present() of a viewport asks for frame, canvas and children.
LEMMA DrawingIsCalls ==
    ASSUME Shapes, NEW v \in Views
    PROVE  Drawing(v) \in Seq(Calls)
<1>1. Frame(v) \in Seq(Calls)
  <2> DEFINE w == Place[v].w
             h == Place[v].h
             edge(p) == p[1] \in {0, w - 1} \/ p[2] \in {0, h - 1}
             lined == [p \in Area(0, 0, w, h) |->
                         IF Place[v].border /\ edge(p) THEN "+" ELSE Default]
  <2>1. lined \in [Area(0, 0, w, h) -> Cell]
    <3> HIDE DEF edge
    <3> QED
      BY DEF Cell
  <2>2. w \in Nat /\ h \in Nat
    BY ShapesGiveTree, ClientSize
  <2> HIDE DEF w, h, lined
  <2>3. Placed(Abs[v], [w |-> w, h |-> h, cell |-> lined]) \in Calls
    BY <2>1, <2>2, BufferShape, Positions, PlacedIsCall
  <2>4. \/ Frame(v) = <<>>
        \/ Frame(v) = <<Placed(Abs[v], [w |-> w, h |-> h, cell |-> lined])>>
    <3>1. CASE ~Place[v].border /\ insets[v] = 0
      BY <3>1 DEF Frame
    <3>2. CASE ~(~Place[v].border /\ insets[v] = 0)
      <4>1. Frame(v) = <<Placed(Abs[v], [w |-> w, h |-> h, cell |-> lined])>>
        BY <3>2, Zenon DEF Frame, w, h, lined
      <4> QED
        BY <4>1
    <3> QED
      BY <3>1, <3>2
  <2> DEFINE d == Placed(Abs[v], [w |-> w, h |-> h, cell |-> lined])
  <2> HIDE DEF d
  <2>5. d \in Calls => <<d>> \in Seq(Calls)
    OBVIOUS
  <2>6. <<>> \in Seq(Calls)
    OBVIOUS
  <2> QED
    BY <2>3, <2>4, <2>5, <2>6, Zenon DEF d
<1>2. Placed(ClientAbs(v), canvas[v]) \in Calls
  BY Positions, PlacedIsCall DEF Shapes
<1> DEFINE below == [i \in DOMAIN children[v] |->
                       [of |-> "viewport", view |-> children[v][i]]]
<1>3. below \in Seq(Calls)
  <2>1. children[v] \in Seq(Views)
    BY DEF Shapes, TypeOK
  <2>2. ASSUME NEW i \in DOMAIN children[v]
        PROVE  [of |-> "viewport", view |-> children[v][i]] \in Calls
    BY <2>1 DEF Calls
  <2> QED
    BY <2>1, <2>2
<1> HIDE DEF below
<1>4. Frame(v) \o <<Placed(ClientAbs(v), canvas[v])>> \in Seq(Calls)
  BY <1>1, <1>2
<1>5. (Frame(v) \o <<Placed(ClientAbs(v), canvas[v])>>) \o below \in Seq(Calls)
  BY <1>3, <1>4
<1> QED
  BY <1>5 DEF Drawing, below

LEMMA InitShapes == Init => Shapes
<1>1. SUFFICES ASSUME Init PROVE Shapes
  OBVIOUS
<1>2. insets \in [Views -> Nat] /\ origin \in Origins
  BY <1>1, PlaceAssumption DEF Init
<1>3. TypeOK
  <2>1. screen \in [Points -> Cell]
    BY <1>1, BeforeAssumption DEF Init
  <2>2. /\ shadow.w = 0 /\ shadow.h = 0
        /\ shadow.cell = <<>>
    BY <1>1 DEF Init
  <2>3. shadow.cell \in [Area(1, 1, shadow.w, shadow.h) -> Cell]
    <3>1. Area(1, 1, 0, 0) = {}
      BY DEF Area
    <3>2. <<>> \in [{} -> Cell]
      OBVIOUS
    <3> QED
      BY <2>2, <3>1, <3>2
  <2>4. parent \in [Views -> Views \cup {Nobody}]
    BY <1>1 DEF Init
  <2>5. children \in [Views -> Seq(Views)]
    BY <1>1 DEF Init
  <2> QED
    BY <1>2, <2>1, <2>2, <2>3, <2>4, <2>5 DEF TypeOK
<1>4. Acyclic
  BY <1>1, ViewAssumption DEF Init, Acyclic
<1>5. canvas \in [Views -> Buffers]
  <2>1. ASSUME NEW v \in Views
        PROVE  Filled(ClientWidth(v), ClientHeight(v), Default) \in Buffers
    BY <1>2, ClientSize, FilledIsBuffer DEF Measures, Cell
  <2> QED
    BY <1>1, <2>1 DEF Init
<1> QED
  BY <1>1, <1>3, <1>4, <1>5 DEF Init, Shapes

\* The entries of open keep their captured regions; only claims are given up.
LEMMA SpoilParts ==
    ASSUME open \in Seq(Entries), NEW S
    PROVE  /\ Spoil(S) \in Seq(Entries)
           /\ Len(Spoil(S)) = Len(open)
           /\ \A i \in 1..Len(open) :
                /\ Spoil(S)[i].view = open[i].view
                /\ Spoil(S)[i].border = open[i].border
                /\ Spoil(S)[i].client = open[i].client
                /\ DOMAIN Spoil(S)[i].was
                     = DOMAIN open[i].was \ (S \ Extent(open[i].view))
                /\ \A p \in DOMAIN Spoil(S)[i].was :
                     Spoil(S)[i].was[p] = open[i].was[p]
<1>1. ASSUME NEW e \in Entries, NEW X
      PROVE  /\ Restrict(e.was, DOMAIN e.was \ X)
                  = [p \in DOMAIN e.was \ X |-> e.was[p]]
             /\ [p \in DOMAIN e.was \ X |-> e.was[p]] \in Claims
  <2>1. PICK D \in SUBSET Points : e.was \in [D -> Cell]
    BY DEF Entries, Claims
  <2>2. [p \in DOMAIN e.was \ X |-> e.was[p]] \in [D \ X -> Cell]
    BY <2>1
  <2>3. D \ X \in SUBSET Points
    OBVIOUS
  <2> QED
    BY <2>2, <2>3 DEF Claims, Restrict
<1> DEFINE after(e) == [e EXCEPT !.was = Restrict(@, DOMAIN @ \ (S \ Extent(e.view)))]
<1>2. ASSUME NEW e \in Entries
      PROVE  /\ after(e) \in Entries
             /\ after(e).view = e.view
             /\ after(e).border = e.border
             /\ after(e).client = e.client
             /\ DOMAIN after(e).was = DOMAIN e.was \ (S \ Extent(e.view))
             /\ \A p \in DOMAIN after(e).was : after(e).was[p] = e.was[p]
  <2>1. after(e).was = [p \in DOMAIN e.was \ (S \ Extent(e.view)) |-> e.was[p]]
    BY <1>1 DEF Entries
  <2>2. /\ after(e) \in Entries
        /\ after(e).view = e.view
        /\ after(e).border = e.border
        /\ after(e).client = e.client
    BY <1>1 DEF Entries
  <2> HIDE DEF after
  <2> QED
    BY <2>1, <2>2
<1>3. /\ DOMAIN open = 1..Len(open) /\ Len(open) \in Nat
      /\ \A i \in 1..Len(open) : open[i] \in Entries
  OBVIOUS
<1>4. Spoil(S) = [i \in 1..Len(open) |-> after(open[i])]
  BY <1>3 DEF Spoil
<1> HIDE DEF after
<1>5. Spoil(S) \in Seq(Entries) /\ Len(Spoil(S)) = Len(open)
  <2>1. \A i \in 1..Len(open) : after(open[i]) \in Entries
    BY <1>2, <1>3
  <2> DEFINE at(i) == after(open[i])
  <2> HIDE DEF at
  <2>2. \A i \in 1..Len(open) : at(i) \in Entries
    BY <2>1 DEF at
  <2>3. [i \in 1..Len(open) |-> at(i)] \in Seq(Entries)
    BY <1>3, <2>2
  <2>4. Spoil(S) = [i \in 1..Len(open) |-> at(i)]
    BY <1>4, Zenon DEF at
  <2> QED
    BY <1>3, <2>3, <2>4
<1> QED
  BY <1>2, <1>3, <1>4, <1>5

\* Both ends of a sequence.
LEMMA LastParts ==
    ASSUME NEW T, NEW s \in Seq(T), s # <<>>
    PROVE  /\ Last(s) \in T /\ Front(s) \in Seq(T)
           /\ Len(s) \in Nat \ {0}
           /\ Last(s) = s[Len(s)]
           /\ Len(Front(s)) = Len(s) - 1
           /\ \A i \in 1..Len(s) - 1 : Front(s)[i] = s[i]
<1>1. Len(s) \in Nat \ {0} /\ s[Len(s)] \in T
  OBVIOUS
<1>2. /\ SubSeq(s, 1, Len(s) - 1) \in Seq(T)
      /\ Len(SubSeq(s, 1, Len(s) - 1)) = Len(s) - 1
      /\ \A i \in 1..Len(s) - 1 : SubSeq(s, 1, Len(s) - 1)[i] = s[i]
  BY <1>1, SubSeqProperties
<1> QED
  BY <1>1, <1>2, Zenon DEF Last, Front

LEMMA HeadParts ==
    ASSUME NEW T, NEW s \in Seq(T), s # <<>>
    PROVE  /\ Head(s) \in T /\ Tail(s) \in Seq(T)
           /\ Head(s) = s[1]
           /\ Len(s) \in Nat \ {0}
           /\ Len(Tail(s)) = Len(s) - 1
           /\ \A i \in 1..Len(s) - 1 : Tail(s)[i] = s[i + 1]
  OBVIOUS

\* Nearly every call leaves the types of most variables alone.
LEMMA OthersKeepTypes ==
    ASSUME Shapes, UNCHANGED <<consoleVars, insets, parent, children>>
    PROVE  TypeOK' /\ Acyclic'
  BY DEF Shapes, TypeOK, Acyclic, consoleVars, Points

LEMMA NoEntries == <<>> \in Seq(Entries)
  OBVIOUS

\* One lemma for each action.
\* A buffer that has been stored in the shadow buffer leaves it a buffer.
LEMMA StoredShape ==
    ASSUME TypeOK, NEW d \in [of : {"console"}, x : Int, y : Int, buf : Buffers]
    PROVE  /\ Stored(d).w \in Nat /\ Stored(d).h \in Nat
           /\ Stored(d).cell \in [Area(1, 1, Stored(d).w, Stored(d).h) -> Cell]
           /\ DOMAIN Stored(d).cell = Area(1, 1, Stored(d).w, Stored(d).h)
           /\ Stored(d).w = Larger(shadow.w, d.x - 1 + d.buf.w)
           /\ Stored(d).h = Larger(shadow.h, d.y - 1 + d.buf.h)
           /\ Stored(d).w >= d.x - 1 + d.buf.w
           /\ Stored(d).h >= d.y - 1 + d.buf.h
<1> DEFINE w == Larger(shadow.w, d.x - 1 + d.buf.w)
           h == Larger(shadow.h, d.y - 1 + d.buf.h)
           blank == [p \in Area(1, 1, w, h) |-> Default]
<1>1. /\ w \in Nat /\ h \in Nat
      /\ w >= d.x - 1 + d.buf.w /\ h >= d.y - 1 + d.buf.h
  <2>1. shadow.w \in Nat /\ shadow.h \in Nat
    BY DEF TypeOK
  <2>2. d.x \in Int /\ d.y \in Int /\ d.buf.w \in Nat /\ d.buf.h \in Nat
    BY BufferParts
  <2> QED
    BY <2>1, <2>2 DEF Larger
<1>2. blank \in [Area(1, 1, w, h) -> Cell]
  BY DEF Cell
<1>3. Stored(d) = [w |-> w, h |-> h, cell |-> Paint(blank, d)]
  BY Zenon DEF Stored
<1> HIDE DEF blank
<1>4. Paint(blank, d) \in [Area(1, 1, w, h) -> Cell]
  BY <1>2, AreaOfPlane, PaintKeepsCells
<1>5. Stored(d).w = w /\ Stored(d).h = h /\ Stored(d).cell = Paint(blank, d)
  BY <1>3
<1> HIDE DEF w, h
<1>6. /\ Stored(d).w \in Nat /\ Stored(d).h \in Nat
      /\ Stored(d).cell \in [Area(1, 1, Stored(d).w, Stored(d).h) -> Cell]
      /\ DOMAIN Stored(d).cell = Area(1, 1, Stored(d).w, Stored(d).h)
  BY <1>1, <1>4, <1>5
<1> QED
  BY <1>1, <1>5, <1>6 DEF w, h

\* The call of Console::present() at the head of todo.
LEMMA HeadIsCall ==
    ASSUME Shapes, todo # <<>>, Head(todo).of = "console"
    PROVE  Head(todo) \in [of : {"console"}, x : Int, y : Int, buf : Buffers]
<1>1. Head(todo) \in Calls
  BY HeadParts DEF Shapes
<1> QED
  BY <1>1 DEF Calls

LEMMA DrawKeepsShapes == ASSUME Shapes, Draw PROVE Shapes'
<1> DEFINE d == Head(todo)
<1>1. /\ todo # <<>> /\ d.of = "console"
      /\ screen' = Paint(screen, d)
      /\ shadow' = Stored(d)
      /\ todo' = Tail(todo)
      /\ open' = DrawSpoils
      /\ UNCHANGED <<origin, treeVars, closed>>
  BY DEF Draw
<1>2. d \in [of : {"console"}, x : Int, y : Int, buf : Buffers]
  BY <1>1, HeadIsCall
<1> HIDE DEF d
<1>3. Paint(screen, d) \in [Points -> Cell]
  <2>1. Points \in SUBSET (Int \X Int)
    BY DEF Points
  <2>2. screen \in [Points -> Cell]
    BY DEF Shapes, TypeOK
  <2> QED
    BY <1>2, <2>1, <2>2, PaintKeepsCells
<1>4. /\ shadow'.w \in Nat /\ shadow'.h \in Nat
      /\ shadow'.cell \in [Area(1, 1, shadow'.w, shadow'.h) -> Cell]
  BY <1>1, <1>2, StoredShape DEF Shapes
<1>5. TypeOK'
  BY <1>1, <1>3, <1>4 DEF Shapes, TypeOK, treeVars, Points
<1>6. open' \in Seq(Entries)
  BY <1>1, SpoilParts DEF Shapes, DrawSpoils
<1>7. todo' \in Seq(Calls)
  BY <1>1, HeadParts DEF Shapes
<1> QED
  BY <1>1, <1>5, <1>6, <1>7 DEF Shapes, treeVars, Acyclic

\* Entries without claims.
LEMMA WaivedParts ==
    ASSUME NEW s \in Seq(Entries)
    PROVE  /\ Waived(s) \in Seq(Entries) /\ Len(Waived(s)) = Len(s)
           /\ \A i \in 1..Len(s) : /\ Waived(s)[i].view = s[i].view
                                   /\ Waived(s)[i].border = s[i].border
                                   /\ Waived(s)[i].client = s[i].client
                                   /\ DOMAIN Waived(s)[i].was = {}
<1> DEFINE after(e) == [e EXCEPT !.was = <<>>]
<1>1. <<>> \in Claims /\ DOMAIN <<>> = {}
  <2>1. <<>> \in [{} -> Cell] /\ {} \in SUBSET Points
    OBVIOUS
  <2> QED
    BY <2>1, Zenon DEF Claims
<1>2. ASSUME NEW e \in Entries
      PROVE  /\ after(e) \in Entries
             /\ after(e).view = e.view /\ after(e).border = e.border
             /\ after(e).client = e.client /\ DOMAIN after(e).was = {}
  BY <1>1 DEF Entries
<1>3. /\ DOMAIN s = 1..Len(s) /\ Len(s) \in Nat
      /\ \A i \in 1..Len(s) : s[i] \in Entries
  OBVIOUS
<1>4. Waived(s) = [i \in 1..Len(s) |-> after(s[i])]
  BY <1>3 DEF Waived
<1> HIDE DEF after
<1>5. \A i \in 1..Len(s) : after(s[i]) \in Entries
  BY <1>2, <1>3
<1> DEFINE at(i) == after(s[i])
<1> HIDE DEF at
<1>6. [i \in 1..Len(s) |-> at(i)] \in Seq(Entries)
  <2>1. \A i \in 1..Len(s) : at(i) \in Entries
    BY <1>5 DEF at
  <2> QED
    BY <1>3, <2>1
<1>7. Waived(s) = [i \in 1..Len(s) |-> at(i)]
  BY <1>4, Zenon DEF at
<1>8. Waived(s) \in Seq(Entries) /\ Len(Waived(s)) = Len(s)
  BY <1>3, <1>6, <1>7
<1> QED
  BY <1>2, <1>3, <1>4, <1>8

LEMMA DrawBeyondKeepsShapes == ASSUME Shapes, DrawBeyond PROVE Shapes'
<1> DEFINE d == Head(todo)
<1>1. /\ todo # <<>> /\ d.of = "console"
      /\ screen' = [p \in Points |-> Unknown] /\ origin' \in Origins
      /\ shadow' = Stored(d)
      /\ todo' = Tail(todo)
      /\ open' = Waived(open) /\ closed' = Waived(closed)
      /\ UNCHANGED treeVars
  BY DEF DrawBeyond
<1>2. d \in [of : {"console"}, x : Int, y : Int, buf : Buffers]
  BY <1>1, HeadIsCall
<1> HIDE DEF d
<1>3. screen' \in [Points -> Cell]
  BY <1>1 DEF Cell
<1>4. /\ shadow'.w \in Nat /\ shadow'.h \in Nat
      /\ shadow'.cell \in [Area(1, 1, shadow'.w, shadow'.h) -> Cell]
  BY <1>1, <1>2, StoredShape DEF Shapes
<1>5. TypeOK'
  BY <1>1, <1>3, <1>4 DEF Shapes, TypeOK, treeVars, Points
<1>6. open' \in Seq(Entries) /\ closed' \in Seq(Entries)
  BY <1>1, WaivedParts DEF Shapes
<1>7. todo' \in Seq(Calls)
  BY <1>1, HeadParts DEF Shapes
<1> QED
  BY <1>1, <1>5, <1>6, <1>7 DEF Shapes, treeVars, Acyclic

LEMMA DescendKeepsShapes == ASSUME Shapes, Descend PROVE Shapes'
<1>1. /\ todo # <<>> /\ Head(todo).of = "viewport"
      /\ todo' = Drawing(Head(todo).view) \o Tail(todo)
      /\ UNCHANGED <<consoleVars, treeVars, open, closed>>
  BY DEF Descend
<1>2. Head(todo).view \in Views /\ Tail(todo) \in Seq(Calls)
  BY <1>1, HeadParts DEF Shapes, Calls
<1>3. Drawing(Head(todo).view) \in Seq(Calls)
  BY <1>2, DrawingIsCalls
<1>4. todo' \in Seq(Calls)
  BY <1>1, <1>2, <1>3
<1> QED
  BY <1>1, <1>4, OthersKeepTypes DEF Shapes, treeVars

LEMMA SnapshotKeepsShapes ==
    ASSUME Shapes, NEW v \in Views, Snapshot(v)
    PROVE  Shapes'
<1>1. PICK wholeReadable \in BOOLEAN, clientReadable \in BOOLEAN :
        LET whole == Capture(Abs[v], Place[v].w, Place[v].h, wholeReadable)
            inner == Capture(ClientAbs(v), ClientWidth(v), ClientHeight(v),
                             clientReadable)
            held(buf) == IF v \in Provided THEN buf ELSE Nothing
            lost == IF v \notin Provided THEN Extent(v)
                    ELSE {p \in Extent(v) :
                            ~Right(p, IF p \in ClientExtent(v)
                                      THEN clientReadable
                                      ELSE wholeReadable)}
        IN  open' = Append(Spoil(lost),
                           [view |-> v,
                            border |-> held(whole),
                            client |-> held(inner),
                            was |-> Restrict(screen, Points \ lost)])
  BY DEF Snapshot
<1> DEFINE whole == Capture(Abs[v], Place[v].w, Place[v].h, wholeReadable)
           inner == Capture(ClientAbs(v), ClientWidth(v), ClientHeight(v),
                             clientReadable)
           held(buf) == IF v \in Provided THEN buf ELSE Nothing
           lost == IF v \notin Provided THEN Extent(v)
                    ELSE {p \in Extent(v) :
                            ~Right(p, IF p \in ClientExtent(v)
                                      THEN clientReadable
                                      ELSE wholeReadable)}
           entry == [view |-> v, border |-> held(whole),
                     client |-> held(inner),
                     was |-> Restrict(screen, Points \ lost)]
<1>2. open' = Append(Spoil(lost), entry)
  BY <1>1
<1> HIDE DEF lost
<1>3. whole \in Buffers /\ inner \in Buffers
  BY CaptureIsBuffer, ShapesGiveTree, ClientSize DEF Shapes
<1> HIDE DEF whole, inner
<1>4. Restrict(screen, Points \ lost) \in Claims
  <2>1. Restrict(screen, Points \ lost) \in [Points \ lost -> Cell]
    BY DEF Shapes, TypeOK, Restrict
  <2>2. Points \ lost \in SUBSET Points
    OBVIOUS
  <2> QED
    BY <2>1, <2>2 DEF Claims
<1>5. entry \in Entries
  <2>1. held(whole) \in Buffers /\ held(inner) \in Buffers
    BY <1>3, NothingIsBuffer
  <2> HIDE DEF held
  <2> QED
    BY <1>4, <2>1 DEF Entries
<1> HIDE DEF entry
<1>6. open' \in Seq(Entries)
  <2>1. Spoil(lost) \in Seq(Entries)
    BY SpoilParts DEF Shapes
  <2> QED
    BY <1>2, <1>5, <2>1
<1>7. UNCHANGED <<consoleVars, treeVars, todo>> /\ closed' = <<>>
  BY DEF Snapshot
<1> QED
  BY <1>6, <1>7, OthersKeepTypes, NoEntries DEF Shapes, treeVars

LEMMA RestoreKeepsShapes ==
    ASSUME Shapes, NEW v \in Views, Restore(v)
    PROVE  Shapes'
<1>1. /\ open # <<>> /\ Last(open).view = v
      /\ todo' = Shown(Abs[v], Last(open).border) \o Shown(ClientAbs(v), Last(open).client)
      /\ closed' = <<Last(open)>> /\ open' = Front(open)
      /\ UNCHANGED <<consoleVars, treeVars>>
  BY DEF Restore
<1>2. Last(open) \in Entries /\ Front(open) \in Seq(Entries)
  BY <1>1, LastParts DEF Shapes
<1>3. ASSUME NEW at \in Int \X Int, NEW b \in Buffers
      PROVE  Shown(at, b) \in Seq(Calls)
  BY PlacedIsCall DEF Shown
<1>4. Last(open).border \in Buffers /\ Last(open).client \in Buffers
  BY <1>2 DEF Entries
<1>5. todo' \in Seq(Calls)
  <2>1. /\ Shown(Abs[v], Last(open).border) \in Seq(Calls)
        /\ Shown(ClientAbs(v), Last(open).client) \in Seq(Calls)
    BY <1>3, <1>4, Positions
  <2> QED
    BY <1>1, <2>1
<1>6. closed' \in Seq(Entries) /\ open' \in Seq(Entries)
  BY <1>1, <1>2
<1> QED
  BY <1>1, <1>5, <1>6, OthersKeepTypes DEF Shapes, treeVars

LEMMA BlitKeepsShapes ==
    ASSUME Shapes, NEW v \in Views, NEW from \in Views, NEW at \in BlitAt,
           Blit(v, from, at)
    PROVE  Shapes'
<1> DEFINE d == Placed(at, canvas[from])
           b == canvas[v]
<1>1. /\ canvas' = [canvas EXCEPT ![v].cell = Paint(@, d)]
      /\ closed' = <<>>
      /\ UNCHANGED <<consoleVars, insets, parent, children, todo, open>>
  BY DEF Blit
<1>2. d \in [of : {"console"}, x : Int, y : Int, buf : Buffers]
  BY ViewAssumption, PlacedIsCall DEF Shapes
<1>3. /\ b = [w |-> b.w, h |-> b.h, cell |-> b.cell]
      /\ b.w \in Nat /\ b.h \in Nat
      /\ b.cell \in [Area(0, 0, b.w, b.h) -> Cell]
  BY BufferParts DEF Shapes
<1> HIDE DEF d
<1>4. Paint(b.cell, d) \in [Area(0, 0, b.w, b.h) -> Cell]
  BY <1>2, <1>3, AreaOfPlane, PaintKeepsCells
<1>5. [b EXCEPT !.cell = Paint(@, d)] = [w |-> b.w, h |-> b.h, cell |-> Paint(b.cell, d)]
  BY <1>3
<1>6. [b EXCEPT !.cell = Paint(@, d)] \in Buffers
  BY <1>3, <1>4, <1>5, BufferShape
<1>7. canvas' = [canvas EXCEPT ![v] = [b EXCEPT !.cell = Paint(@, d)]]
  BY <1>1
<1>8. canvas' \in [Views -> Buffers]
  BY <1>6, <1>7 DEF Shapes
<1> QED
  BY <1>1, <1>8, OthersKeepTypes, NoEntries DEF Shapes

LEMMA FillKeepsShapes ==
    ASSUME Shapes, NEW v \in Views, NEW g \in Glyphs, Fill(v, g)
    PROVE  Shapes'
<1>1. /\ canvas' = [canvas EXCEPT ![v] = Filled(@.w, @.h, g)]
      /\ closed' = <<>>
      /\ UNCHANGED <<consoleVars, insets, parent, children, todo, open>>
  BY DEF Fill
<1>2. Filled(canvas[v].w, canvas[v].h, g) \in Buffers
  <2>1. canvas[v].w \in Nat /\ canvas[v].h \in Nat
    BY BufferParts DEF Shapes
  <2>2. g \in Cell
    BY DEF Cell
  <2> QED
    BY <2>1, <2>2, FilledIsBuffer
<1>3. canvas' \in [Views -> Buffers]
  BY <1>1, <1>2 DEF Shapes
<1> QED
  BY <1>1, <1>3, OthersKeepTypes, NoEntries DEF Shapes

LEMMA AddChildKeepsShapes ==
    ASSUME Shapes, NEW v \in Views, NEW c \in Views, AddChild(v, c)
    PROVE  Shapes'
<1>1. /\ parent' = [parent EXCEPT ![c] = v]
      /\ children' = [children EXCEPT ![v] = Append(@, c)]
      /\ closed' = <<>>
      /\ UNCHANGED <<consoleVars, canvas, insets, todo, open>>
  BY DEF AddChild
<1>2. Tree'
  BY ShapesGiveTree, AddChildKeepsTree
<1>3. children' \in [Views -> Seq(Views)]
  <2>1. Append(children[v], c) \in Seq(Views)
    BY DEF Shapes, TypeOK
  <2> QED
    BY <1>1, <2>1 DEF Shapes, TypeOK
<1>4. TypeOK'
  BY <1>1, <1>2, <1>3 DEF Shapes, TypeOK, Tree, consoleVars, Points
<1> QED
  BY <1>1, <1>2, <1>4, NoEntries DEF Shapes, Tree

LEMMA SetInsetsKeepsShapes ==
    ASSUME Shapes, NEW v \in Views, NEW t \in Thicknesses, SetInsets(v, t)
    PROVE  Shapes'
<1>1. /\ insets' = [insets EXCEPT ![v] = t]
      /\ closed' = <<>>
      /\ UNCHANGED <<consoleVars, canvas, parent, children, todo, open>>
  BY DEF SetInsets
<1>2. insets' \in [Views -> Nat]
  BY <1>1, ViewAssumption DEF Shapes, TypeOK
<1>3. TypeOK' /\ Acyclic'
  BY <1>1, <1>2 DEF Shapes, TypeOK, Acyclic, consoleVars, Points
<1> QED
  BY <1>1, <1>3, NoEntries DEF Shapes

LEMMA PresentKeepsShapes ==
    ASSUME Shapes, NEW v \in Views, Present(v)
    PROVE  Shapes'
<1>1. /\ todo' = Drawing(v) /\ closed' = <<>>
      /\ UNCHANGED <<consoleVars, treeVars, open>>
  BY DEF Present
<1>2. todo' \in Seq(Calls)
  BY <1>1, DrawingIsCalls
<1> QED
  BY <1>1, <1>2, OthersKeepTypes, NoEntries DEF Shapes, treeVars

LEMMA PutTextKeepsShapes ==
    ASSUME Shapes, NEW p \in TextAt, NEW g \in Glyphs, PutText(p, g)
    PROVE  Shapes'
<1>1. /\ screen' = [screen EXCEPT ![p] = g]
      /\ open' = Spoil({p}) /\ closed' = <<>>
      /\ UNCHANGED <<origin, shadow, treeVars, todo>>
  BY DEF PutText
<1>2. screen' \in [Points -> Cell]
  BY <1>1 DEF Shapes, TypeOK, Cell
<1>3. TypeOK' /\ Acyclic'
  BY <1>1, <1>2 DEF Shapes, TypeOK, Acyclic, treeVars, Points
<1>4. open' \in Seq(Entries)
  BY <1>1, SpoilParts DEF Shapes
<1> QED
  BY <1>1, <1>3, <1>4, NoEntries DEF Shapes, treeVars

LEMMA ClearKeepsShapes == ASSUME Shapes, Clear PROVE Shapes'
<1>1. /\ screen' = [p \in Points |-> Default] /\ origin' \in Origins
      /\ shadow' = [w |-> 0, h |-> 0, cell |-> <<>>]
      /\ open' = Spoil(Points) /\ closed' = <<>>
      /\ UNCHANGED <<treeVars, todo>>
  BY DEF Clear
<1>2. screen' \in [Points -> Cell]
  BY <1>1 DEF Cell
<1>3. shadow'.cell \in [Area(1, 1, shadow'.w, shadow'.h) -> Cell]
  <2>1. Area(1, 1, 0, 0) = {}
    BY DEF Area
  <2>2. <<>> \in [{} -> Cell]
    OBVIOUS
  <2> QED
    BY <1>1, <2>1, <2>2
<1>4. shadow'.w = 0 /\ shadow'.h = 0
  BY <1>1
<1>5. TypeOK' /\ Acyclic'
  BY <1>1, <1>2, <1>3, <1>4 DEF Shapes, TypeOK, Acyclic, treeVars, Points
<1>6. open' \in Seq(Entries)
  BY <1>1, SpoilParts DEF Shapes
<1> QED
  BY <1>1, <1>5, <1>6, NoEntries DEF Shapes, treeVars

LEMMA NextKeepsShapes == ASSUME Shapes, [Next]_vars PROVE Shapes'
<1>1. CASE UNCHANGED vars
  BY <1>1 DEF vars, Shapes, TypeOK, Acyclic, Points
<1>2. CASE Draw
  BY <1>2, DrawKeepsShapes
<1>3. CASE Descend
  BY <1>3, DescendKeepsShapes
<1>4. CASE Clear
  BY <1>4, ClearKeepsShapes
<1>5. CASE \E p \in TextAt, g \in Glyphs : PutText(p, g)
  BY <1>5, PutTextKeepsShapes
<1>7. CASE DrawBeyond
  BY <1>7, DrawBeyondKeepsShapes
<1>6. ASSUME NEW v \in Views,
             \/ Present(v) \/ Snapshot(v) \/ Restore(v)
             \/ \E g \in Glyphs : Fill(v, g)
             \/ \E c \in Views :
                    AddChild(v, c) \/ \E at \in BlitAt : Blit(v, c, at)
             \/ \E t \in Thicknesses : SetInsets(v, t)
      PROVE  Shapes'
  BY <1>6, PresentKeepsShapes, SnapshotKeepsShapes, RestoreKeepsShapes,
     FillKeepsShapes, AddChildKeepsShapes, BlitKeepsShapes, SetInsetsKeepsShapes
<1> QED
  BY <1>1, <1>2, <1>3, <1>4, <1>5, <1>6, <1>7 DEF Next

(* For every console, tree of viewports and sequence of calls, the types   *)
(* of Screen are right: resizing the shadow buffer leaves it with as many  *)
(* cells as its size says, and nothing but cells is drawn.                 *)
THEOREM TypeOKHolds == Spec => []TypeOK
<1>1. Shapes /\ [Next]_vars => Shapes'
  BY NextKeepsShapes
<1>2. Shapes => TypeOK
  BY DEF Shapes
<1> QED
  BY InitShapes, <1>1, <1>2, PTL DEF Spec

-----------------------------------------------------------------------------
(* What is drawn is drawn at positions counted from 1, as these only grow  *)
(* from a viewport to its children, and nothing moves in between.          *)
Below == \A v \in Views : \A i \in DOMAIN children[v] : parent[children[v][i]] = v

\* An entry of todo is a call at such a position, or for a viewport there.
FromOne(c) == IF c.of = "console" THEN c.x >= 1 /\ c.y >= 1 ELSE OneBased(c.view)

AllFromOne ==
    /\ Below
    /\ \A i \in 1..Len(todo) : FromOne(todo[i])
    /\ \A i \in 1..Len(open) : OneBased(open[i].view)

\* Positions depend on parents and insets only.
LEMMA SameGeometry ==
    ASSUME parent' = parent, insets' = insets
    PROVE  Abs' = Abs
  BY DEF Abs

\* A position after the first m.
LEMMA BeyondFirst ==
    ASSUME NEW m \in Nat, NEW n \in Nat, NEW i \in 1..(m + n), i \notin 1..m
    PROVE  i \in (m + 1)..(m + n) /\ i - m \in 1..n
<1>1. i \in Int /\ 1 <= i /\ i <= m + n /\ ~(i <= m)
  OBVIOUS
<1>2. i \in (m + 1)..(m + n)
  BY <1>1
<1> QED
  BY <1>1, <1>2

\* Both parts of a drawing, and the children, are where the viewport is or
\* further from the corner.
LEMMA DrawingFromOne ==
    ASSUME Shapes, Below, NEW v \in Views, OneBased(v)
    PROVE  \A i \in 1..Len(Drawing(v)) : FromOne(Drawing(v)[i])
<1> DEFINE f == Frame(v)
           c == Placed(ClientAbs(v), canvas[v])
           below == [i \in DOMAIN children[v] |->
                       [of |-> "viewport", view |-> children[v][i]]]
<1>1. /\ Abs[v] \in Int \X Int /\ Abs[v][1] >= 1 /\ Abs[v][2] >= 1
      /\ insets[v] \in Nat
  BY Positions, ShapesGiveTree, ClientSize DEF OneBased
<1>2. FromOne(c)
  BY <1>1 DEF FromOne, Placed, ClientAbs
<1>3. f = <<>> \/ \E d : f = <<d>> /\ FromOne(d)
  <2>1. CASE ~Place[v].border /\ insets[v] = 0
    BY <2>1 DEF Frame
  <2>2. CASE ~(~Place[v].border /\ insets[v] = 0)
    <3>1. PICK buf : f = <<Placed(Abs[v], buf)>>
      BY <2>2, Zenon DEF Frame
    <3>2. FromOne(Placed(Abs[v], buf))
      BY <1>1 DEF FromOne, Placed
    <3> QED
      BY <3>1, <3>2
  <2> QED
    BY <2>1, <2>2
<1>4. children[v] \in Seq(Views) /\ DOMAIN children[v] = 1..Len(children[v])
  BY DEF Shapes, TypeOK
<1>5. ASSUME NEW i \in DOMAIN children[v] PROVE FromOne(below[i])
  <2>1. PICK u \in Views : u = children[v][i] /\ parent[u] = v
    BY <1>4 DEF Below
  <2>2. v # Nobody
    BY ViewAssumption
  <2>3. /\ Abs[u] = <<Abs[v][1] + insets[v] + Place[u].x,
                      Abs[v][2] + insets[v] + Place[u].y>>
        /\ Place[u].x \in Nat /\ Place[u].y \in Nat
    BY <2>1, <2>2, ShapesGiveTree, AbsRecursion, PlaceAssumption
  <2>4. OneBased(u)
    <3>1. PICK x \in Int, y \in Int : x = Abs[v][1] /\ y = Abs[v][2]
      BY <1>1
    <3>2. PICK k \in Nat, m \in Nat, t \in Nat :
                k = Place[u].x /\ m = Place[u].y /\ t = insets[v]
      BY <1>1, <2>3
    <3>3. Abs[u] = <<x + t + k, y + t + m>>
      BY <2>3, <3>1, <3>2
    <3>4. x + t + k >= 1 /\ y + t + m >= 1
      BY ONLY <1>1, <3>1, <3>2
    <3> QED
      BY ONLY <3>3, <3>4 DEF OneBased
  <2>5. below[i] = [of |-> "viewport", view |-> u]
    BY <2>1
  <2> HIDE DEF below
  <2> QED
    BY <2>4, <2>5 DEF FromOne
<1>6. below \in Seq(Calls) /\ Len(below) = Len(children[v])
  <2>1. \A i \in DOMAIN children[v] :
          [of |-> "viewport", view |-> children[v][i]] \in Calls
    BY <1>4 DEF Calls
  <2> QED
    BY <1>4, <2>1
<1> HIDE DEF below, c, f
<1>7. \A i \in 1..Len(below) : FromOne(below[i])
  BY <1>4, <1>5, <1>6
<1>8. Drawing(v) = (f \o <<c>>) \o below
  BY DEF Drawing, f, c, below
<1>9. PICK n \in Nat : n = Len(below)
  BY <1>6
<1>10. CASE f = <<>>
  <2> DEFINE s == <<c>> \o below
  <2>1. <<>> \o <<c>> = <<c>>
    OBVIOUS
  <2>2. Drawing(v) = s
    BY <1>8, <1>10, <2>1
  <2>3. Len(s) = n + 1 /\ s[1] = c /\ \A i \in 2..(n + 1) : s[i] = below[i - 1]
    BY <1>6, <1>9
  <2> HIDE DEF s
  <2>4. ASSUME NEW i \in 1..(n + 1) PROVE FromOne(s[i])
    <3>1. CASE i \in 1..1
      <4>1. i = 1
        BY <3>1
      <4> QED
        BY <1>2, <2>3, <4>1
    <3>2. CASE i \notin 1..1
      <4>1. i \in 1..(1 + n)
        BY <2>4
      <4>2. i \in (1 + 1)..(1 + n) /\ i - 1 \in 1..n
        BY <3>2, <4>1, BeyondFirst
      <4>3. i \in 2..(n + 1)
        BY <4>2
      <4> QED
        BY <1>7, <1>9, <2>3, <4>2, <4>3
    <3> QED
      BY <3>1, <3>2
  <2> QED
    BY <2>2, <2>3, <2>4
<1>11. CASE f # <<>>
  <2>1. PICK d : f = <<d>> /\ FromOne(d)
    BY <1>3, <1>11
  <2> DEFINE s == <<d, c>> \o below
  <2>2. <<d>> \o <<c>> = <<d, c>>
    <3>1. <<d>> \in Seq({d, c}) /\ <<c>> \in Seq({d, c})
      OBVIOUS
    <3>2. Len(<<d>>) = 1 /\ Len(<<c>>) = 1 /\ <<d>>[1] = d /\ <<c>>[1] = c
      OBVIOUS
    <3> DEFINE r == <<d>> \o <<c>>
    <3>3. /\ r \in Seq({d, c}) /\ Len(r) = 2
          /\ r[1] = d /\ r[2] = c
      BY <3>1, <3>2
    <3> HIDE DEF r
    <3>4. r = [i \in 1..2 |-> r[i]]
      BY <3>3
    <3>5. <<d, c>> = [i \in 1..2 |-> <<d, c>>[i]] /\ <<d, c>>[1] = d /\ <<d, c>>[2] = c
      OBVIOUS
    <3>6. r = <<d, c>>
      BY <3>3, <3>4, <3>5
    <3> QED
      BY <3>6 DEF r
  <2>3. Drawing(v) = s
    BY <1>8, <2>1, <2>2
  <2>4. /\ Len(s) = n + 2 /\ s[1] = d /\ s[2] = c
        /\ \A i \in 3..(n + 2) : s[i] = below[i - 2]
    BY <1>6, <1>9
  <2> HIDE DEF s
  <2>5. ASSUME NEW i \in 1..(n + 2) PROVE FromOne(s[i])
    <3>1. CASE i \in 1..2
      <4>1. i = 1 \/ i = 2
        BY <3>1
      <4> QED
        BY <1>2, <2>1, <2>4, <4>1
    <3>2. CASE i \notin 1..2
      <4>1. i \in 1..(2 + n)
        BY <2>5
      <4>2. i \in (2 + 1)..(2 + n) /\ i - 2 \in 1..n
        BY <3>2, <4>1, BeyondFirst
      <4>3. i \in 3..(n + 2)
        BY <4>2
      <4> QED
        BY <1>7, <1>9, <2>4, <4>2, <4>3
    <3> QED
      BY <3>1, <3>2
  <2> QED
    BY <2>3, <2>4, <2>5
<1> QED
  BY <1>10, <1>11

\* A sequence that is made of two has the members of both.
LEMMA MembersOfBoth ==
    ASSUME NEW s \in Seq(Calls), NEW r \in Seq(Calls), NEW i \in 1..Len(s \o r)
    PROVE  \/ i \in 1..Len(s) /\ (s \o r)[i] = s[i]
           \/ \E j \in 1..Len(r) : (s \o r)[i] = r[j]
<1>1. PICK m \in Nat, n \in Nat : m = Len(s) /\ n = Len(r)
  OBVIOUS
<1>2. /\ Len(s \o r) = m + n
      /\ \A k \in 1..m : (s \o r)[k] = s[k]
      /\ \A k \in (m + 1)..(m + n) : (s \o r)[k] = r[k - m]
  BY <1>1
<1>3. i \in 1..(m + n)
  BY <1>2
<1>4. i \notin 1..m => i \in (m + 1)..(m + n) /\ i - m \in 1..n
  BY <1>3, BeyondFirst
<1> QED
  BY <1>1, <1>2, <1>4

LEMMA FromOneStep ==
    ASSUME Shapes, AllFromOne, [Next]_vars
    PROVE  AllFromOne'
<1>1. CASE UNCHANGED <<treeVars, todo>> /\ Len(open') = Len(open)
           /\ \A i \in 1..Len(open) : open'[i].view = open[i].view
  <2>1. Abs' = Abs
    BY <1>1, SameGeometry DEF treeVars
  <2> QED
    BY <1>1, <2>1 DEF AllFromOne, Below, FromOne, OneBased, treeVars
<1>2. ASSUME todo # <<>>, todo' = Tail(todo), UNCHANGED treeVars,
             Len(open') = Len(open),
             \A i \in 1..Len(open) : open'[i].view = open[i].view
      PROVE  AllFromOne'
  <2>1. Abs' = Abs
    BY <1>2, SameGeometry DEF treeVars
  <2>2. ASSUME NEW i \in 1..Len(todo') PROVE FromOne(todo'[i])
    <3>1. /\ Len(todo) \in Nat \ {0} /\ Len(todo') = Len(todo) - 1
          /\ \A k \in 1..Len(todo) - 1 : todo'[k] = todo[k + 1]
      BY <1>2, HeadParts DEF Shapes
    <3>2. todo'[i] = todo[i + 1] /\ i + 1 \in 1..Len(todo)
      BY <3>1
    <3> QED
      BY <3>2 DEF AllFromOne
  <2> QED
    BY <1>2, <2>1, <2>2 DEF AllFromOne, Below, FromOne, OneBased, treeVars
<1>3. CASE Draw
  <2>1. Len(open') = Len(open) /\ \A i \in 1..Len(open) : open'[i].view = open[i].view
    BY <1>3, SpoilParts DEF Draw, DrawSpoils, Shapes
  <2> QED
    BY <1>2, <1>3, <2>1 DEF Draw
<1>4. CASE DrawBeyond
  <2>1. Len(open') = Len(open) /\ \A i \in 1..Len(open) : open'[i].view = open[i].view
    BY <1>4, WaivedParts DEF DrawBeyond, Shapes
  <2> QED
    BY <1>2, <1>4, <2>1 DEF DrawBeyond
<1>5. CASE Clear \/ \E p \in TextAt, g \in Glyphs : PutText(p, g)
  <2>1. \E S : open' = Spoil(S)
    BY <1>5, Zenon DEF Clear, PutText
  <2>2. Len(open') = Len(open) /\ \A i \in 1..Len(open) : open'[i].view = open[i].view
    BY <2>1, SpoilParts DEF Shapes
  <2> QED
    BY <1>1, <1>5, <2>2 DEF Clear, PutText
<1>6. ASSUME UNCHANGED <<treeVars, open>>, NEW s, todo' = s,
             \A i \in 1..Len(s) : FromOne(s[i])
      PROVE  AllFromOne'
  <2>1. Abs' = Abs
    BY <1>6, SameGeometry DEF treeVars
  <2> QED
    BY <1>6, <2>1 DEF AllFromOne, Below, FromOne, OneBased, treeVars
<1>7. CASE Descend
  <2>1. /\ todo # <<>> /\ Head(todo).of = "viewport"
        /\ UNCHANGED <<treeVars, open>>
    BY <1>7 DEF Descend
  <2> DEFINE v == Head(todo).view
             d == Drawing(v)
             t == Tail(todo)
  <2>2. todo' = d \o t
    BY <1>7 DEF Descend
  <2>3. /\ Head(todo) = todo[1] /\ Len(todo) \in Nat \ {0} /\ t \in Seq(Calls)
        /\ Len(t) = Len(todo) - 1 /\ \A i \in 1..Len(todo) - 1 : t[i] = todo[i + 1]
        /\ Head(todo) \in Calls
    BY <2>1, HeadParts DEF Shapes
  <2>4. v \in Views /\ OneBased(v)
    <3>1. FromOne(Head(todo))
      BY <2>3 DEF AllFromOne
    <3> QED
      BY <2>1, <2>3, <3>1 DEF FromOne, Calls
  <2>5. d \in Seq(Calls) /\ \A i \in 1..Len(d) : FromOne(d[i])
    BY <2>4, DrawingIsCalls, DrawingFromOne DEF AllFromOne
  <2>6. \A i \in 1..Len(t) : FromOne(t[i])
    <3> SUFFICES ASSUME NEW i \in 1..Len(t) PROVE FromOne(t[i])
      OBVIOUS
    <3>1. t[i] = todo[i + 1] /\ i + 1 \in 1..Len(todo)
      BY <2>3
    <3> QED
      BY <3>1 DEF AllFromOne
  <2> HIDE DEF d, t, v
  <2>7. \A i \in 1..Len(d \o t) : FromOne((d \o t)[i])
    BY <2>3, <2>5, <2>6, MembersOfBoth
  <2> QED
    BY <1>6, <2>1, <2>2, <2>7
<1>8. ASSUME NEW v \in Views, Present(v) PROVE AllFromOne'
  <2>1. \A i \in 1..Len(Drawing(v)) : FromOne(Drawing(v)[i])
    BY <1>8, DrawingFromOne DEF Present, AllFromOne
  <2> QED
    BY <1>6, <1>8, <2>1 DEF Present
<1>9. ASSUME NEW v \in Views, Snapshot(v) PROVE AllFromOne'
  <2>1. UNCHANGED <<treeVars, todo>> /\ OneBased(v)
    BY <1>9 DEF Snapshot
  <2>2. PICK S, e : open' = Append(Spoil(S), e) /\ e.view = v
    <3>1. \E S, e : open' = Append(Spoil(S), [view |-> v, border |-> e.border,
                                             client |-> e.client, was |-> e.was])
      <4>1. PICK S, x, y, z :
               open' = Append(Spoil(S), [view |-> v, border |-> x,
                                         client |-> y, was |-> z])
        BY <1>9, Zenon DEF Snapshot
      <4> DEFINE e == [border |-> x, client |-> y, was |-> z]
      <4>2. e.border = x /\ e.client = y /\ e.was = z
        OBVIOUS
      <4> QED
        BY <4>1, <4>2
    <3> QED
      BY <3>1
  <2>3. Abs' = Abs
    BY <2>1, SameGeometry DEF treeVars
  <2>4. /\ Spoil(S) \in Seq(Entries) /\ Len(Spoil(S)) = Len(open)
        /\ \A i \in 1..Len(open) : Spoil(S)[i].view = open[i].view
        /\ Len(open) \in Nat
    BY SpoilParts DEF Shapes
  <2> DEFINE s == Spoil(S)
  <2> HIDE DEF s
  <2>5. /\ Len(open') = Len(open) + 1 /\ open'[Len(open) + 1] = e
        /\ \A i \in 1..Len(open) : open'[i] = s[i]
    BY <2>2, <2>4 DEF s
  <2>6. ASSUME NEW i \in 1..Len(open') PROVE OneBased(open'[i].view)
    <3>1. i \in 1..Len(open) \/ i = Len(open) + 1
      BY <2>4, <2>5
    <3> QED
      BY <2>1, <2>2, <2>4, <2>5, <3>1 DEF AllFromOne, s
  <2> QED
    BY <2>1, <2>3, <2>6 DEF AllFromOne, Below, FromOne, OneBased, treeVars
<1>10. ASSUME NEW v \in Views, Restore(v) PROVE AllFromOne'
  <2> DEFINE e == Last(open)
             b == Shown(Abs[v], e.border)
             c == Shown(ClientAbs(v), e.client)
  <2>1. /\ open # <<>> /\ e.view = v /\ UNCHANGED treeVars
        /\ todo' = b \o c /\ open' = Front(open)
    BY <1>10 DEF Restore
  <2>2. /\ e \in Entries /\ Len(open) \in Nat \ {0} /\ e = open[Len(open)]
        /\ Len(open') = Len(open) - 1
        /\ \A i \in 1..Len(open) - 1 : open'[i] = open[i]
    BY <2>1, LastParts DEF Shapes
  <2>3. OneBased(v)
    BY <2>1, <2>2 DEF AllFromOne
  <2>4. /\ Abs[v] \in Int \X Int /\ Abs[v][1] >= 1 /\ Abs[v][2] >= 1
        /\ insets[v] \in Nat /\ ClientAbs(v) \in Int \X Int
    BY <2>3, Positions, ShapesGiveTree, ClientSize DEF OneBased
  <2>5. ClientAbs(v)[1] >= 1 /\ ClientAbs(v)[2] >= 1
    BY <2>4 DEF ClientAbs
  <2>6. ASSUME NEW at \in Int \X Int, at[1] >= 1, at[2] >= 1, NEW buf \in Buffers
        PROVE  /\ Shown(at, buf) \in Seq(Calls)
               /\ \A i \in 1..Len(Shown(at, buf)) : FromOne(Shown(at, buf)[i])
    <3>1. Placed(at, buf) \in Calls /\ FromOne(Placed(at, buf))
      BY <2>6, PlacedIsCall DEF Placed, FromOne
    <3> DEFINE d == Placed(at, buf)
    <3> HIDE DEF d
    <3>2. /\ <<d>> \in Seq({d}) /\ Len(<<d>>) = 1 /\ <<d>>[1] = d
          /\ Len(<<>>) = 0
      OBVIOUS
    <3>3. Shown(at, buf) = <<>> \/ Shown(at, buf) = <<d>>
      BY DEF Shown, d
    <3>4. d \in Calls /\ FromOne(d)
      BY <3>1 DEF d
    <3> DEFINE s == Shown(at, buf)
    <3> HIDE DEF s
    <3>5. CASE s = <<>>
      BY <3>2, <3>5 DEF s
    <3>6. CASE s = <<d>>
      <4>1. s \in Seq(Calls) /\ Len(s) = 1 /\ s[1] = d
        BY <3>2, <3>4, <3>6
      <4>2. \A i \in 1..Len(s) : s[i] = d
        BY <4>1
      <4> QED
        BY <3>4, <4>1, <4>2 DEF s
    <3> QED
      BY <3>3, <3>5, <3>6 DEF s
  <2>7. /\ b \in Seq(Calls) /\ c \in Seq(Calls)
        /\ \A i \in 1..Len(b) : FromOne(b[i])
        /\ \A i \in 1..Len(c) : FromOne(c[i])
    BY <2>2, <2>4, <2>5, <2>6 DEF Entries
  <2> HIDE DEF b, c, e
  <2>8. \A i \in 1..Len(b \o c) : FromOne((b \o c)[i])
    BY <2>7, MembersOfBoth
  <2>9. Abs' = Abs
    BY <2>1, SameGeometry DEF treeVars
  <2>10. \A i \in 1..Len(open') : OneBased(open'[i].view)
    BY <2>2 DEF AllFromOne
  <2> QED
    BY <2>1, <2>8, <2>9, <2>10 DEF AllFromOne, Below, FromOne, OneBased, treeVars
<1>11. ASSUME NEW v \in Views,
              \/ \E g \in Glyphs : Fill(v, g)
              \/ \E from \in Views, at \in BlitAt : Blit(v, from, at)
       PROVE  AllFromOne'
  <2>1. UNCHANGED <<parent, insets, children, todo, open>>
    BY <1>11 DEF Fill, Blit
  <2>2. Abs' = Abs
    BY <2>1, SameGeometry
  <2> QED
    BY <2>1, <2>2 DEF AllFromOne, Below, FromOne, OneBased
<1>12. ASSUME NEW v \in Views, NEW u \in Views, AddChild(v, u)
       PROVE  AllFromOne'
  <2>1. /\ todo' = <<>> /\ open' = <<>> /\ parent[u] = Nobody
        /\ parent' = [parent EXCEPT ![u] = v]
        /\ children' = [children EXCEPT ![v] = Append(@, u)]
    BY <1>12 DEF AddChild, Call
  <2>2. /\ parent \in [Views -> Views \cup {Nobody}] /\ children \in [Views -> Seq(Views)]
        /\ Nobody \notin Views
    BY ViewAssumption DEF Shapes, TypeOK
  <2>3. ASSUME NEW w \in Views, NEW i \in DOMAIN children'[w]
        PROVE  parent'[children'[w][i]] = w
    <3>1. CASE w = v /\ i = Len(children[v]) + 1
      <4>1. children'[w][i] = u
        BY <2>1, <2>2, <3>1
      <4> QED
        BY <2>1, <2>2, <3>1, <4>1
    <3>2. CASE ~(w = v /\ i = Len(children[v]) + 1)
      <4>1. i \in DOMAIN children[w] /\ children'[w][i] = children[w][i]
        <5>1. CASE w = v
          <6> DEFINE s == children[v]
          <6>1. s \in Seq(Views) /\ children'[w] = Append(s, u) /\ i # Len(s) + 1
            BY <2>1, <2>2, <3>2, <5>1
          <6> HIDE DEF s
          <6>2. i \in DOMAIN s /\ Append(s, u)[i] = s[i]
            BY <2>3, <6>1
          <6> QED
            BY <5>1, <6>1, <6>2 DEF s
        <5>2. CASE w # v
          BY <2>1, <2>2, <2>3, <5>2
        <5> QED
          BY <5>1, <5>2
      <4>2. parent[children[w][i]] = w /\ children[w][i] \in Views
        BY <2>2, <4>1 DEF AllFromOne, Below
      <4> QED
        BY <2>1, <2>2, <4>1, <4>2
    <3> QED
      BY <3>1, <3>2
  <2>4. Len(todo') = 0 /\ Len(open') = 0
    BY <2>1
  <2> QED
    BY <2>3, <2>4 DEF AllFromOne, Below
<1>13. ASSUME NEW v \in Views, NEW t \in Thicknesses, SetInsets(v, t)
       PROVE  AllFromOne'
  <2>1. todo' = <<>> /\ open' = <<>> /\ UNCHANGED <<parent, children>>
    BY <1>13 DEF SetInsets, Call
  <2>2. Len(todo') = 0 /\ Len(open') = 0
    BY <2>1
  <2> QED
    BY <2>1, <2>2 DEF AllFromOne, Below
<1>14. CASE UNCHANGED vars
  BY <1>1, <1>14 DEF vars, treeVars
<1> QED
  BY <1>3, <1>4, <1>5, <1>7, <1>8, <1>9, <1>10, <1>11, <1>12, <1>13, <1>14
     DEF Next

(* Console::present() stores every cell within the shadow buffer: with     *)
(* viewports at positions from 1 on, and whatever they cover of the window *)
(* or beyond it, the assertion of Buffer::at() holds for each of them.     *)
THEOREM PresentStoresInside ==
    Spec => [](todo # <<>> /\ Head(todo).of = "console"
                  => Covered(Head(todo)) \subseteq DOMAIN Stored(Head(todo)).cell)
<1>1. Init => Shapes /\ AllFromOne
  <2>1. SUFFICES ASSUME Init PROVE AllFromOne
    BY InitShapes
  <2>2. /\ Len(todo) = 0 /\ Len(open) = 0
        /\ \A v \in Views : DOMAIN children[v] = {}
    BY <2>1 DEF Init
  <2> QED
    BY <2>2 DEF AllFromOne, Below
<1>2. Shapes /\ AllFromOne /\ [Next]_vars => (Shapes /\ AllFromOne)'
  BY NextKeepsShapes, FromOneStep
<1>3. Shapes /\ AllFromOne
        => (todo # <<>> /\ Head(todo).of = "console"
              => Covered(Head(todo)) \subseteq DOMAIN Stored(Head(todo)).cell)
  <2> SUFFICES ASSUME Shapes, AllFromOne, todo # <<>>, Head(todo).of = "console"
               PROVE  Covered(Head(todo)) \subseteq DOMAIN Stored(Head(todo)).cell
    OBVIOUS
  <2> DEFINE d == Head(todo)
             w == Stored(d).w
             h == Stored(d).h
  <2>1. d \in [of : {"console"}, x : Int, y : Int, buf : Buffers]
    BY HeadIsCall
  <2>2. d = todo[1] /\ 1 \in 1..Len(todo)
    BY HeadParts DEF Shapes
  <2>3. d.x >= 1 /\ d.y >= 1
    BY <2>2 DEF AllFromOne, FromOne
  <2> HIDE DEF d
  <2>4. /\ w \in Nat /\ h \in Nat
        /\ w >= d.x - 1 + d.buf.w /\ h >= d.y - 1 + d.buf.h
        /\ DOMAIN Stored(d).cell = Area(1, 1, w, h)
    BY <2>1, StoredShape DEF Shapes
  <2>5. d.x \in Int /\ d.y \in Int /\ d.buf.w \in Nat /\ d.buf.h \in Nat
    BY <2>1, BufferParts
  <2> HIDE DEF w, h
  <2>6. Covered(d) \subseteq Area(1, 1, w, h)
    <3>1. PICK x \in Int, y \in Int, k \in Nat, m \in Nat :
                 x = d.x /\ y = d.y /\ k = d.buf.w /\ m = d.buf.h
      BY <2>5
    <3>2. Covered(d) = (x..(x + k - 1)) \X (y..(y + m - 1))
      BY <3>1 DEF Covered, Area
    <3>3. Area(1, 1, w, h) = (1..(1 + w - 1)) \X (1..(1 + h - 1))
      BY DEF Area
    <3>4. /\ (x..(x + k - 1)) \subseteq (1..(1 + w - 1))
          /\ (y..(y + m - 1)) \subseteq (1..(1 + h - 1))
      <4>1. x >= 1 /\ y >= 1 /\ w >= x - 1 + k /\ h >= y - 1 + m
        BY <2>3, <2>4, <3>1
      <4>2. w \in Nat /\ h \in Nat
        BY <2>4
      <4> QED
        BY ONLY <4>1, <4>2, x \in Int, y \in Int, k \in Nat, m \in Nat
    <3> QED
      BY <3>2, <3>3, <3>4
  <2> QED
    BY <2>4, <2>6 DEF d
<1> QED
  BY <1>1, <1>2, <1>3, PTL DEF Spec

-----------------------------------------------------------------------------
(* ShadowHoldsLastDraw is inductive together with the shape of the two     *)
(* grids.                                                                  *)
Grids ==
    /\ screen = [p \in Points |-> screen[p]]
    /\ shadow.cell = [p \in DOMAIN shadow.cell |-> shadow.cell[p]]

Inv == Grids /\ ShadowHoldsLastDraw

\* Painting keeps the points of a grid.
LEMMA PaintKeepsPoints ==
    ASSUME NEW grid, NEW d
    PROVE  /\ DOMAIN Paint(grid, d) = DOMAIN grid
           /\ Paint(grid, d) = [p \in DOMAIN grid |-> Paint(grid, d)[p]]
  BY DEF Paint

LEMMA InitInv == Init => Inv
<1>1. SUFFICES ASSUME Init PROVE Inv
  OBVIOUS
<1>2. shadow.cell = <<>> /\ screen = Before
  BY <1>1 DEF Init
<1>3. DOMAIN shadow.cell = {}
  BY ONLY <1>2
<1>4. Grids
  BY ONLY <1>2, BeforeAssumption DEF Grids
<1> QED
  BY <1>3, <1>4 DEF Inv, ShadowHoldsLastDraw

\* What is stored covers a blank grid.
LEMMA StoredIsPainted ==
    ASSUME NEW d
    PROVE  \E blank : /\ \A p \in DOMAIN blank : blank[p] = Default
                      /\ Stored(d).cell = Paint(blank, d)
<1> DEFINE w == Larger(shadow.w, d.x - 1 + d.buf.w)
           h == Larger(shadow.h, d.y - 1 + d.buf.h)
           blank == [p \in Area(1, 1, w, h) |-> Default]
<1>1. Stored(d) = [w |-> w, h |-> h, cell |-> Paint(blank, d)]
  BY Zenon DEF Stored
<1>2. \A p \in DOMAIN blank : blank[p] = Default
  OBVIOUS
<1> HIDE DEF w, h, blank
<1> QED
  BY <1>1, <1>2

\* After one present() both grids agree on the covered points, and the rest
\* of the shadow buffer is blank.
LEMMA DrawKeepsInv == Inv /\ Draw => Inv'
<1>1. SUFFICES ASSUME Inv, Draw PROVE Inv'
  OBVIOUS
<1> DEFINE d == Head(todo)
<1>2. /\ screen' = Paint(screen, d)
      /\ shadow' = Stored(d)
      /\ last' = Covered(d)
      /\ typed' = {}
  BY <1>1 DEF Draw
<1>3. DOMAIN screen = Points
  BY <1>1 DEF Inv, Grids
<1> HIDE DEF d
<1>4. PICK blank : /\ \A p \in DOMAIN blank : blank[p] = Default
                   /\ shadow'.cell = Paint(blank, d)
  BY <1>2, StoredIsPainted
<1>5. Grids'
  <2>1. screen' = [p \in Points |-> screen'[p]]
    BY <1>2, <1>3, PaintKeepsPoints
  <2>2. shadow'.cell = [p \in DOMAIN shadow'.cell |-> shadow'.cell[p]]
    BY <1>4, PaintKeepsPoints
  <2> QED
    BY <2>1, <2>2 DEF Grids, Points
<1>6. ShadowHoldsLastDraw'
  <2>1. SUFFICES ASSUME NEW p \in DOMAIN shadow'.cell \cap Points
                 PROVE  /\ shadow'.cell[p] \in {screen'[p], Default}
                        /\ p \in last' => shadow'.cell[p] = screen'[p]
    BY DEF ShadowHoldsLastDraw, Points
  <2>2. p \in DOMAIN blank
    BY <1>4, PaintKeepsPoints
  <2>3. /\ screen'[p] = Paint(screen, d)[p]
        /\ shadow'.cell[p] = Paint(blank, d)[p]
        /\ p \in DOMAIN screen
    BY <1>2, <1>3, <1>4
  <2>4. CASE p \in Covered(d)
    <3>1. Paint(screen, d)[p] = Paint(blank, d)[p]
      BY ONLY <2>2, <2>3, <2>4, Zenon DEF Paint
    <3> QED
      BY ONLY <3>1, <2>3, <2>4, <1>2
  <2>5. CASE p \notin Covered(d)
    <3>1. Paint(blank, d)[p] = Default
      BY ONLY <2>2, <2>5, <1>4, Zenon DEF Paint
    <3> QED
      BY ONLY <3>1, <2>3, <2>5, <1>2
  <2> QED
    BY <2>4, <2>5
<1> QED
  BY <1>5, <1>6 DEF Inv

\* What is drawn beyond the window leaves no claim.
LEMMA DrawBeyondKeepsInv == Inv /\ DrawBeyond => Inv'
<1>1. SUFFICES ASSUME Inv, DrawBeyond PROVE Inv'
  OBVIOUS
<1> DEFINE d == Head(todo)
<1>2. /\ screen' = [p \in Points |-> Unknown]
      /\ shadow' = Stored(d)
      /\ typed' = Points
  BY <1>1 DEF DrawBeyond
<1> HIDE DEF d
<1>3. PICK blank : shadow'.cell = Paint(blank, d)
  BY <1>2, StoredIsPainted
<1>4. Grids'
  <2>1. screen' = [p \in Points |-> screen'[p]]
    BY <1>2
  <2>2. shadow'.cell = [p \in DOMAIN shadow'.cell |-> shadow'.cell[p]]
    BY <1>3, PaintKeepsPoints
  <2> QED
    BY <2>1, <2>2 DEF Grids, Points
<1>5. (Points)' = Points
  BY DEF Points
<1> QED
  BY <1>2, <1>4, <1>5 DEF Inv, ShadowHoldsLastDraw

\* put_text() changes one cell of the console and gives up the claim to it.
LEMMA PutTextKeepsInv ==
    ASSUME NEW p \in TextAt, NEW g \in Glyphs, Inv, PutText(p, g)
    PROVE  Inv'
<1>1. /\ screen' = [screen EXCEPT ![p] = g]
      /\ typed' = typed \cup {p}
      /\ shadow' = shadow /\ last' = last
  BY DEF PutText
<1>2. DOMAIN screen = Points
  BY DEF Inv, Grids
<1>3. Grids'
  BY <1>1, <1>2 DEF Inv, Grids, Points
<1>4. \A q \in Points \ {p} : screen'[q] = screen[q]
  BY <1>1, <1>2
<1>5. ShadowHoldsLastDraw'
  BY <1>1, <1>4 DEF Inv, ShadowHoldsLastDraw, Points
<1> QED
  BY <1>3, <1>5 DEF Inv

LEMMA ClearKeepsInv == Clear => Inv'
<1>1. SUFFICES ASSUME Clear PROVE Inv'
  OBVIOUS
<1>2. DOMAIN shadow'.cell = {} /\ shadow'.cell = <<>>
  BY <1>1 DEF Clear
<1>3. screen' = [p \in Points |-> Default]
  BY <1>1 DEF Clear
<1>4. Grids'
  BY <1>2, <1>3, SMT DEF Grids, Points
<1> QED
  BY <1>2, <1>4 DEF Inv, ShadowHoldsLastDraw

\* Every other call leaves the console and its shadow buffer alone.
LEMMA OthersKeepInv == Inv /\ UNCHANGED consoleVars => Inv'
  BY DEF Inv, Grids, ShadowHoldsLastDraw, consoleVars, Points

LEMMA NextKeepsInv == ASSUME Inv, [Next]_vars PROVE Inv'
<1>1. CASE Draw
  BY <1>1, DrawKeepsInv
<1>2. CASE Clear
  BY <1>2, ClearKeepsInv
<1>3. CASE \E p \in TextAt, g \in Glyphs : PutText(p, g)
  BY <1>3, PutTextKeepsInv
<1>4. CASE UNCHANGED consoleVars
  BY <1>4, OthersKeepInv
<1>5. CASE UNCHANGED vars
  BY <1>5, OthersKeepInv DEF vars, consoleVars
<1>6. ASSUME NEW v \in Views,
             \/ Present(v) \/ Snapshot(v) \/ Restore(v)
             \/ \E g \in Glyphs : Fill(v, g)
             \/ \E c \in Views :
                    AddChild(v, c) \/ \E at \in BlitAt : Blit(v, c, at)
             \/ \E t \in Thicknesses : SetInsets(v, t)
      PROVE  UNCHANGED consoleVars
  BY <1>6 DEF Present, Snapshot, Restore, Fill, AddChild, Blit, SetInsets
<1>7. Descend => UNCHANGED consoleVars
  BY DEF Descend
<1>8. CASE DrawBeyond
  BY <1>8, DrawBeyondKeepsInv
<1> QED
  BY <1>1, <1>2, <1>3, <1>4, <1>5, <1>6, <1>7, <1>8 DEF Next

(* For every console, tree of viewports and sequence of calls: the shadow  *)
(* buffer, on which capture() falls back, is never stale where the program *)
(* has not written past it; each cell of it is the one on the console or   *)
(* blank, and those of the last present() are not blanked.                 *)
THEOREM ShadowHoldsLastDrawHolds == Spec => []ShadowHoldsLastDraw
<1>1. Inv /\ [Next]_vars => Inv'
  BY NextKeepsInv
<1>2. Inv => ShadowHoldsLastDraw
  BY DEF Inv
<1> QED
  BY InitInv, <1>1, <1>2, PTL DEF Spec

-----------------------------------------------------------------------------
(* Snapshots.  Each holder can bring back the cells it is owed within its  *)
(* own viewport; those outside are owed to the next holder above as well,  *)
(* or, for the latest, are still on the console.  While a snapshot is      *)
(* being restored, the drawings still to come put back what is missing.    *)

\* What d shows at p.
CellAt(d, p) == d.buf.cell[<<p[1] - d.x, p[2] - d.y>>]

\* restore() of e, at these positions, puts back what e is owed in extent.
BringsBack(e, at, inner, extent) ==
    LET border == Placed(at, e.border)
        client == Placed(inner, e.client)
    IN  /\ Covered(border) \subseteq extent /\ Covered(client) \subseteq extent
        /\ \A p \in DOMAIN e.was \cap extent :
              IF p \in Covered(client)
              THEN CellAt(client, p) = e.was[p]
              ELSE p \in Covered(border) /\ CellAt(border, p) = e.was[p]

\* What e is owed outside of extent, f is owed too.
Under(e, f, extent) ==
    \A p \in DOMAIN e.was \ extent :
        p \in DOMAIN f.was /\ f.was[p] = e.was[p]

Stacked(s) ==
    /\ \A i \in 1..Len(s) :
         BringsBack(s[i], Abs[s[i].view], ClientAbs(s[i].view), Extent(s[i].view))
    /\ \A i \in 1..Len(s) - 1 : Under(s[i], s[i + 1], Extent(s[i].view))

\* What e is owed outside of its viewport is still shown.
Kept(e) == \A p \in DOMAIN e.was \ Extent(e.view) : screen[p] = e.was[p]

LastKept == open # <<>> => Kept(Last(open))

\* After the drawings to come, c will be at p.
Shows(p, c) ==
    \/ \E k \in 1..Len(todo) :
         /\ p \in Covered(todo[k]) /\ CellAt(todo[k], p) = c
         /\ \A j \in k + 1..Len(todo) : p \notin Covered(todo[j])
    \/ screen[p] = c /\ \A k \in 1..Len(todo) : p \notin Covered(todo[k])

Restoring ==
    /\ closed = <<closed[1]>>
    /\ \A k \in 1..Len(todo) : todo[k].of = "console"
    /\ \A p \in DOMAIN closed[1].was : Shows(p, closed[1].was[p])
    /\ open # <<>> => Under(Last(open), closed[1], Extent(Last(open).view))

Snapshots ==
    /\ Stacked(open)
    /\ closed = <<>> => LastKept
    /\ closed # <<>> => Restoring

\* Claims are given up from the top down.
LEMMA SpoilKeepsStack ==
    ASSUME Shapes, Stacked(open), NEW S
    PROVE  Stacked(Spoil(S))
<1> DEFINE s == Spoil(S)
<1>1. /\ Len(s) = Len(open) /\ Len(open) \in Nat
      /\ \A i \in 1..Len(open) :
           /\ s[i].view = open[i].view
           /\ s[i].border = open[i].border
           /\ s[i].client = open[i].client
           /\ DOMAIN s[i].was = DOMAIN open[i].was \ (S \ Extent(open[i].view))
           /\ \A p \in DOMAIN s[i].was : s[i].was[p] = open[i].was[p]
  <2>1. open \in Seq(Entries)
    BY DEF Shapes
  <2> QED
    BY <2>1, SpoilParts
<1> HIDE DEF s
<1>2. ASSUME NEW i \in 1..Len(s)
      PROVE  BringsBack(s[i], Abs[s[i].view], ClientAbs(s[i].view), Extent(s[i].view))
  <2>1. BringsBack(open[i], Abs[s[i].view], ClientAbs(s[i].view), Extent(s[i].view))
    BY <1>1 DEF Stacked
  <2>2. /\ DOMAIN s[i].was \subseteq DOMAIN open[i].was
        /\ \A p \in DOMAIN s[i].was : s[i].was[p] = open[i].was[p]
    BY <1>1
  <2>3. s[i].border = open[i].border /\ s[i].client = open[i].client
    BY <1>1
  <2> QED
    BY <2>1, <2>2, <2>3 DEF BringsBack
<1>3. ASSUME NEW i \in 1..Len(s) - 1
      PROVE  Under(s[i], s[i + 1], Extent(s[i].view))
  <2>1. Under(open[i], open[i + 1], Extent(open[i].view))
    BY <1>1 DEF Stacked
  <2>2. i \in 1..Len(open) /\ i + 1 \in 1..Len(open)
    BY <1>1
  <2>3. SUFFICES ASSUME NEW p \in DOMAIN s[i].was \ Extent(open[i].view)
                 PROVE  p \in DOMAIN s[i + 1].was /\ s[i + 1].was[p] = s[i].was[p]
    BY <1>1, <2>2 DEF Under
  <2>4. p \in DOMAIN open[i].was /\ p \notin S /\ s[i].was[p] = open[i].was[p]
    BY <1>1, <2>2, <2>3
  <2>5. p \in DOMAIN open[i + 1].was /\ open[i + 1].was[p] = open[i].was[p]
    BY <2>1, <2>3, <2>4 DEF Under
  <2> QED
    BY <1>1, <2>2, <2>4, <2>5
<1> QED
  BY <1>2, <1>3 DEF Stacked, s

\* When the program calls, the last restore() is complete.
LEMMA LastKeptAtCalls ==
    ASSUME Shapes, Snapshots, todo = <<>>
    PROVE  LastKept
<1>1. CASE closed = <<>>
  BY <1>1 DEF Snapshots
<1>2. CASE closed # <<>>
  <2>1. SUFFICES ASSUME open # <<>>,
                        NEW p \in DOMAIN Last(open).was \ Extent(Last(open).view)
                 PROVE  screen[p] = Last(open).was[p]
    BY DEF LastKept, Kept
  <2>2. p \in DOMAIN closed[1].was /\ closed[1].was[p] = Last(open).was[p]
    BY <1>2, <2>1 DEF Snapshots, Restoring, Under
  <2>3. Shows(p, closed[1].was[p])
    BY <1>2, <2>2 DEF Snapshots, Restoring
  <2>4. Len(todo) = 0
    OBVIOUS
  <2> QED
    BY <2>2, <2>3, <2>4 DEF Shows
<1> QED
  BY <1>1, <1>2

\* Calls that leave the console, the snapshots and the places alone.
LEMMA OthersKeepSnapshots ==
    ASSUME Snapshots, LastKept, closed' = <<>>,
           UNCHANGED <<screen, open, parent, insets>>
    PROVE  Snapshots'
<1>1. Abs' = Abs
  BY SameGeometry
<1>2. Stacked(open)'
  BY <1>1 DEF Snapshots, Stacked, ClientAbs, Extent
<1>3. LastKept'
  BY <1>1 DEF LastKept, Kept, Extent, Last
<1> QED
  BY <1>2, <1>3 DEF Snapshots

LEMMA NoSnapshots ==
    ASSUME open' = <<>>, closed' = <<>>
    PROVE  Snapshots'
<1>1. Len(open') = 0
  OBVIOUS
<1> QED
  BY <1>1 DEF Snapshots, Stacked, LastKept

\* Calls that write the points of S, or in front of the latest snapshot.
LEMMA SpoilKeepsSnapshots ==
    ASSUME Shapes, Snapshots, LastKept, NEW S, open' = Spoil(S), closed' = <<>>,
           UNCHANGED <<parent, insets>>,
           open # <<>> => \A p \in Points \ S :
               p \notin Extent(Last(open).view) => screen'[p] = screen[p]
    PROVE  Snapshots'
<1>1. Abs' = Abs
  BY SameGeometry
<1>2. Stacked(open)'
  <2>1. Stacked(Spoil(S))
    BY SpoilKeepsStack DEF Snapshots
  <2> QED
    BY <1>1, <2>1 DEF Stacked, ClientAbs, Extent
<1>3. LastKept'
  <2>1. SUFFICES ASSUME open' # <<>>,
                        NEW p \in DOMAIN Last(open)'.was \ Extent(Last(open).view)'
                 PROVE  screen'[p] = Last(open)'.was[p]
    BY DEF LastKept, Kept, Last
  <2>2. /\ Len(open') = Len(open) /\ Len(open) \in Nat
        /\ \A i \in 1..Len(open) :
           /\ open'[i].view = open[i].view
             /\ DOMAIN open'[i].was = DOMAIN open[i].was \ (S \ Extent(open[i].view))
             /\ \A q \in DOMAIN open'[i].was : open'[i].was[q] = open[i].was[q]
    <3>1. open \in Seq(Entries)
      BY DEF Shapes
    <3> QED
      BY <3>1, SpoilParts
  <2>3. open # <<>> /\ Len(open) \in 1..Len(open)
    <3>1. open' \in Seq(Entries)
      BY SpoilParts DEF Shapes
    <3> QED
      BY <2>1, <2>2, <3>1
  <2> DEFINE n == Len(open)
             e == open[n]
  <2>4. Last(open) = e /\ Last(open)' = open'[n]
    BY <2>2 DEF Last
  <2>5. Extent(Last(open).view)' = Extent(e.view)
    BY <1>1, <2>2, <2>3, <2>4 DEF Extent
  <2>6. p \in DOMAIN e.was /\ p \notin Extent(e.view) /\ p \notin S /\ open'[n].was[p] = e.was[p]
    BY <2>1, <2>2, <2>3, <2>4, <2>5
  <2>7. p \in Points
    <3>1. e \in Entries
      BY <2>3 DEF Shapes
    <3>2. e.was \in Claims
      BY <3>1 DEF Entries
    <3>3. DOMAIN e.was \subseteq Points
      BY <3>2 DEF Claims
    <3> QED
      BY <2>6, <3>3
  <2>8. screen[p] = e.was[p]
    BY <2>3, <2>4, <2>6 DEF LastKept, Kept
  <2> QED
    BY <2>3, <2>4, <2>6, <2>7, <2>8
<1> QED
  BY <1>2, <1>3 DEF Snapshots

\* What last and typed leave of the shadow buffer lies within it.
KnownInShadow == \A p \in Points \cap last : p \in DOMAIN shadow.cell

LEMMA ClientInside ==
    ASSUME Shapes, NEW v \in Views
    PROVE  ClientExtent(v) \subseteq Extent(v)
<1>1. /\ Place[v].w \in Nat \ {0} /\ Place[v].h \in Nat \ {0}
      /\ insets[v] \in Nat
  BY ShapesGiveTree, ClientSize
<1>2. Abs[v] \in Int \X Int
  BY Positions
<1> DEFINE x == Abs[v][1]
           y == Abs[v][2]
           t == insets[v]
           w == Place[v].w
           h == Place[v].h
<1>3. x \in Int /\ y \in Int /\ t \in Nat /\ w \in Nat /\ h \in Nat
  BY <1>1, <1>2
<1>4. ClientExtent(v) = (x + t..x + t + Larger(0, w - 2 * t) - 1)
                          \X (y + t..y + t + Larger(0, h - 2 * t) - 1)
  BY DEF ClientExtent, ClientAbs, ClientWidth, ClientHeight, Area
<1>5. Extent(v) = (x..x + w - 1) \X (y..y + h - 1)
  BY DEF Extent, Area
<1> HIDE DEF x, y, t, w, h
<1>6. /\ (x + t..x + t + Larger(0, w - 2 * t) - 1) \subseteq (x..x + w - 1)
      /\ (y + t..y + t + Larger(0, h - 2 * t) - 1) \subseteq (y..y + h - 1)
  BY <1>3 DEF Larger
<1> QED
  BY <1>4, <1>5, <1>6

\* A captured cell is the one on the console, if the console was read and its
\* window is at the corner of the screen buffer, or the shadow buffer knows it.
LEMMA CapturedCell ==
    ASSUME Shapes, ShadowHoldsLastDraw, KnownInShadow,
           NEW at \in Int \X Int, NEW w \in Nat, NEW h \in Nat,
           NEW readable \in BOOLEAN, NEW p \in Points,
           p \in Area(at[1], at[2], w, h), Right(p, readable)
    PROVE  /\ Covered(Placed(at, Capture(at, w, h, readable)))
                = Area(at[1], at[2], w, h)
           /\ CellAt(Placed(at, Capture(at, w, h, readable)), p) = screen[p]
<1> DEFINE read(q) == IF readable THEN Buffered(q) ELSE Shadowed(q)
           cell == [q \in Area(0, 0, w, h) |->
                      read(<<at[1] + q[1], at[2] + q[2]>>)]
           r == <<p[1] - at[1], p[2] - at[2]>>
<1>1. Capture(at, w, h, readable) = [w |-> w, h |-> h, cell |-> cell]
  BY Zenon DEF Capture, cell, read
<1>2. read(p) = screen[p]
  <2>1. CASE readable
    <3>1. origin = <<0, 0>>
      BY <2>1 DEF Right
    <3>2. PICK i \in Int, j \in Int : p = <<i, j>>
      BY DEF Points
    <3>3. <<p[1] - origin[1], p[2] - origin[2]>> = p
      BY <3>1, <3>2
    <3>4. Buffered(p) = screen[p]
      BY <3>3, Zenon DEF Buffered
    <3> QED
      BY <2>1, <3>4
  <2>2. CASE ~readable
    <3>1. p \in last /\ p \notin typed
      BY <2>2 DEF Right, Known
    <3>2. p \in DOMAIN shadow.cell
      BY <3>1 DEF KnownInShadow
    <3>3. shadow.cell[p] = screen[p]
      BY <3>1, <3>2 DEF ShadowHoldsLastDraw
    <3> QED
      BY <2>2, <3>2, <3>3 DEF Shadowed
  <2> QED
    BY <2>1, <2>2
<1> HIDE DEF read
<1>4. r \in Area(0, 0, w, h) /\ <<at[1] + r[1], at[2] + r[2]>> = p
  BY DEF Area, Points
<1>5. cell[r] = screen[p]
  BY <1>2, <1>4
<1> HIDE DEF cell
<1> QED
  BY <1>1, <1>5 DEF Placed, Covered, CellAt

LEMMA CaptureCovers ==
    ASSUME NEW at, NEW w, NEW h, NEW readable
    PROVE  Covered(Placed(at, Capture(at, w, h, readable)))
             = Area(at[1], at[2], w, h)
  BY DEF Placed, Covered, Capture

LEMMA NothingCovers ==
    ASSUME NEW at \in Int \X Int
    PROVE  Covered(Placed(at, Nothing)) = {}
<1>1. Covered(Placed(at, Nothing)) = Area(at[1], at[2], 0, 0)
  BY DEF Covered, Placed, Nothing, Filled
<1> QED
  BY <1>1 DEF Area

\* One lemma for each action again; the new holder of a snapshot is owed what
\* the one below is owed outside of its viewport.
LEMMA SnapshotKeepsSnapshots ==
    ASSUME Shapes, Snapshots, ShadowHoldsLastDraw, KnownInShadow,
           NEW v \in Views, Snapshot(v)
    PROVE  Snapshots'
<1>1. PICK wholeReadable \in BOOLEAN, clientReadable \in BOOLEAN :
        LET whole == Capture(Abs[v], Place[v].w, Place[v].h, wholeReadable)
            inner == Capture(ClientAbs(v), ClientWidth(v), ClientHeight(v),
                             clientReadable)
            held(buf) == IF v \in Provided THEN buf ELSE Nothing
            lost == IF v \notin Provided THEN Extent(v)
                    ELSE {p \in Extent(v) :
                            ~Right(p, IF p \in ClientExtent(v)
                                      THEN clientReadable
                                      ELSE wholeReadable)}
        IN  open' = Append(Spoil(lost),
                           [view |-> v,
                            border |-> held(whole),
                            client |-> held(inner),
                            was |-> Restrict(screen, Points \ lost)])
  BY DEF Snapshot
<1> DEFINE whole == Capture(Abs[v], Place[v].w, Place[v].h, wholeReadable)
           inner == Capture(ClientAbs(v), ClientWidth(v), ClientHeight(v),
                             clientReadable)
           held(buf) == IF v \in Provided THEN buf ELSE Nothing
           lost == IF v \notin Provided THEN Extent(v)
                    ELSE {p \in Extent(v) :
                            ~Right(p, IF p \in ClientExtent(v)
                                      THEN clientReadable
                                      ELSE wholeReadable)}
           entry == [view |-> v, border |-> held(whole),
                     client |-> held(inner),
                     was |-> Restrict(screen, Points \ lost)]
           s == Spoil(lost)
           n == Len(open)
<1>2. open' = Append(s, entry)
  BY <1>1
<1>3. /\ entry.view = v
      /\ entry.border = held(whole) /\ entry.client = held(inner)
      /\ DOMAIN entry.was = Points \ lost
      /\ \A p \in Points \ lost : entry.was[p] = screen[p]
  BY DEF Restrict
<1>4. BringsBack(entry, Abs[v], ClientAbs(v), Extent(v))
  <2>1. Abs[v] \in Int \X Int /\ ClientAbs(v) \in Int \X Int
    BY Positions
  <2>2. CASE v \notin Provided
    <3>1. lost = Extent(v) /\ entry.border = Nothing /\ entry.client = Nothing
      BY <1>3, <2>2
    <3> HIDE DEF lost, entry
    <3> QED
      BY <1>3, <2>1, <3>1, NothingCovers DEF BringsBack
  <2>3. CASE v \in Provided
    <3>1. entry.border = whole /\ entry.client = inner
      BY <1>3, <2>3
    <3>2. /\ Covered(Placed(Abs[v], whole)) = Extent(v)
          /\ Covered(Placed(ClientAbs(v), inner)) = ClientExtent(v)
      BY CaptureCovers DEF Extent, ClientExtent
    <3>3. ClientExtent(v) \subseteq Extent(v)
      BY ClientInside
    <3>4. /\ Place[v].w \in Nat /\ Place[v].h \in Nat
          /\ ClientWidth(v) \in Nat /\ ClientHeight(v) \in Nat
      BY ShapesGiveTree, ClientSize
    <3>5. ASSUME NEW p \in Points \ lost, p \in Extent(v)
          PROVE  IF p \in ClientExtent(v)
                 THEN CellAt(Placed(ClientAbs(v), inner), p) = screen[p]
                 ELSE CellAt(Placed(Abs[v], whole), p) = screen[p]
      <4>1. Right(p, IF p \in ClientExtent(v) THEN clientReadable ELSE wholeReadable)
        BY <2>3, <3>5
      <4> HIDE DEF lost
      <4>2. CASE p \in ClientExtent(v)
        <5>1. Right(p, clientReadable)
          BY <4>1, <4>2
        <5>2. p \in Area(ClientAbs(v)[1], ClientAbs(v)[2], ClientWidth(v), ClientHeight(v))
          BY <4>2 DEF ClientExtent
        <5>3. CellAt(Placed(ClientAbs(v), inner), p) = screen[p]
          BY <2>1, <3>4, <5>1, <5>2, CapturedCell
        <5> QED
          BY <4>2, <5>3
      <4>3. CASE p \notin ClientExtent(v)
        <5>1. Right(p, wholeReadable)
          BY <4>1, <4>3
        <5>2. p \in Area(Abs[v][1], Abs[v][2], Place[v].w, Place[v].h)
          BY <3>5 DEF Extent
        <5>3. CellAt(Placed(Abs[v], whole), p) = screen[p]
          BY <2>1, <3>4, <5>1, <5>2, CapturedCell
        <5> QED
          BY <4>3, <5>3
      <4> QED
        BY <4>2, <4>3
    <3> HIDE DEF lost, entry, whole, inner
    <3> QED
      BY <1>3, <3>1, <3>2, <3>3, <3>5 DEF BringsBack
  <2> QED
    BY <2>2, <2>3
<1>5. open \in Seq(Entries) /\ n \in Nat
  BY DEF Shapes
<1>6. /\ s \in Seq(Entries) /\ Len(s) = n
      /\ \A i \in 1..n :
           /\ s[i].view = open[i].view
           /\ DOMAIN s[i].was = DOMAIN open[i].was \ (lost \ Extent(open[i].view))
           /\ \A p \in DOMAIN s[i].was : s[i].was[p] = open[i].was[p]
  BY <1>5, SpoilParts
<1> HIDE DEF lost, entry, s
<1>7. /\ Len(open') = n + 1
      /\ \A i \in 1..n : open'[i] = s[i]
      /\ open'[n + 1] = entry
  BY <1>2, <1>5, <1>6
<1>8. Stacked(s)
  BY SpoilKeepsStack DEF Snapshots, s
<1>9. n # 0 => Under(s[n], entry, Extent(s[n].view))
  <2>1. SUFFICES ASSUME n # 0, NEW p \in DOMAIN s[n].was \ Extent(s[n].view)
                 PROVE  p \in DOMAIN entry.was /\ entry.was[p] = s[n].was[p]
    BY DEF Under
  <2>2. /\ p \in DOMAIN open[n].was /\ p \notin Extent(open[n].view)
        /\ p \notin lost /\ s[n].was[p] = open[n].was[p]
    BY <1>5, <1>6, <2>1
  <2>3. p \in Points
    <3>1. open[n] \in Entries
      BY <1>5, <2>1
    <3>2. open[n].was \in Claims
      BY <3>1 DEF Entries
    <3>3. DOMAIN open[n].was \subseteq Points
      BY <3>2 DEF Claims
    <3> QED
      BY <2>2, <3>3
  <2>4. screen[p] = open[n].was[p]
    <3>1. LastKept /\ open # <<>>
      BY <2>1, LastKeptAtCalls DEF Snapshot, Call
    <3> QED
      BY <2>2, <3>1 DEF LastKept, Kept, Last
  <2> QED
    BY <1>3, <2>2, <2>3, <2>4
<1>10. UNCHANGED <<screen, parent, insets>> /\ closed' = <<>>
  BY DEF Snapshot, consoleVars, treeVars
<1>11. Abs' = Abs
  BY <1>10, SameGeometry
<1>12. Stacked(open')
  <2>1. ASSUME NEW i \in 1..n + 1
        PROVE  BringsBack(open'[i], Abs[open'[i].view], ClientAbs(open'[i].view),
                          Extent(open'[i].view))
    <3>1. CASE i \in 1..n
      BY <1>6, <1>7, <1>8, <3>1 DEF Stacked
    <3>2. CASE i = n + 1
      BY <1>3, <1>4, <1>7, <3>2
    <3> QED
      BY <1>5, <3>1, <3>2
  <2>2. ASSUME NEW i \in 1..n
        PROVE  Under(open'[i], open'[i + 1], Extent(open'[i].view))
    <3>1. CASE i # n
      <4>1. i \in 1..n - 1 /\ i + 1 \in 1..n
        BY <1>5, <3>1
      <4> QED
        BY <1>6, <1>7, <1>8, <4>1 DEF Stacked
    <3>2. CASE i = n
      BY <1>5, <1>7, <1>9, <3>2
    <3> QED
      BY <3>1, <3>2
  <2> QED
    BY <1>5, <1>7, <2>1, <2>2 DEF Stacked
<1>13. Stacked(open)'
  BY <1>10, <1>11, <1>12 DEF Stacked, ClientAbs, Extent
<1>14. LastKept'
  <2>1. Last(open)' = entry
    BY <1>5, <1>7 DEF Last
  <2>2. \A p \in DOMAIN entry.was : screen'[p] = entry.was[p]
    BY <1>3, <1>10
  <2> QED
    BY <2>1, <2>2 DEF LastKept, Kept
<1> QED
  BY <1>10, <1>13, <1>14 DEF Snapshots

\* A drawing of a restore() goes from those to come to the console; any other
\* one spoils what it covers outside of the latest viewport.
LEMMA DrawKeepsSnapshots ==
    ASSUME Shapes, Snapshots, Draw
    PROVE  Snapshots'
<1> DEFINE d == Head(todo)
<1>1. /\ todo # <<>> /\ d.of = "console"
      /\ screen' = Paint(screen, d)
      /\ todo' = Tail(todo)
      /\ open' = DrawSpoils
      /\ UNCHANGED <<parent, insets, closed>>
  BY DEF Draw, treeVars
<1>2. DOMAIN screen = Points
  BY DEF Shapes, TypeOK
<1>3. /\ d = todo[1] /\ Len(todo) \in Nat \ {0}
      /\ Len(todo') = Len(todo) - 1
      /\ \A k \in 1..Len(todo) - 1 : todo'[k] = todo[k + 1]
  BY <1>1, HeadParts DEF Shapes
<1> HIDE DEF d
<1>4. \A p \in Points \ Covered(d) : screen'[p] = screen[p]
  BY <1>1, <1>2 DEF Paint
<1>5. \A p \in Points \cap Covered(d) : screen'[p] = CellAt(d, p)
  BY <1>1, <1>2 DEF Paint, CellAt
<1>6. Abs' = Abs
  BY <1>1, SameGeometry
<1>7. CASE closed # <<>>
  <2>1. open' = open
    BY <1>1, <1>7 DEF DrawSpoils
  <2>2. Stacked(open)'
    BY <1>1, <1>6, <2>1 DEF Snapshots, Stacked, ClientAbs, Extent
  <2>3. Restoring
    BY <1>7 DEF Snapshots
  <2>4. \A k \in 1..Len(todo') : todo'[k].of = "console"
    BY <1>3, <2>3 DEF Restoring
  <2>5. ASSUME NEW p \in DOMAIN closed[1].was, NEW c, c = closed[1].was[p]
        PROVE  Shows(p, c)'
    <3>1. Shows(p, c)
      BY <2>3, <2>5 DEF Restoring
    <3>2. p \in Points
      <4>1. closed[1] \in Entries
        BY <1>7, HeadParts DEF Shapes
      <4>2. closed[1].was \in Claims
        BY <4>1 DEF Entries
      <4>3. DOMAIN closed[1].was \subseteq Points
        BY <4>2 DEF Claims
      <4> QED
        BY <4>3
    <3>3. CASE \E k \in 1..Len(todo) :
                 /\ p \in Covered(todo[k]) /\ CellAt(todo[k], p) = c
                 /\ \A j \in k + 1..Len(todo) : p \notin Covered(todo[j])
      <4>1. PICK k \in 1..Len(todo) :
                 /\ p \in Covered(todo[k]) /\ CellAt(todo[k], p) = c
                 /\ \A j \in k + 1..Len(todo) : p \notin Covered(todo[j])
        BY <3>3
      <4>2. CASE k = 1
        <5>1. screen'[p] = c
          BY <1>3, <1>5, <3>2, <4>1, <4>2
        <5>2. ASSUME NEW j \in 1..Len(todo') PROVE p \notin Covered(todo'[j])
          <6>1. todo'[j] = todo[j + 1] /\ j + 1 \in k + 1..Len(todo)
            BY <1>3, <4>2
          <6> QED
            BY <4>1, <6>1
        <5> QED
          BY <5>1, <5>2 DEF Shows, Covered, Area
      <4>3. CASE k # 1
        <5>1. k - 1 \in 1..Len(todo') /\ todo'[k - 1] = todo[k]
          BY <1>3, <4>3
        <5>2. ASSUME NEW j \in k..Len(todo') PROVE p \notin Covered(todo'[j])
          <6>1. todo'[j] = todo[j + 1] /\ j + 1 \in k + 1..Len(todo)
            BY <1>3
          <6> QED
            BY <4>1, <6>1
        <5>3. k - 1 + 1 = k
          OBVIOUS
        <5> QED
          BY <4>1, <5>1, <5>2, <5>3 DEF Shows, Covered, Area, CellAt
      <4> QED
        BY <4>2, <4>3
    <3>4. CASE screen[p] = c /\ \A k \in 1..Len(todo) : p \notin Covered(todo[k])
      <4>1. p \notin Covered(d)
        BY <1>3, <3>4
      <4>2. screen'[p] = c
        BY <1>4, <3>2, <3>4, <4>1
      <4>3. \A k \in 1..Len(todo') : p \notin Covered(todo'[k])
        BY <1>3, <3>4
      <4> QED
        BY <4>2, <4>3 DEF Shows, Covered, Area
    <3> QED
      BY <3>1, <3>3, <3>4 DEF Shows
  <2>6. Restoring'
    <3>1. \A p \in DOMAIN closed[1].was : Shows(p, closed[1].was[p])'
      <4>1. SUFFICES ASSUME NEW p \in DOMAIN closed[1].was
                     PROVE  Shows(p, closed[1].was[p])'
        OBVIOUS
      <4>2. PICK c : c = closed[1].was[p]
        OBVIOUS
      <4>3. Shows(p, c)'
        BY <2>5, <4>2
      <4> QED
        BY <1>1, <4>2, <4>3 DEF Shows
    <3> QED
      BY <1>1, <1>6, <2>1, <2>3, <2>4, <3>1 DEF Restoring, Under, Extent, Last
  <2> QED
    BY <1>1, <1>7, <2>2, <2>6 DEF Snapshots
<1>8. CASE closed = <<>> /\ open = <<>>
  <2>1. open' = <<>>
    BY <1>1, <1>8 DEF DrawSpoils
  <2> QED
    BY <1>1, <1>8, <2>1, NoSnapshots
<1>9. CASE closed = <<>> /\ open # <<>>
  <2> DEFINE S == Covered(d) \ Extent(Last(open).view)
  <2>1. open' = Spoil(S)
    BY <1>1, <1>9 DEF DrawSpoils, d
  <2>2. LastKept
    BY <1>9 DEF Snapshots
  <2>3. \A p \in Points \ S : p \notin Extent(Last(open).view) => screen'[p] = screen[p]
    BY <1>4
  <2> HIDE DEF S
  <2> QED
    BY <1>1, <1>9, <2>1, <2>2, <2>3, SpoilKeepsSnapshots
<1> QED
  BY <1>7, <1>8, <1>9

\* Beyond the window, every claim is given up.
LEMMA DrawBeyondKeepsSnapshots ==
    ASSUME Shapes, Snapshots, DrawBeyond
    PROVE  Snapshots'
<1>1. /\ todo # <<>> /\ todo' = Tail(todo)
      /\ open' = Waived(open) /\ closed' = Waived(closed)
      /\ UNCHANGED <<parent, insets>>
  BY DEF DrawBeyond, treeVars
<1>2. /\ Len(todo) \in Nat \ {0} /\ Len(todo') = Len(todo) - 1
      /\ \A k \in 1..Len(todo) - 1 : todo'[k] = todo[k + 1]
  BY <1>1, HeadParts DEF Shapes
<1>3. /\ open' \in Seq(Entries) /\ Len(open') = Len(open)
      /\ \A i \in 1..Len(open) : /\ open'[i].view = open[i].view
                                 /\ open'[i].border = open[i].border
                                 /\ open'[i].client = open[i].client
                                 /\ DOMAIN open'[i].was = {}
  BY <1>1, WaivedParts DEF Shapes
<1>4. /\ closed' \in Seq(Entries) /\ Len(closed') = Len(closed)
      /\ \A i \in 1..Len(closed) : DOMAIN closed'[i].was = {}
  BY <1>1, WaivedParts DEF Shapes
<1>5. Abs' = Abs
  BY <1>1, SameGeometry
<1>6. Stacked(open)'
  <2>1. ASSUME NEW i \in 1..Len(open')
        PROVE  BringsBack(open'[i], Abs[open'[i].view],
                          ClientAbs(open'[i].view), Extent(open'[i].view))
    <3>1. BringsBack(open[i], Abs[open'[i].view],
                     ClientAbs(open'[i].view), Extent(open'[i].view))
      BY <1>3 DEF Snapshots, Stacked
    <3> QED
      BY <1>3, <3>1 DEF BringsBack
  <2>2. ASSUME NEW i \in 1..Len(open') - 1
        PROVE  Under(open'[i], open'[i + 1], Extent(open'[i].view))
    <3>1. i \in 1..Len(open)
      BY <1>3
    <3> QED
      BY <1>3, <3>1 DEF Under
  <2>3. Stacked(open')
    BY <2>1, <2>2 DEF Stacked
  <2> QED
    BY <1>1, <1>5, <2>3 DEF Stacked, ClientAbs, Extent
<1>7. open' # <<>> => DOMAIN Last(open').was = {}
  <2>1. open' # <<>> => Len(open') \in 1..Len(open)
    BY <1>3
  <2> QED
    BY <1>3, <2>1 DEF Last
<1>8. LastKept'
  BY <1>7 DEF LastKept, Kept, Last
<1>9. ASSUME closed' # <<>> PROVE Restoring'
  <2>1. closed # <<>>
    BY <1>4, <1>9 DEF Shapes
  <2>2. Restoring
    BY <2>1 DEF Snapshots
  <2>3. Len(closed) = 1
    BY <2>2 DEF Restoring
  <2>4. closed' = <<closed'[1]>> /\ DOMAIN closed'[1].was = {}
    BY <1>4, <2>3
  <2>5. ASSUME NEW k \in 1..Len(todo') PROVE todo'[k].of = "console"
    <3>1. k + 1 \in 1..Len(todo) /\ todo'[k] = todo[k + 1]
      BY <1>2
    <3> QED
      BY <2>2, <3>1 DEF Restoring
  <2>6. open' # <<>> => Under(Last(open)', closed'[1], Extent(Last(open).view)')
    BY <1>7 DEF Under, Last
  <2> QED
    BY <2>4, <2>5, <2>6 DEF Restoring
<1> QED
  BY <1>6, <1>8, <1>9 DEF Snapshots

LEMMA DescendKeepsSnapshots ==
    ASSUME Shapes, Snapshots, Descend
    PROVE  Snapshots'
<1>1. /\ todo # <<>> /\ Head(todo).of = "viewport"
      /\ UNCHANGED <<screen, parent, insets, open, closed>>
  BY DEF Descend, consoleVars, treeVars
<1>2. closed = <<>>
  <2>1. todo[1].of = "viewport" /\ 1 \in 1..Len(todo)
    BY <1>1, HeadParts DEF Shapes
  <2> QED
    BY <2>1 DEF Snapshots, Restoring
<1>3. LastKept
  BY <1>2 DEF Snapshots
<1> QED
  BY <1>1, <1>2, <1>3, OthersKeepSnapshots

\* Of border and client the last one that covers a point decides.
LEMMA RestoreKeepsSnapshots ==
    ASSUME Shapes, Snapshots, NEW v \in Views, Restore(v)
    PROVE  Snapshots'
<1> DEFINE e == Last(open)
           n == Len(open)
           b == Placed(Abs[v], e.border)
           c == Placed(ClientAbs(v), e.client)
<1>1. /\ open # <<>> /\ e.view = v /\ todo = <<>>
      /\ todo' = Shown(Abs[v], e.border) \o Shown(ClientAbs(v), e.client)
      /\ closed' = <<e>> /\ open' = Front(open)
      /\ UNCHANGED <<screen, parent, insets>>
  BY DEF Restore, Call, consoleVars, treeVars
<1>2. /\ e \in Entries /\ n \in Nat \ {0} /\ e = open[n]
      /\ Len(open') = n - 1
      /\ \A i \in 1..n - 1 : open'[i] = open[i]
  BY <1>1, LastParts DEF Shapes
<1>3. BringsBack(e, Abs[v], ClientAbs(v), Extent(v))
  BY <1>1, <1>2 DEF Snapshots, Stacked
<1>4. Kept(e)
  BY <1>1, LastKeptAtCalls DEF LastKept
<1> HIDE DEF e
<1>5. Abs' = Abs
  BY <1>1, SameGeometry
<1>6. Stacked(open)'
  <2>1. Stacked(open')
    BY <1>2 DEF Snapshots, Stacked
  <2> QED
    BY <1>1, <1>5, <2>1 DEF Stacked, ClientAbs, Extent
<1>7. closed'[1] = e /\ closed' = <<closed'[1]>>
  BY <1>1
<1>8. \/ Covered(b) = {} /\ Shown(Abs[v], e.border) = <<>>
      \/ Shown(Abs[v], e.border) = <<b>>
  <2>1. Abs[v] \in Int \X Int /\ e.border \in Buffers
    BY <1>2, Positions DEF Entries
  <2>2. e.border.w = 0 \/ e.border.h = 0 => Covered(b) = {}
    BY <2>1, BufferParts DEF Covered, Placed, Area
  <2> QED
    BY <2>2 DEF Shown
<1>9. \/ Covered(c) = {} /\ Shown(ClientAbs(v), e.client) = <<>>
      \/ Shown(ClientAbs(v), e.client) = <<c>>
  <2>1. ClientAbs(v) \in Int \X Int /\ e.client \in Buffers
    BY <1>2, Positions DEF Entries
  <2>2. e.client.w = 0 \/ e.client.h = 0 => Covered(c) = {}
    BY <2>1, BufferParts DEF Covered, Placed, Area
  <2> QED
    BY <2>2 DEF Shown
<1>10. b.of = "console" /\ c.of = "console"
  BY DEF Placed
<1>11. ASSUME NEW p \in DOMAIN e.was
       PROVE  \/ p \in Covered(c) /\ CellAt(c, p) = e.was[p]
              \/ /\ p \notin Covered(c)
                 /\ p \in Covered(b) /\ CellAt(b, p) = e.was[p]
              \/ /\ p \notin Covered(c) /\ p \notin Covered(b)
                 /\ screen[p] = e.was[p]
  <2> HIDE DEF b, c
  <2>1. /\ Covered(b) \subseteq Extent(v) /\ Covered(c) \subseteq Extent(v)
        /\ p \in Extent(v) =>
             IF p \in Covered(c) THEN CellAt(c, p) = e.was[p]
             ELSE p \in Covered(b) /\ CellAt(b, p) = e.was[p]
    BY <1>3 DEF BringsBack, b, c
  <2>2. p \notin Extent(v) => screen[p] = e.was[p]
    BY <1>1, <1>4 DEF Kept, e
  <2> QED
    BY <2>1, <2>2
<1> HIDE DEF b, c
<1>12. \/ todo' = <<b, c>>
       \/ todo' = <<b>> /\ Covered(c) = {}
       \/ todo' = <<c>> /\ Covered(b) = {}
       \/ todo' = <<>> /\ Covered(b) = {} /\ Covered(c) = {}
  <2>1. /\ <<b>> \o <<c>> = <<b, c>>
        /\ <<b>> \o <<>> = <<b>>
        /\ <<>> \o <<c>> = <<c>>
        /\ <<>> \o <<>> = <<>>
    <3> DEFINE T == {b, c}
    <3>1. <<b>> \in Seq(T) /\ <<c>> \in Seq(T) /\ <<>> \in Seq(T)
      OBVIOUS
    <3> HIDE DEF T
    <3>2. <<b>> \o <<c>> = <<b, c>>
      <4> DEFINE s == <<b>> \o <<c>>
      <4>1. /\ s \in Seq(T) /\ Len(s) = 2
            /\ s[1] = b /\ s[2] = c
        BY <3>1, ConcatProperties
      <4>2. <<b, c>> \in Seq(T) /\ Len(<<b, c>>) = 2
        BY DEF T
      <4> HIDE DEF s
      <4>3. s = <<b, c>>
        BY <4>1, <4>2
      <4> QED
        BY <4>3 DEF s
    <3>3. <<b>> \o <<>> = <<b>> /\ <<>> \o <<c>> = <<c>> /\ <<>> \o <<>> = <<>>
      BY <3>1, ConcatEmptySeq
    <3> QED
      BY <3>2, <3>3
  <2> QED
    BY <1>1, <1>8, <1>9, <2>1, Zenon
<1>13. \A k \in 1..Len(todo') : todo'[k].of = "console"
  BY <1>10, <1>12
<1>14. ASSUME NEW p \in DOMAIN e.was, NEW x, x = e.was[p]
       PROVE  \/ \E k \in 1..Len(todo') :
                   /\ p \in Covered(todo'[k]) /\ CellAt(todo'[k], p) = x
                   /\ \A j \in k + 1..Len(todo') : p \notin Covered(todo'[j])
              \/ screen[p] = x /\ \A k \in 1..Len(todo') : p \notin Covered(todo'[k])
  <2>1. CASE todo' = <<b, c>>
    <3>1. Len(todo') = 2 /\ todo'[1] = b /\ todo'[2] = c
      BY <2>1
    <3> QED
      BY <1>11, <1>14, <3>1
  <2>2. CASE todo' = <<b>> /\ Covered(c) = {}
    <3>1. Len(todo') = 1 /\ todo'[1] = b
      BY <2>2
    <3> QED
      BY <1>11, <1>14, <2>2, <3>1
  <2>3. CASE todo' = <<c>> /\ Covered(b) = {}
    <3>1. Len(todo') = 1 /\ todo'[1] = c
      BY <2>3
    <3> QED
      BY <1>11, <1>14, <2>3, <3>1
  <2>4. CASE todo' = <<>> /\ Covered(b) = {} /\ Covered(c) = {}
    <3>1. Len(todo') = 0
      BY <2>4
    <3> QED
      BY <1>11, <1>14, <2>4, <3>1
  <2> QED
    BY <1>12, <2>1, <2>2, <2>3, <2>4
<1>15. open' # <<>> => Under(Last(open)', e, Extent(Last(open).view)')
  <2>1. SUFFICES ASSUME open' # <<>>
                 PROVE  Under(Last(open)', e, Extent(Last(open).view)')
    OBVIOUS
  <2>2. n - 1 \in 1..n - 1
    <3>1. open' \in Seq(Entries)
      BY <1>1, LastParts DEF Shapes
    <3> QED
      BY <1>2, <2>1, <3>1
  <2>3. Last(open)' = open[n - 1]
    BY <1>2, <2>2 DEF Last
  <2>4. Under(open[n - 1], open[n - 1 + 1], Extent(open[n - 1].view))
    BY <2>2 DEF Snapshots, Stacked
  <2>5. n - 1 + 1 = n
    BY <1>2
  <2>6. Extent(Last(open).view)' = Extent(open[n - 1].view)
    BY <1>5, <2>3 DEF Extent
  <2> QED
    BY <1>2, <2>3, <2>4, <2>5, <2>6
<1>16. Restoring'
  <2>1. \A p \in DOMAIN e.was :
          \/ \E k \in 1..Len(todo') :
               /\ p \in Covered(todo'[k]) /\ CellAt(todo'[k], p) = e.was[p]
               /\ \A j \in k + 1..Len(todo') : p \notin Covered(todo'[j])
          \/ screen'[p] = e.was[p] /\ \A k \in 1..Len(todo') : p \notin Covered(todo'[k])
    BY <1>1, <1>14
  <2> QED
    BY <1>7, <1>13, <1>15, <2>1 DEF Restoring, Shows
<1> QED
  BY <1>6, <1>7, <1>16 DEF Snapshots

LEMMA PutTextKeepsSnapshots ==
    ASSUME Shapes, Snapshots, NEW p \in TextAt, NEW g \in Glyphs, PutText(p, g)
    PROVE  Snapshots'
<1>1. /\ todo = <<>> /\ screen' = [screen EXCEPT ![p] = g]
      /\ open' = Spoil({p}) /\ closed' = <<>>
      /\ UNCHANGED <<parent, insets>>
  BY DEF PutText, Call, treeVars
<1>2. \A q \in Points \ {p} : screen'[q] = screen[q]
  BY <1>1 DEF Shapes, TypeOK
<1> QED
  BY <1>1, <1>2, LastKeptAtCalls, SpoilKeepsSnapshots

LEMMA ClearKeepsSnapshots ==
    ASSUME Shapes, Snapshots, Clear
    PROVE  Snapshots'
<1>1. /\ todo = <<>> /\ open' = Spoil(Points) /\ closed' = <<>>
      /\ UNCHANGED <<parent, insets>>
  BY DEF Clear, Call, treeVars
<1> QED
  BY <1>1, LastKeptAtCalls, SpoilKeepsSnapshots

\* Places change only while no snapshot is held.
LEMMA PlainCallsKeepSnapshots ==
    ASSUME Shapes, Snapshots, NEW v \in Views,
           \/ Present(v)
           \/ \E g \in Glyphs : Fill(v, g)
           \/ \E c \in Views :
                  AddChild(v, c) \/ \E at \in BlitAt : Blit(v, c, at)
           \/ \E t \in Thicknesses : SetInsets(v, t)
    PROVE  Snapshots'
<1>1. LastKept
  BY LastKeptAtCalls DEF Present, Fill, AddChild, Blit, SetInsets, Call
<1>2. CASE open = <<>>
  BY <1>2, NoSnapshots DEF Present, Fill, AddChild, Blit, SetInsets
<1>3. CASE open # <<>>
  <2>1. UNCHANGED <<screen, open, parent, insets>> /\ closed' = <<>>
    BY <1>3 DEF Present, Fill, AddChild, Blit, SetInsets, consoleVars, treeVars
  <2> QED
    BY <1>1, <2>1, OthersKeepSnapshots
<1> QED
  BY <1>2, <1>3

LEMMA StutterKeepsSnapshots ==
    ASSUME Snapshots, UNCHANGED vars
    PROVE  Snapshots'
<1>1. Abs' = Abs
  BY SameGeometry DEF vars
<1>2. UNCHANGED <<screen, todo, open, closed, insets>>
  BY DEF vars
<1>3. Stacked(open)'
  BY <1>1, <1>2 DEF Snapshots, Stacked, ClientAbs, Extent
<1>4. closed = <<>> => LastKept'
  BY <1>1, <1>2 DEF Snapshots, LastKept, Kept, Extent, Last
<1>5. closed # <<>> => Restoring'
  BY <1>1, <1>2 DEF Snapshots, Restoring, Shows, Extent, Under, Last,
                    Covered, Area, CellAt
<1> QED
  BY <1>2, <1>3, <1>4, <1>5 DEF Snapshots

LEMMA NextKeepsSnapshots ==
    ASSUME Shapes, Snapshots, ShadowHoldsLastDraw, KnownInShadow, [Next]_vars
    PROVE  Snapshots'
<1>1. CASE UNCHANGED vars
  BY <1>1, StutterKeepsSnapshots
<1>2. CASE Draw
  BY <1>2, DrawKeepsSnapshots
<1>3. CASE Descend
  BY <1>3, DescendKeepsSnapshots
<1>4. CASE Clear
  BY <1>4, ClearKeepsSnapshots
<1>5. CASE \E p \in TextAt, g \in Glyphs : PutText(p, g)
  BY <1>5, PutTextKeepsSnapshots
<1>6. ASSUME NEW v \in Views,
             \/ Present(v) \/ Snapshot(v) \/ Restore(v)
             \/ \E g \in Glyphs : Fill(v, g)
             \/ \E c \in Views :
                    AddChild(v, c) \/ \E at \in BlitAt : Blit(v, c, at)
             \/ \E t \in Thicknesses : SetInsets(v, t)
      PROVE  Snapshots'
  BY <1>6, PlainCallsKeepSnapshots, SnapshotKeepsSnapshots, RestoreKeepsSnapshots
<1>7. CASE DrawBeyond
  BY <1>7, DrawBeyondKeepsSnapshots
<1> QED
  BY <1>1, <1>2, <1>3, <1>4, <1>5, <1>6, <1>7 DEF Next

LEMMA KnownInShadowKept ==
    ASSUME Shapes, KnownInShadow, [Next]_vars
    PROVE  KnownInShadow'
<1>1. CASE Draw \/ DrawBeyond
  <2> DEFINE d == Head(todo)
             w == Stored(d).w
             h == Stored(d).h
  <2>1. /\ todo # <<>> /\ d.of = "console"
        /\ shadow' = Stored(d)
        /\ last' = Covered(d)
    BY <1>1 DEF Draw, DrawBeyond
  <2>2. d \in [of : {"console"}, x : Int, y : Int, buf : Buffers]
    BY <2>1, HeadIsCall
  <2>3. d.x \in Int /\ d.y \in Int /\ d.buf.w \in Nat /\ d.buf.h \in Nat
    BY <2>2, BufferParts
  <2> HIDE DEF d
  <2>4. /\ w \in Nat /\ h \in Nat
        /\ w >= d.x - 1 + d.buf.w /\ h >= d.y - 1 + d.buf.h
        /\ DOMAIN Stored(d).cell = Area(1, 1, w, h)
    BY <2>2, StoredShape DEF Shapes
  <2> HIDE DEF w, h
  <2>5. ASSUME NEW p \in Points, p \in Covered(d) PROVE p \in Area(1, 1, w, h)
    BY <2>3, <2>4, <2>5 DEF Points, Covered, Area
  <2> QED
    BY <2>1, <2>4, <2>5 DEF KnownInShadow, Points
<1>2. CASE Clear
  BY <1>2 DEF Clear, KnownInShadow
<1>3. CASE UNCHANGED <<shadow, last>>
  BY <1>3 DEF KnownInShadow, Points
<1>4. CASE ~Draw /\ ~DrawBeyond /\ ~Clear
  <2>1. UNCHANGED <<shadow, last>>
    BY <1>4 DEF Next, vars, consoleVars, Descend, Present, Snapshot, Restore,
         Fill, AddChild, Blit, SetInsets, PutText
  <2> QED
    BY <1>3, <2>1
<1> QED
  BY <1>1, <1>2, <1>4

LEMMA SnapshotsUncover == Shapes /\ Snapshots => RestoreUncovers
<1>1. SUFFICES ASSUME Shapes, Snapshots, todo = <<>>,
                      NEW i \in DOMAIN closed, NEW p \in DOMAIN closed[i].was
               PROVE  screen[p] = closed[i].was[p]
  BY DEF RestoreUncovers
<1>2. closed # <<>>
  BY <1>1
<1>3. Restoring
  BY <1>1, <1>2 DEF Snapshots
<1>4. i = 1
  BY <1>1, <1>3 DEF Restoring
<1>5. Shows(p, closed[1].was[p])
  BY <1>1, <1>3, <1>4 DEF Restoring
<1>6. Len(todo) = 0
  BY <1>1
<1> QED
  BY <1>4, <1>5, <1>6 DEF Shows

(* For every console, tree of viewports and sequence of calls that keep    *)
(* the rules of Screen (nothing is moved while snapshots are held, the     *)
(* viewport that is drawn is the one in front, and nothing is drawn beyond *)
(* the window): restoring in the opposite order brings the characters back *)
(* everywhere that a capture saw them and nothing was written outside the  *)
(* viewport.                                                               *)
THEOREM RestoreUncoversHolds == Spec => []RestoreUncovers
<1> DEFINE IInv == Shapes /\ Inv /\ KnownInShadow /\ Snapshots
<1>1. Init => IInv
  <2>1. SUFFICES ASSUME Init PROVE IInv
    OBVIOUS
  <2>2. open = <<>> /\ closed = <<>> /\ last = {} /\ Len(open) = 0
    BY <2>1 DEF Init
  <2>3. Snapshots
    BY <2>2 DEF Snapshots, Stacked, LastKept
  <2>4. KnownInShadow
    BY <2>2 DEF KnownInShadow
  <2> QED
    BY <2>1, <2>3, <2>4, InitShapes, InitInv
<1>2. IInv /\ [Next]_vars => IInv'
  BY NextKeepsShapes, NextKeepsInv, KnownInShadowKept, NextKeepsSnapshots DEF Inv
<1>3. IInv => RestoreUncovers
  BY SnapshotsUncover
<1> QED
  BY <1>1, <1>2, <1>3, PTL DEF Spec

=============================================================================
