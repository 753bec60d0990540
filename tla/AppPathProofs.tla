--------------------------- MODULE AppPathProofs ---------------------------
(***************************************************************************)
(* Proofs about AppPath, for data of any length and any bytes.             *)
(***************************************************************************)
EXTENDS AppPath, WellFoundedInduction, TLAPS

-----------------------------------------------------------------------------
(* The iterator.                                                           *)

\* Every set of naturals has a least member.
LEMMA LeastMember ==
    ASSUME NEW T, T \subseteq Nat, T /= {}
    PROVE  \E m \in T : \A n \in T : m <= n
<1> DEFINE R == {ss \in Nat \X Nat : ss[1] < ss[2]}
<1>1. OpToRel(<, Nat) = R
  BY DEF OpToRel
<1>2. PICK m \in T : \A n \in T : <<n, m>> \notin R
  <2>1. \E m \in T : \A n \in T : ~ (<<n, m>> \in OpToRel(<, Nat))
    BY NatLessThanWellFounded, WFMin
  <2> QED
    BY <1>1, <2>1
<1>3. ASSUME NEW n \in T PROVE m <= n
  <2>1. m \in Nat /\ n \in Nat
    OBVIOUS
  <2>2. n < m => <<n, m>> \in R
    BY ONLY <2>1
  <2>3. ~(n < m)
    BY <1>2, <1>3, <2>2
  <2> QED
    BY ONLY <2>1, <2>3
<1> QED
  BY <1>3

\* The end is the position after the last byte.
LEMMA EndType ==
    ASSUME input \in Seq(Octets)
    PROVE  Len(input) \in Nat /\ End = Len(input) + 1 /\ End \in 1..End
<1>1. Len(input) \in Nat
  OBVIOUS
<1>2. End = Len(input) + 1
  BY Zenon DEF End
<1> QED
  BY ONLY <1>1, <1>2

\* There is a first byte that is not skipped, or the end.
LEMMA SkipType ==
    ASSUME input \in Seq(Octets), NEW i \in Nat \ {0}
    PROVE  Skip(i) \in 1..End /\ (i <= End => i <= Skip(i))
<1> DEFINE Stops == {j \in Nat : /\ j \in 1..End
                                 /\ j = End \/ (i <= j /\ input[j] \notin Space)}
<1>1. End \in Nat \ {0} /\ Len(input) \in Nat
  BY DEF End
<1>2. Stops \in SUBSET Nat /\ End \in Stops
  BY <1>1
<1>3. PICK m \in Stops : \A j \in Stops : m <= j
  BY <1>2, LeastMember
<1>4. \A k \in i..(m - 1) : k \in 1..Len(input) => input[k] \in Space
  <2> SUFFICES ASSUME NEW k \in i..(m - 1), k \in 1..Len(input),
                      input[k] \notin Space
               PROVE  FALSE
    OBVIOUS
  <2>1. k \in Stops
    BY <1>1 DEF End
  <2> QED
    BY <1>1, <1>3, <2>1
<1>5. \E j \in 1..End : /\ j = End \/ (i <= j /\ input[j] \notin Space)
                        /\ \A k \in i..(j - 1) :
                              k \in 1..Len(input) => input[k] \in Space
  BY <1>3, <1>4
<1>6. Skip(i) \in 1..End /\ (Skip(i) = End \/ i <= Skip(i))
  BY <1>5 DEF Skip
<1> QED
  BY <1>1, <1>6

\* Where nothing reads as white space, nothing is skipped.
LEMMA SkipNothing ==
    ASSUME input \in Seq(Octets), SpaceFree, NEW i \in 1..End
    PROVE  Skip(i) = i
<1>1. End \in Nat \ {0} /\ Len(input) \in Nat /\ End = Len(input) + 1
  BY DEF End
<1>2. \A j \in 1..End :
         /\ j = End \/ (i <= j /\ input[j] \notin Space)
         /\ \A k \in i..(j - 1) : k \in 1..Len(input) => input[k] \in Space
         => j <= i
  <2> SUFFICES ASSUME NEW j \in 1..End, i < j,
                      \A k \in i..(j - 1) : k \in 1..Len(input) => input[k] \in Space
               PROVE  FALSE
    BY <1>1
  <2>1. i \in i..(j - 1) /\ i \in 1..Len(input)
    BY <1>1
  <2> QED
    BY <2>1 DEF SpaceFree
<1>3. /\ Skip(i) \in 1..End
      /\ Skip(i) = End \/ (i <= Skip(i) /\ input[Skip(i)] \notin Space)
      /\ \A k \in i..(Skip(i) - 1) : k \in 1..Len(input) => input[k] \in Space
  <2>1. /\ i = End \/ (i <= i /\ input[i] \notin Space)
        /\ \A k \in i..(i - 1) : k \in 1..Len(input) => input[k] \in Space
    BY <1>1 DEF SpaceFree
  <2> QED
    BY <2>1 DEF Skip
<1>4. Skip(i) <= i
  BY <1>2, <1>3
<1>5. i <= Skip(i)
  BY <1>1, <1>3
<1> QED
  BY <1>1, <1>3, <1>4, <1>5

-----------------------------------------------------------------------------
(* The arithmetic of surrogates.                                           *)

\* What becomes of a pair: the low surrogate stays, the high one may lose a
\* bit; both stay what they are.
LEMMA PairArithmetic ==
    ASSUME NEW h \in Int, NEW l \in Int, High(h), Low(l)
    PROVE  LET u == Split(CombineSurrogates(h, l))
           IN  /\ High(u[1]) /\ Low(u[2])
               /\ u[1] = h \/ (OddPlane(h) /\ u[1] = h - 64)
               /\ u[2] = l
<1> DEFINE a == h - 55296
           b == l - 56320
           x == a * 1024 + b
<1>1. a \in 0..1023 /\ b \in 0..1023
  BY DEF High, Low
<1>2. x \div 65536 = a \div 64
  BY <1>1
<1>3. CASE (a \div 64) % 2 = 1
  <2>1. CombineSurrogates(h, l) = x
    BY <1>2, <1>3 DEF CombineSurrogates
  <2>2. a >= 64
    BY <1>1, <1>3
  <2>3. x - 65536 = (a - 64) * 1024 + b
    BY <1>1
  <2>4. (x - 65536) \div 1024 = a - 64 /\ (x - 65536) % 1024 = b
    BY <1>1, <2>2, <2>3
  <2>5. Split(x) = <<h - 64, l>>
    BY <1>1, <2>4 DEF Split
  <2> QED
    BY <1>1, <1>3, <2>1, <2>2, <2>5 DEF High, Low, OddPlane
<1>4. CASE (a \div 64) % 2 /= 1
  <2>1. CombineSurrogates(h, l) = x + 65536
    BY <1>2, <1>4 DEF CombineSurrogates
  <2>2. (x + 65536) - 65536 = a * 1024 + b
    BY <1>1
  <2>3. ((x + 65536) - 65536) \div 1024 = a /\ ((x + 65536) - 65536) % 1024 = b
    BY <1>1, <2>2
  <2>4. Split(x + 65536) = <<h, l>>
    BY <1>1, <2>3 DEF Split
  <2> QED
    BY <1>1, <2>1, <2>4 DEF High, Low
<1> QED
  BY <1>3, <1>4
-----------------------------------------------------------------------------
(* Type correctness.                                                       *)

\* Where the two bytes of a code unit stand.
LEMMA Positions ==
    ASSUME input \in Seq(Octets), pos \in 1..End, HasUnit
    PROVE  /\ pos < Second
           /\ pos \in 1..Len(input) /\ Second \in 1..Len(input)
           /\ Skip(Second + 1) \in 1..End
<1>1. Len(input) \in Nat /\ End = Len(input) + 1
  BY EndType, Zenon
<1>2. Second \in 1..End /\ pos < Second
  <2>1. pos + 1 \in Nat \ {0} /\ pos + 1 <= End
    BY <1>1 DEF HasUnit
  <2>2. Skip(pos + 1) \in 1..End /\ pos + 1 <= Skip(pos + 1)
    BY <2>1, SkipType, Zenon
  <2>3. Second \in 1..End /\ pos + 1 <= Second
    BY <2>2, Zenon DEF Second
  <2> QED
    BY <1>1, <2>3
<1>3. Skip(Second + 1) \in 1..End
  <2>1. Second + 1 \in Nat \ {0}
    BY <1>1, <1>2
  <2> QED
    BY <2>1, SkipType, Zenon
<1> QED
  BY <1>1, <1>2, <1>3 DEF HasUnit

\* Two bytes make a code unit.
LEMMA WordType ==
    ASSUME input \in Seq(Octets), NEW i \in 1..Len(input), NEW j \in 1..Len(input)
    PROVE  Word(i, j) \in CodeUnits
<1>1. input[i] \in Octets /\ input[j] \in Octets
  OBVIOUS
<1>2. input[i] + 256 * input[j] \in CodeUnits
  BY ONLY <1>1 DEF CodeUnits, Octets
<1> QED
  BY <1>2, Zenon DEF Word

\* The byte that is left alone.
LEMMA SingleByte ==
    ASSUME input \in Seq(Octets), pos \in 1..End, pos < End
    PROVE  input[pos] \in CodeUnits
<1>1. Len(input) \in Nat /\ End = Len(input) + 1
  BY EndType, Zenon
<1>2. pos \in 1..Len(input)
  BY ONLY <1>1, pos \in 1..End, pos < End
<1>3. input[pos] \in Octets
  BY <1>2
<1> QED
  BY ONLY <1>3 DEF CodeUnits, Octets

\* The units of a pair are code units.
LEMMA PairUnits ==
    ASSUME NEW h \in CodeUnits, NEW l \in CodeUnits, High(h), Low(l),
           NEW units \in {Split(CombineSurrogates(h, l))}
    PROVE  /\ High(units[1]) /\ Low(units[2])
           /\ units[1] \in CodeUnits /\ units[2] \in CodeUnits
           /\ units[1] = h \/ (OddPlane(h) /\ units[1] = h - 64)
           /\ units[2] = l
<1>1. h \in Int /\ l \in Int
  BY DEF CodeUnits
<1>2. /\ High(units[1]) /\ Low(units[2])
      /\ units[1] = h \/ (OddPlane(h) /\ units[1] = h - 64)
      /\ units[2] = l
  <2>1. units = Split(CombineSurrogates(h, l))
    OBVIOUS
  <2> QED
    BY <1>1, <2>1, PairArithmetic
<1>3. units[1] \in Int /\ units[2] \in Int
  BY ONLY <1>1, <1>2
<1> QED
  BY ONLY <1>2, <1>3 DEF High, Low, CodeUnits

\* The result grows by one or two units, or not yet.
LEMMA Steps ==
    ASSUME TypeOK, NextCodepoint
    PROVE  /\ pos' \in 1..End /\ high' \in CodeUnits /\ (high' = 0 \/ High(high'))
           /\ UNCHANGED <<input, answer>>
           /\ \/ out' = out
              \/ \E u \in CodeUnits, ok \in BOOLEAN : out' = out \o <<Shown(u, ok)>>
              \/ \E u, v \in CodeUnits, ok \in BOOLEAN :
                    out' = out \o <<Shown(u, ok), Shown(v, ok)>>
<1>1. /\ input \in Seq(Octets) /\ pos \in 1..End
      /\ high \in CodeUnits /\ (high = 0 \/ High(high))
  BY Zenon DEF TypeOK
<1>2. Len(input) \in Nat /\ End = Len(input) + 1 /\ End \in 1..End
  BY <1>1, EndType, Zenon
<1>3. HasUnit => U \in CodeUnits /\ Skip(Second + 1) \in 1..End
  <2> SUFFICES ASSUME HasUnit PROVE U \in CodeUnits /\ Skip(Second + 1) \in 1..End
    OBVIOUS
  <2>1. /\ pos \in 1..Len(input) /\ Second \in 1..Len(input)
        /\ Skip(Second + 1) \in 1..End
    BY <1>1, Positions, Zenon
  <2>2. Word(pos, Second) \in CodeUnits
    BY <1>1, <2>1, WordType, Zenon
  <2> QED
    BY <2>1, <2>2, Zenon DEF U
<1>4. Consume => U \in CodeUnits /\ pos' \in 1..End
  BY <1>3, Zenon DEF Consume
<1>5. 0 \in CodeUnits /\ TRUE \in BOOLEAN /\ FALSE \in BOOLEAN
  BY ONLY DEF CodeUnits
<1>6. CASE Bmp \/ LoneLow
  BY <1>4, <1>5, <1>6, Zenon DEF Bmp, LoneLow, Emit
<1>7. CASE FirstOfPair
  BY <1>4, <1>7, Zenon DEF FirstOfPair
<1>8. CASE Pair
  <2>1. PICK units \in {Split(CombineSurrogates(high, U))} :
           Emit(<<Shown(units[1], TRUE), Shown(units[2], TRUE)>>)
    BY <1>8, Zenon DEF Pair
  <2>2. units[1] \in CodeUnits /\ units[2] \in CodeUnits
    <3>1. high \in CodeUnits /\ U \in CodeUnits /\ High(high) /\ Low(U)
      BY <1>1, <1>4, <1>8, Zenon DEF Pair
    <3> QED
      BY <2>1, <3>1, PairUnits, Zenon
  <2> QED
    BY <1>4, <1>5, <1>8, <2>1, <2>2, Zenon DEF Pair, Emit
<1>9. CASE BadPair
  BY <1>1, <1>4, <1>5, <1>9, Zenon DEF BadPair, Emit
<1>10. CASE Incomplete
  <2>1. pos < End => input[pos] \in CodeUnits
    BY <1>1, SingleByte, Zenon
  <2> QED
    BY <1>1, <1>2, <1>5, <1>10, <2>1, Zenon DEF Incomplete, Emit
<1> QED
  BY <1>6, <1>7, <1>8, <1>9, <1>10, Zenon DEF NextCodepoint

(* Type correctness: every state is typed.                                 *)
THEOREM AppPathTypeCorrect == Spec => []TypeOK
<1>1. Init => TypeOK
  <2> SUFFICES ASSUME Init PROVE TypeOK
    OBVIOUS
  <2>1. input \in Seq(Octets)
    <3>1. PICK n \in 0..MaxLen : input \in [1..n -> Bytes]
      BY DEF Init
    <3>2. n \in Nat /\ Bytes \subseteq Octets
      BY AppPathAssumption
    <3> QED
      BY ONLY <3>1, <3>2
  <2>2. pos \in 1..End
    <3>1. Skip(1) \in 1..End
      BY <2>1, SkipType
    <3> QED
      BY <3>1, Zenon DEF Init
  <2>3. high = 0 /\ high \in CodeUnits
    BY DEF Init, CodeUnits
  <2>4. out \in Seq(Results) /\ answer = "none"
    BY DEF Init
  <2> QED
    BY <2>1, <2>2, <2>3, <2>4, Zenon DEF TypeOK
<1>2. TypeOK /\ [Next]_vars => TypeOK'
  <2> SUFFICES ASSUME TypeOK, [Next]_vars PROVE TypeOK'
    OBVIOUS
  <2>1. CASE NextCodepoint
    <3>1. /\ pos' \in 1..End /\ high' \in CodeUnits /\ (high' = 0 \/ High(high'))
          /\ input' = input /\ answer' = answer
          /\ \/ out' = out
             \/ \E u \in CodeUnits, ok \in BOOLEAN : out' = out \o <<Shown(u, ok)>>
             \/ \E u, v \in CodeUnits, ok \in BOOLEAN :
                   out' = out \o <<Shown(u, ok), Shown(v, ok)>>
      BY <2>1, Steps, Zenon
    <3>2. \A u \in CodeUnits, ok \in BOOLEAN : Shown(u, ok) \in Results
      BY DEF Shown, Results
    <3>3. out \in Seq(Results)
      BY Zenon DEF TypeOK
    <3>4. /\ \A e \in Results : out \o <<e>> \in Seq(Results)
          /\ \A e, f \in Results : out \o <<e, f>> \in Seq(Results)
      BY ONLY <3>3
    <3>6. out' \in Seq(Results)
      BY <3>1, <3>2, <3>3, <3>4, Zenon
    <3>5. End' = End
      BY <3>1, Zenon DEF End
    <3> QED
      BY <3>1, <3>6, <3>5, Zenon DEF TypeOK
  <2>2. CASE Return
    <3>1. UNCHANGED <<input, pos, high, out>> /\ answer' \in {"none", "path", "unknown"}
      BY <2>2 DEF Return
    <3>2. End' = End
      BY <3>1, Zenon DEF End
    <3> QED
      BY <3>1, <3>2, Zenon DEF TypeOK
  <2>3. CASE Returned \/ UNCHANGED vars
    <3>1. UNCHANGED <<input, pos, high, out, answer>>
      BY <2>3, Zenon DEF Returned, vars
    <3>2. End' = End
      BY <3>1, Zenon DEF End
    <3> QED
      BY <3>1, <3>2, Zenon DEF TypeOK
  <2> QED
    BY <2>1, <2>2, <2>3, Zenon DEF Next
<1> QED
  BY <1>1, <1>2, PTL DEF Spec

-----------------------------------------------------------------------------
(* The characters of the result.                                           *)

\* A unit may follow that is no surrogate or does not stand as a character.
LEMMA ExtendOne ==
    ASSUME NEW s \in Seq(Results), NEW e \in Results, WellFormed(s),
           e.ok => ~High(e.unit) /\ ~Low(e.unit)
    PROVE  s \o <<e>> \in Seq(Results) /\ WellFormed(s \o <<e>>)
<1>1. Len(s) \in Nat /\ Len(s \o <<e>>) = Len(s) + 1
  OBVIOUS
<1>2. \A i \in 1..Len(s) : (s \o <<e>>)[i] = s[i]
  OBVIOUS
<1>3. (s \o <<e>>)[Len(s) + 1] = e
  OBVIOUS
<1>4. WellFormed(s \o <<e>>)
  <2> DEFINE t == s \o <<e>>
  <2> HIDE DEF t
  <2>1. \A i \in 1..Len(s) : t[i] = s[i]
    BY <1>2 DEF t
  <2>2. Len(t) = Len(s) + 1 /\ t[Len(s) + 1] = e
    BY <1>1, <1>3 DEF t
  <2>3. WellFormed(t)
    BY ONLY <1>1, <2>1, <2>2, WellFormed(s),
            e.ok => ~High(e.unit) /\ ~Low(e.unit) DEF WellFormed
  <2> QED
    BY <2>3 DEF t
<1> QED
  BY <1>4

\* Appending two at once is appending one after the other.
LEMMA AppendTwo ==
    ASSUME NEW s \in Seq(Results), NEW e \in Results, NEW f \in Results
    PROVE  (s \o <<e>>) \o <<f>> = s \o <<e, f>>
<1> DEFINE t == s \o <<e>>
           v == t \o <<f>>
           w == s \o <<e, f>>
<1>1. t \in Seq(Results) /\ v \in Seq(Results) /\ w \in Seq(Results)
  OBVIOUS
<1>2. Len(s) \in Nat /\ Len(t) = Len(s) + 1
  OBVIOUS
<1>3. Len(v) = Len(s) + 2 /\ Len(w) = Len(s) + 2
  BY <1>1, <1>2
<1>4. \A i \in 1..Len(s) : t[i] = s[i] /\ w[i] = s[i]
  OBVIOUS
<1>5. t[Len(s) + 1] = e /\ w[Len(s) + 1] = e /\ w[Len(s) + 2] = f
  OBVIOUS
<1>6. \A i \in 1..Len(t) : v[i] = t[i]
  BY <1>1
<1>7. v[Len(t) + 1] = f
  BY <1>1
<1> HIDE DEF t, v, w
<1>8. \A i \in 1..(Len(s) + 2) : v[i] = w[i]
  BY ONLY <1>2, <1>4, <1>5, <1>6, <1>7
<1>9. v = w
  BY <1>1, <1>3, <1>8
<1> QED
  BY <1>9 DEF t, v, w

\* So may a whole pair.
LEMMA ExtendPair ==
    ASSUME NEW s \in Seq(Results), NEW e \in Results, NEW f \in Results,
           WellFormed(s), e.ok, f.ok, High(e.unit), Low(f.unit)
    PROVE  WellFormed(s \o <<e, f>>)
<1> DEFINE t == s \o <<e, f>>
<1>1. Len(s) \in Nat /\ Len(t) = Len(s) + 2
  OBVIOUS
<1>2. \A i \in 1..Len(s) : t[i] = s[i]
  OBVIOUS
<1>3. t[Len(s) + 1] = e /\ t[Len(s) + 2] = f
  OBVIOUS
<1>4. ~Low(e.unit) /\ ~High(f.unit)
  <2>1. e.unit \in Nat /\ f.unit \in Nat
    BY DEF Results, CodeUnits
  <2> QED
    BY ONLY <2>1, High(e.unit), Low(f.unit) DEF High, Low
<1> HIDE DEF t
<1>5. WellFormed(t)
  BY ONLY <1>1, <1>2, <1>3, <1>4, WellFormed(s), e.ok, f.ok,
          High(e.unit), Low(f.unit) DEF WellFormed
<1> QED
  BY <1>5 DEF t

(* Every surrogate shown as a character stands in a pair.                  *)
THEOREM OutputWellFormedHolds == Spec => []OutputWellFormed
<1>1. Init => OutputWellFormed
  BY DEF Init, OutputWellFormed, WellFormed
<1>2. TypeOK /\ OutputWellFormed /\ [Next]_vars => OutputWellFormed'
  <2> SUFFICES ASSUME TypeOK, OutputWellFormed, [Next]_vars PROVE WellFormed(out')
    BY Zenon DEF OutputWellFormed
  <2>1. /\ input \in Seq(Octets) /\ pos \in 1..End /\ out \in Seq(Results)
        /\ high \in CodeUnits /\ (high = 0 \/ High(high)) /\ WellFormed(out)
    BY Zenon DEF TypeOK, OutputWellFormed
  <2>2. \A u \in CodeUnits, ok \in BOOLEAN :
           /\ Shown(u, ok) \in Results
           /\ Shown(u, ok).unit = u /\ Shown(u, ok).ok = ok
    BY DEF Shown, Results
  <2>3. TRUE \in BOOLEAN /\ FALSE \in BOOLEAN
    OBVIOUS
  <2>4. \A u \in CodeUnits, ok \in BOOLEAN :
           (ok => ~High(u) /\ ~Low(u)) =>
              /\ out \o <<Shown(u, ok)>> \in Seq(Results)
              /\ WellFormed(out \o <<Shown(u, ok)>>)
    BY <2>1, <2>2, ExtendOne, Zenon
  <2>5. \A u, v \in CodeUnits : WellFormed(out \o <<Shown(u, FALSE), Shown(v, FALSE)>>)
    <3> SUFFICES ASSUME NEW u \in CodeUnits, NEW v \in CodeUnits
                 PROVE  WellFormed(out \o <<Shown(u, FALSE), Shown(v, FALSE)>>)
      OBVIOUS
    <3>1. /\ out \o <<Shown(u, FALSE)>> \in Seq(Results)
          /\ WellFormed(out \o <<Shown(u, FALSE)>>)
      BY <2>3, <2>4, Zenon
    <3>2. WellFormed((out \o <<Shown(u, FALSE)>>) \o <<Shown(v, FALSE)>>)
      BY <2>2, <2>3, <3>1, ExtendOne, Zenon
    <3>3. \A e, f \in Results : (out \o <<e>>) \o <<f>> = out \o <<e, f>>
      BY <2>1, AppendTwo, Zenon
    <3> QED
      BY <2>2, <2>3, <3>2, <3>3, Zenon
  <2>6. HasUnit => U \in CodeUnits
    BY <2>1, Positions, WordType, Zenon DEF U
  <2>7. CASE Bmp \/ LoneLow
    BY <2>3, <2>4, <2>6, <2>7, Zenon DEF Bmp, LoneLow, Consume, Emit
  <2>8. CASE Pair
    <3>1. PICK units \in {Split(CombineSurrogates(high, U))} :
             Emit(<<Shown(units[1], TRUE), Shown(units[2], TRUE)>>)
      BY <2>8, Zenon DEF Pair
    <3>2. high \in CodeUnits /\ U \in CodeUnits /\ High(high) /\ Low(U)
      BY <2>1, <2>6, <2>8, Zenon DEF Pair, Consume
    <3>3. High(units[1]) /\ Low(units[2]) /\ units[1] \in CodeUnits /\ units[2] \in CodeUnits
      BY <3>1, <3>2, PairUnits, Zenon
    <3>4. WellFormed(out \o <<Shown(units[1], TRUE), Shown(units[2], TRUE)>>)
      BY <2>1, <2>2, <2>3, <3>3, ExtendPair, Zenon
    <3> QED
      BY <3>1, <3>4, Zenon DEF Emit
  <2>9. CASE BadPair
    BY <2>1, <2>5, <2>6, <2>9, Zenon DEF BadPair, Consume, Emit
  <2>10. CASE Incomplete
    <3>1. pos < End => input[pos] \in CodeUnits
      BY <2>1, SingleByte, Zenon
    <3>2. WellFormed(out')
      BY <2>1, <2>3, <2>4, <2>10, <3>1, Zenon DEF Incomplete, Emit
    <3> QED
      BY <3>2
  <2>11. CASE FirstOfPair \/ Return \/ Returned \/ UNCHANGED vars
    <3>1. out' = out
      BY <2>11, Zenon DEF FirstOfPair, Return, Returned, vars
    <3> QED
      BY <2>1, <3>1, Zenon
  <2> QED
    BY <2>7, <2>8, <2>9, <2>10, <2>11, Zenon DEF Next, NextCodepoint
<1> QED
  BY <1>1, <1>2, AppPathTypeCorrect, PTL DEF Spec

-----------------------------------------------------------------------------
(* Every unit is shown at its place.                                       *)

(* Where the reader stands in data without white space.                    *)
Progress ==
    SpaceFree =>
        \/ high = 0 /\ pos = 2 * Len(out) + 1
        \/ high = 0 /\ pos = End /\ Len(out) >= Units
        \/ high = Unit(Len(out) + 1) /\ High(high) /\ pos = 2 * Len(out) + 3

\* The units of the result are where they belong.
Placed(s) == \A i \in 1..Len(s) : i <= Units => Shows(s[i], i)

LEMMA PlaceOne ==
    ASSUME NEW s \in Seq(Results), NEW e \in Results, Placed(s),
           Len(s) + 1 <= Units => Shows(e, Len(s) + 1)
    PROVE  Placed(s \o <<e>>) /\ s \o <<e>> \in Seq(Results)
           /\ Len(s \o <<e>>) = Len(s) + 1 /\ Len(s) \in Nat
<1> DEFINE t == s \o <<e>>
<1>1. Len(s) \in Nat /\ Len(t) = Len(s) + 1
  OBVIOUS
<1>2. \A i \in 1..Len(s) : t[i] = s[i]
  OBVIOUS
<1>3. t[Len(s) + 1] = e
  OBVIOUS
<1>4. t \in Seq(Results)
  OBVIOUS
<1> HIDE DEF t
<1>5. Placed(t)
  <2> SUFFICES ASSUME NEW i \in 1..Len(t), i <= Units PROVE Shows(t[i], i)
    BY Zenon DEF Placed
  <2>1. i \in 1..Len(s) \/ i = Len(s) + 1
    BY ONLY <1>1, i \in 1..Len(t)
  <2>2. CASE i \in 1..Len(s)
    BY <1>2, <2>2, Zenon DEF Placed
  <2>3. CASE i = Len(s) + 1
    BY <1>3, <2>3, Zenon
  <2> QED
    BY <2>1, <2>2, <2>3
<1> QED
  BY <1>1, <1>4, <1>5 DEF t

LEMMA PlaceTwo ==
    ASSUME NEW s \in Seq(Results), NEW e \in Results, NEW f \in Results, Placed(s),
           Len(s) + 1 <= Units => Shows(e, Len(s) + 1),
           Len(s) + 2 <= Units => Shows(f, Len(s) + 2)
    PROVE  /\ Placed(s \o <<e, f>>)
           /\ Len(s \o <<e, f>>) = Len(s) + 2 /\ Len(s) \in Nat
<1> DEFINE t == s \o <<e>>
<1>1. Placed(t) /\ t \in Seq(Results) /\ Len(t) = Len(s) + 1 /\ Len(s) \in Nat
  BY PlaceOne
<1> HIDE DEF t
<1>2. Len(t) + 1 = Len(s) + 2
  BY ONLY <1>1
<1>3. Placed(t \o <<f>>) /\ Len(t \o <<f>>) = Len(t) + 1
  BY <1>1, <1>2, PlaceOne, Zenon
<1>4. t \o <<f>> = s \o <<e, f>>
  BY AppendTwo, Zenon DEF t
<1> QED
  BY <1>1, <1>2, <1>3, <1>4, Zenon

\* Without white space the units are read one after the other.
LEMMA Reading ==
    ASSUME TypeOK, SpaceFree, HasUnit
    PROVE  /\ pos + 2 \in 1..End /\ U = Word(pos, pos + 1)
           /\ Skip(Second + 1) = pos + 2
<1>1. input \in Seq(Octets) /\ pos \in 1..End
  BY Zenon DEF TypeOK
<1>2. Len(input) \in Nat /\ End = Len(input) + 1
  BY <1>1, EndType, Zenon
<1>3. pos < End /\ Second < End
  BY Zenon DEF HasUnit
<1>4. pos + 1 \in 1..End
  BY ONLY <1>1, <1>2, <1>3
<1>5. Second = pos + 1
  BY <1>1, <1>4, SkipNothing, Zenon DEF Second
<1>6. Second + 1 \in 1..End /\ Second + 1 = pos + 2
  BY ONLY <1>1, <1>2, <1>3, <1>4, <1>5
<1>7. Skip(Second + 1) = Second + 1
  BY <1>1, <1>6, SkipNothing, Zenon
<1> QED
  BY <1>5, <1>6, <1>7, Zenon DEF U

\* The data is only read.
LEMMA InputStays ==
    ASSUME TypeOK, [Next]_vars
    PROVE  input' = input
<1>1. CASE NextCodepoint
  BY <1>1, Steps, Zenon
<1>2. CASE Return \/ Returned \/ UNCHANGED vars
  BY <1>2, Zenon DEF Return, Returned, vars
<1> QED
  BY <1>1, <1>2, Zenon DEF Next

(* Without white space the reader keeps its place, and what it has read is *)
(* in the result; Progress is what makes UnitsShown inductive.             *)
THEOREM ReaderKeepsPlace == Spec => [](Progress /\ UnitsShown)
<1>1. Init => Progress /\ UnitsShown
  <2> SUFFICES ASSUME Init, SpaceFree
               PROVE  /\ high = 0 /\ pos = 2 * Len(out) + 1
                      /\ UnitsShown
    BY DEF Progress, UnitsShown
  <2>1. input \in Seq(Octets)
    <3>1. PICK n \in 0..MaxLen : input \in [1..n -> Bytes]
      BY DEF Init
    <3>2. n \in Nat /\ Bytes \subseteq Octets
      BY AppPathAssumption
    <3> QED
      BY ONLY <3>1, <3>2
  <2>2. 1 \in 1..End
    BY <2>1, EndType
  <2>3. pos = 1 /\ high = 0 /\ out = <<>> /\ answer = "none"
    BY <2>1, <2>2, SkipNothing, Zenon DEF Init
  <2> QED
    BY ONLY <2>3 DEF UnitsShown
<1>2. TypeOK /\ Progress /\ UnitsShown /\ [Next]_vars => (Progress /\ UnitsShown)'
  <2> SUFFICES ASSUME TypeOK, Progress, UnitsShown, [Next]_vars
               PROVE  (Progress /\ UnitsShown)'
    OBVIOUS
  <2>4. input' = input
    BY InputStays, Zenon
  <2> SUFFICES ASSUME SpaceFree PROVE (Progress /\ UnitsShown)'
    BY <2>4, Zenon DEF Progress, UnitsShown, SpaceFree
  <2> DEFINE L == Len(out)
             N == Len(input)
  <2>1. /\ input \in Seq(Octets) /\ pos \in 1..End /\ out \in Seq(Results)
        /\ high \in CodeUnits /\ (high = 0 \/ High(high))
    BY Zenon DEF TypeOK
  <2>2. L \in Nat /\ N \in Nat /\ End = N + 1 /\ Units = N \div 2
    BY <2>1, EndType DEF Units
  <2>3. Placed(out) /\ (answer /= "none" => L >= Units)
    BY Zenon DEF UnitsShown, Placed
  <2>5. /\ End' = End /\ Units' = Units
        /\ \A i : Unit(i)' = Unit(i)
        /\ Placed(out') => \A i \in 1..Len(out') : i <= Units => Shows(out'[i], i)
    BY <2>4, Zenon DEF End, Units, Unit, Word, Placed
  <2>6. SUFFICES /\ Placed(out') /\ (answer' /= "none" => Len(out') >= Units)
                 /\ \/ high' = 0 /\ pos' = 2 * Len(out') + 1
                    \/ high' = 0 /\ pos' = End /\ Len(out') >= Units
                    \/ /\ high' = Unit(Len(out') + 1) /\ High(high')
                       /\ pos' = 2 * Len(out') + 3
    <3>1. \A i \in 1..Len(out') : Shows(out'[i], i) => Shows(out[i], i)'
      BY <2>4, Zenon DEF Shows, Unit, Word
    <3>2. UnitsShown'
      BY <2>5, <2>6, <3>1, Zenon DEF UnitsShown
    <3>3. Progress'
      BY <2>5, <2>6, Zenon DEF Progress
    <3> QED
      BY <3>2, <3>3, Zenon
  <2>7. \A u \in CodeUnits, ok \in BOOLEAN :
           /\ Shown(u, ok) \in Results
           /\ Shown(u, ok).unit = u /\ Shown(u, ok).ok = ok
    BY DEF Shown, Results
  <2>8. TRUE \in BOOLEAN /\ FALSE \in BOOLEAN
    OBVIOUS
  <2>9. HasUnit => U \in CodeUnits
    BY <2>1, Positions, WordType, Zenon DEF U
  <2>10. HasUnit => /\ pos + 2 \in 1..End /\ U = Word(pos, pos + 1)
                    /\ Skip(Second + 1) = pos + 2
    BY Reading, Zenon
  <2>11. \/ high = 0 /\ pos = 2 * L + 1
         \/ high = 0 /\ pos = End /\ L >= Units
         \/ high = Unit(L + 1) /\ High(high) /\ pos = 2 * L + 3
    BY Zenon DEF Progress
  <2>12. High(high) => high /= 0
    BY ONLY DEF High
  <2>13. HasUnit => pos < End
    BY Zenon DEF HasUnit
  <2>14. ASSUME high = 0, HasUnit
         PROVE  /\ pos = 2 * L + 1 /\ U = Unit(L + 1)
                /\ pos + 2 = 2 * (L + 1) + 1 /\ pos + 2 = 2 * L + 3
    <3>1. pos = 2 * L + 1
      BY ONLY <2>1, <2>2, <2>11, <2>12, <2>13, <2>14
    <3>2. 2 * (L + 1) - 1 = 2 * L + 1 /\ 2 * (L + 1) = pos + 1
      BY ONLY <2>2, <3>1
    <3>3. U = Unit(L + 1)
      BY <2>10, <2>14, <3>1, <3>2, Zenon DEF Unit
    <3> QED
      BY ONLY <2>2, <3>1, <3>3
  <2>15. ASSUME high /= 0, HasUnit
         PROVE  /\ high = Unit(L + 1) /\ pos = 2 * L + 3 /\ U = Unit(L + 2)
                /\ pos + 2 = 2 * (L + 2) + 1
    <3>1. high = Unit(L + 1) /\ pos = 2 * L + 3
      BY <2>11, <2>15, Zenon
    <3>2. 2 * (L + 2) - 1 = pos /\ 2 * (L + 2) = pos + 1 /\ pos + 2 = 2 * (L + 2) + 1
      BY ONLY <2>2, <3>1
    <3>3. U = Unit(L + 2)
      BY <2>10, <2>15, <3>2, Zenon DEF Unit
    <3> QED
      BY <3>1, <3>2, <3>3
  <2>16. CASE Bmp \/ LoneLow
    <3>1. /\ high = 0 /\ HasUnit /\ high' = 0 /\ answer' = answer
          /\ pos' = Skip(Second + 1)
          /\ \E ok \in BOOLEAN : out' = out \o <<Shown(U, ok)>>
      BY <2>8, <2>16, Zenon DEF Bmp, LoneLow, Consume, Emit
    <3>2. PICK ok \in BOOLEAN : out' = out \o <<Shown(U, ok)>>
      BY <3>1
    <3>3. Shows(Shown(U, ok), L + 1) /\ Shown(U, ok) \in Results
      BY <2>7, <2>9, <2>14, <3>1, Zenon DEF Shows
    <3>4. Placed(out') /\ Len(out') = L + 1
      BY <2>1, <2>3, <3>2, <3>3, PlaceOne, Zenon
    <3>5. pos' = 2 * Len(out') + 1
      BY <2>10, <2>14, <3>1, <3>4, Zenon
    <3>6. answer' /= "none" => Len(out') >= Units
      BY ONLY <2>2, <2>3, <3>1, <3>4
    <3> QED
      BY <3>1, <3>4, <3>5, <3>6, Zenon
  <2>17. CASE FirstOfPair
    <3>1. /\ high = 0 /\ HasUnit /\ high' = U /\ High(U)
          /\ answer' = answer /\ out' = out /\ pos' = Skip(Second + 1)
      BY <2>17, Zenon DEF FirstOfPair, Consume
    <3> QED
      BY <2>3, <2>10, <2>14, <3>1, Zenon
  <2>18. CASE Pair \/ BadPair
    <3>1. /\ high /= 0 /\ HasUnit /\ high' = 0 /\ answer' = answer
          /\ pos' = Skip(Second + 1)
      BY <2>18, Zenon DEF Pair, BadPair, Consume, Emit
    <3>2. \E e, f \in Results : /\ out' = out \o <<e, f>>
                                /\ Shows(e, L + 1) /\ Shows(f, L + 2)
      <4>1. CASE Pair
        <5>1. PICK units \in {Split(CombineSurrogates(high, U))} :
                 Emit(<<Shown(units[1], TRUE), Shown(units[2], TRUE)>>)
          BY <4>1, Zenon DEF Pair
        <5>2. High(high) /\ Low(U) /\ U \in CodeUnits
          BY <2>1, <2>9, <3>1, <4>1, Zenon DEF Pair
        <5>3. /\ units[1] \in CodeUnits /\ units[2] \in CodeUnits
              /\ units[1] = high \/ (OddPlane(high) /\ units[1] = high - 64)
              /\ units[2] = U
          <6>1. units = Split(CombineSurrogates(high, U))
            BY ONLY <5>1, Zenon
          <6>2. high \in CodeUnits
            BY <2>1, Zenon
          <6> QED
            BY ONLY <5>2, <6>1, <6>2, PairUnits, Zenon
        <5>4. Shows(Shown(units[1], TRUE), L + 1) /\ Shows(Shown(units[2], TRUE), L + 2)
          BY <2>7, <2>8, <2>15, <3>1, <5>3, Zenon DEF Shows
        <5> QED
          BY <2>7, <2>8, <5>1, <5>3, <5>4, Zenon DEF Emit
      <4>2. CASE BadPair
        <5>1. out' = out \o <<Shown(high, FALSE), Shown(U, FALSE)>>
          BY <4>2, Zenon DEF BadPair, Emit
        <5>2. Shows(Shown(high, FALSE), L + 1) /\ Shows(Shown(U, FALSE), L + 2)
          BY <2>1, <2>7, <2>8, <2>9, <2>15, <3>1, Zenon DEF Shows
        <5> QED
          BY <2>1, <2>7, <2>8, <2>9, <3>1, <5>1, <5>2, Zenon
      <4> QED
        BY <2>18, <4>1, <4>2
    <3>3. Placed(out') /\ Len(out') = L + 2
      BY <2>1, <2>3, <3>2, PlaceTwo, Zenon
    <3>4. pos' = 2 * Len(out') + 1
      BY <2>10, <2>15, <3>1, <3>3, Zenon
    <3>5. answer' /= "none" => Len(out') >= Units
      BY ONLY <2>2, <2>3, <3>1, <3>3
    <3> QED
      BY <3>1, <3>3, <3>4, <3>5, Zenon
  <2>19. CASE Incomplete
    <3>1. ~HasUnit /\ pos' = End /\ high' = 0 /\ answer' = answer
      BY <2>19, Zenon DEF Incomplete, Emit
    <3>2. pos = End \/ pos + 1 = End
      <4>1. CASE pos < End
        <5>1. pos + 1 \in 1..End
          BY ONLY <2>1, <2>2, <4>1
        <5>2. Second = pos + 1
          BY <2>1, <5>1, SkipNothing, Zenon DEF Second
        <5>3. ~(Second < End)
          BY <3>1, <4>1, Zenon DEF HasUnit
        <5> QED
          BY ONLY <2>2, <5>1, <5>2, <5>3
      <4> QED
        BY ONLY <2>1, <2>2, <4>1
    <3>3. CASE high = 0
      <4>1. pos < End /\ out' = out \o <<Shown(input[pos], FALSE)>>
        BY <2>19, <3>3, Zenon DEF Incomplete, Emit
      <4>2. Shown(input[pos], FALSE) \in Results
        BY <2>1, <2>7, <2>8, <4>1, SingleByte, Zenon
      <4>3. pos = 2 * L + 1
        BY ONLY <2>1, <2>2, <2>11, <2>12, <3>3, <4>1
      <4>4. Units = L
        BY ONLY <2>2, <3>2, <4>1, <4>3
      <4>5. ~(L + 1 <= Units)
        BY ONLY <2>2, <4>4
      <4>6. Placed(out') /\ Len(out') = L + 1
        BY <2>1, <2>3, <4>1, <4>2, <4>5, PlaceOne, Zenon
      <4>7. Len(out') >= Units
        BY ONLY <2>2, <4>4, <4>6
      <4> QED
        BY <3>1, <4>6, <4>7, Zenon
    <3>4. CASE high /= 0
      <4>1. out' = out \o <<Shown(high, FALSE)>>
        BY <2>19, <3>4, Zenon DEF Incomplete, Emit
      <4>2. high = Unit(L + 1) /\ pos = 2 * L + 3
        BY <2>11, <3>4, Zenon
      <4>3. Shown(high, FALSE) \in Results /\ Shows(Shown(high, FALSE), L + 1)
        BY <2>1, <2>7, <2>8, <4>2, Zenon DEF Shows
      <4>4. Placed(out') /\ Len(out') = L + 1
        BY <2>1, <2>3, <4>1, <4>3, PlaceOne, Zenon
      <4>5. Units = L + 1
        BY ONLY <2>2, <3>2, <4>2
      <4>6. Len(out') >= Units
        BY ONLY <2>2, <4>4, <4>5
      <4> QED
        BY <3>1, <4>4, <4>6, Zenon
    <3> QED
      BY <3>3, <3>4
  <2>20. CASE Return
    <3>1. /\ pos = End /\ high = 0
          /\ pos' = pos /\ high' = high /\ out' = out
      BY <2>20, Zenon DEF Return
    <3>2. L >= Units
      BY ONLY <2>2, <2>11, <2>12, <3>1
    <3>3. Len(out') >= Units
      BY <3>1, <3>2, Zenon
    <3> QED
      BY <2>3, <3>1, <3>3, Zenon
  <2>21. CASE Returned \/ UNCHANGED vars
    <3>1. pos' = pos /\ high' = high /\ out' = out /\ answer' = answer
      BY <2>21, Zenon DEF Returned, vars
    <3> QED
      BY <2>3, <2>11, <3>1, Zenon
  <2> QED
    BY <2>16, <2>17, <2>18, <2>19, <2>20, <2>21, Zenon DEF Next, NextCodepoint
<1> QED
  BY <1>1, <1>2, AppPathTypeCorrect, PTL DEF Spec

(* Data without white space: every unit is shown, in order.                *)
THEOREM UnitsShownHolds == Spec => []UnitsShown
<1> QED
  BY ReaderKeepsPlace, PTL

-----------------------------------------------------------------------------
(* The loop ends.                                                          *)

\* Twice the bytes that are left, and the surrogate that waits for another.
Left == 2 * (End - pos) + (IF high = 0 THEN 0 ELSE 1)

(* Every call of nextCodepoint() uses something up, a byte or the high     *)
(* surrogate it has read, whatever the data are: the loop of getAppPath()  *)
(* makes finitely many.                                                    *)
THEOREM EveryCallConsumes ==
    Spec => [][NextCodepoint => Left' \in Nat /\ Left' < Left]_vars
<1>1. ASSUME TypeOK, NextCodepoint
      PROVE  Left' \in Nat /\ Left' < Left
  <2>1. /\ input \in Seq(Octets) /\ pos \in 1..End
        /\ End \in Nat /\ End = Len(input) + 1
    <3>1. input \in Seq(Octets) /\ pos \in 1..End
      BY <1>1, Zenon DEF TypeOK
    <3>2. Len(input) \in Nat /\ End = Len(input) + 1
      BY <3>1, EndType, Zenon
    <3> QED
      BY ONLY <3>1, <3>2
  <2>2. input' = input /\ pos' \in 1..End
    BY <1>1, Steps, Zenon
  <2>3. End' = End
    BY <2>2, Zenon DEF End
  <2>4. Consume => pos' \in (pos + 2)..End
    <3> SUFFICES ASSUME Consume PROVE pos' \in (pos + 2)..End
      OBVIOUS
    <3>1. /\ pos < End /\ Second < End /\ pos' = Skip(Second + 1)
          /\ Second = Skip(pos + 1)
      BY Zenon DEF Consume, HasUnit, Second
    <3>2. pos + 1 \in Nat \ {0} /\ pos + 1 <= End
      BY ONLY <2>1, <3>1
    <3>3. Second \in 1..End /\ pos + 1 <= Second
      BY <2>1, <3>1, <3>2, SkipType
    <3>4. Second + 1 \in Nat \ {0} /\ Second + 1 <= End
      BY ONLY <2>1, <3>1, <3>3
    <3>5. pos' \in 1..End /\ Second + 1 <= pos'
      BY <2>1, <3>1, <3>4, SkipType
    <3> QED
      BY ONLY <2>1, <3>3, <3>5
  <2>5. CASE Consume
    <3>1. pos' \in (pos + 2)..End
      BY <2>4, <2>5
    <3> QED
      BY ONLY <2>1, <2>3, <3>1 DEF Left
  <2>6. CASE Incomplete
    <3>1. /\ pos' = End /\ high' = 0
          /\ high = 0 => pos < End
      BY <2>6 DEF Incomplete, Emit
    <3>2. Left' = 0
      BY ONLY <2>1, <2>3, <3>1 DEF Left
    <3>3. Left \in Nat /\ Left # 0
      BY ONLY <2>1, <3>1 DEF Left
    <3> QED
      BY ONLY <3>2, <3>3
  <2> QED
    BY <1>1, <2>5, <2>6, Zenon
       DEF NextCodepoint, Bmp, LoneLow, FirstOfPair, Pair, BadPair
<1>2. TypeOK /\ [Next]_vars
        => [NextCodepoint => Left' \in Nat /\ Left' < Left]_vars
  BY <1>1
<1> QED
  BY <1>2, AppPathTypeCorrect, PTL DEF Spec

=============================================================================
