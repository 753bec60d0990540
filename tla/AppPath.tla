------------------------------ MODULE AppPath ------------------------------
(***************************************************************************)
(* FwpmNetEventHeader::getAppPath() (local-ip-proxy/FwpmNetEventHeader.hpp)*)
(* with the UTF-16 reader it calls (local-ip-proxy/UTF16.hpp): the bytes   *)
(* of an application's path become the code units of the name its events   *)
(* are counted under, and what is not UTF-16 becomes hexadecimal numbers   *)
(* between marks.  A unit of the result is a number with the fact whether  *)
(* it stands there as a character or as such a number.                     *)
(***************************************************************************)
EXTENDS Integers, Sequences

CONSTANTS Bytes,   \* the bytes that the data may hold
          MaxLen   \* bound: length of the data

\* The values of a byte, UINT8.
Octets == {b \in Nat : b < 256}

ASSUME AppPathAssumption ==
    /\ Bytes \subseteq Octets
    /\ MaxLen \in Nat

VARIABLES
    input,   \* appId.data
    pos,     \* where the byte stands that the iterator holds
    high,    \* a high surrogate whose low one is still to be read, or 0
    out,     \* the units appended to the result
    answer   \* "none" until getAppPath() returns

vars == <<input, pos, high, out, answer>>

\* The bytes that operator>> for char skips in the classic locale.
Space == {9, 10, 11, 12, 13, 32}

\* The values of a code unit, char16_t.
CodeUnits == {u \in Nat : u < 65536}

High(u) == 55296 <= u /\ u < 56320   \* 0xD800 to 0xDBFF
Low(u)  == 56320 <= u /\ u < 57344   \* 0xDC00 to 0xDFFF

\* combineSurrogates: the last summand is joined by a bitwise or.
CombineSurrogates(h, l) ==
    LET x == (h - 55296) * 1024 + (l - 56320)
    IN  IF (x \div 65536) % 2 = 1 THEN x ELSE x + 65536

\* What getAppPath() makes of a code point above 0xFFFF.
Split(cp) == << 55296 + (cp - 65536) \div 1024, 56320 + ((cp - 65536) % 1024) >>

-----------------------------------------------------------------------------
(* The iterator.                                                           *)

End == Len(input) + 1

\* The first byte from i on that is not skipped, or the end.
Skip(i) == CHOOSE j \in 1..End :
              /\ j = End \/ (i <= j /\ input[j] \notin Space)
              /\ \A k \in i..(j - 1) : k \in 1..Len(input) => input[k] \in Space

\* The position of the second byte of a unit; behind it goes on what follows.
Second == Skip(pos + 1)

HasUnit == pos < End /\ Second < End

\* Variant: the second byte stays a signed char.
WordSigned(i, j) ==
    input[i] + 256 * (IF input[j] > 127 THEN input[j] - 256 ELSE input[j])

Word(i, j) == input[i] + 256 * input[j]

\* Variant: the bytes are taken in the other order.
USwapped == Word(Second, pos)

U == Word(pos, Second)

Init ==
    /\ input \in UNION {[1..n -> Bytes] : n \in 0..MaxLen}
    /\ pos = Skip(1)
    /\ high = 0
    /\ out = <<>>
    /\ answer = "none"

-----------------------------------------------------------------------------
(* One iteration of the loop, by what nextCodepoint() finds.               *)

Results == [unit : CodeUnits, ok : BOOLEAN]

Shown(u, ok) == [unit |-> u, ok |-> ok]

\* nextCodepoint() returns, and getAppPath() appends what it has found.
Emit(units) ==
    /\ out' = out \o units
    /\ high' = 0
    /\ UNCHANGED <<input, answer>>

Consume == HasUnit /\ pos' = Skip(Second + 1)

Bmp ==
    /\ high = 0 /\ Consume
    /\ ~High(U) /\ ~Low(U)
    /\ Emit(<<Shown(U, TRUE)>>)

\* Variant: a lone surrogate is appended as it is.
LoneLowShown ==
    /\ high = 0 /\ Consume
    /\ Low(U)
    /\ Emit(<<Shown(U, TRUE)>>)

\* Variant: the reader reports the error and does not move on.
LoneLowAgain == high = 0 /\ HasUnit /\ Low(U) /\ UNCHANGED vars

LoneLow ==
    /\ high = 0 /\ Consume
    /\ Low(U)
    /\ Emit(<<Shown(U, FALSE)>>)

\* The low surrogate has yet to be read.
FirstOfPair ==
    /\ high = 0 /\ Consume
    /\ High(U)
    /\ high' = U
    /\ UNCHANGED <<input, out, answer>>

Pair ==
    /\ high /= 0 /\ Consume
    /\ Low(U)
    /\ \E units \in {Split(CombineSurrogates(high, U))} :
          Emit(<<Shown(units[1], TRUE), Shown(units[2], TRUE)>>)

BadPair ==
    /\ high /= 0 /\ Consume
    /\ ~Low(U)
    /\ Emit(<<Shown(high, FALSE), Shown(U, FALSE)>>)

\* INCOMPLETE_PAIR: a single byte, or no low surrogate after a high one; the
\* loop drops what is left.
Incomplete ==
    /\ ~HasUnit
    /\ \/ high = 0 /\ pos < End /\ Emit(<<Shown(input[pos], FALSE)>>)
       \/ high /= 0 /\ Emit(<<Shown(high, FALSE)>>)
    /\ pos' = End

Return ==
    /\ answer = "none" /\ pos = End /\ high = 0
    /\ answer' = IF out = <<>> THEN "unknown" ELSE "path"
    /\ UNCHANGED <<input, pos, high, out>>

Returned == answer /= "none" /\ UNCHANGED vars

NextCodepoint ==
    Bmp \/ LoneLow \/ FirstOfPair \/ Pair \/ BadPair \/ Incomplete

Next == NextCodepoint \/ Return \/ Returned

Spec == Init /\ [][Next]_vars

\* The loop is sequential code and runs.
FairSpec == Spec /\ WF_vars(Next)

-----------------------------------------------------------------------------
(* Properties.                                                             *)

TypeOK ==
    /\ input \in Seq(Octets)
    /\ pos \in 1..End
    /\ high \in CodeUnits /\ (high = 0 \/ High(high))
    /\ out \in Seq(Results)
    /\ answer \in {"none", "path", "unknown"}

SpaceFree == \A i \in 1..Len(input) : input[i] \notin Space

\* The i-th code unit of the data.
Unit(i) == Word(2 * i - 1, 2 * i)
Units == Len(input) \div 2

\* A high surrogate whose plane loses a bit in CombineSurrogates.
OddPlane(u) == High(u) /\ ((u - 55296) \div 64) % 2 = 1

\* What stands in the result for the i-th unit of the data.
Shows(e, i) ==
    \/ e.unit = Unit(i)
    \/ OddPlane(Unit(i)) /\ e.ok /\ e.unit = Unit(i) - 64

(* Data without a byte that reads as white space: every code unit is in    *)
(* the result, in order and at its place, as a character or as a number;   *)
(* the only change is the bit that some surrogates lose.                   *)
UnitsShown ==
    SpaceFree =>
        /\ answer /= "none" => Len(out) >= Units
        /\ \A i \in 1..Len(out) : i <= Units => Shows(out[i], i)

\* A surrogate only ever stands in a pair.
WellFormed(s) ==
    \A i \in 1..Len(s) :
        s[i].ok =>
            /\ High(s[i].unit) => i < Len(s) /\ s[i + 1].ok /\ Low(s[i + 1].unit)
            /\ Low(s[i].unit)  => i > 1 /\ s[i - 1].ok /\ High(s[i - 1].unit)

(* Whatever the bytes are, what the result shows as characters is          *)
(* well-formed UTF-16.                                                     *)
OutputWellFormed == WellFormed(out)

(* The loop ends for every input: each error consumes something.           *)
Returns == <>(answer /= "none")

(* The comment on nextCodepoint(): "The iterator should yield bytes; two   *)
(* bytes are consumed per code unit": what was read has taken two each.    *)
TwoBytesPerUnit ==
    out /= <<>> /\ high = 0 /\ pos < End => pos = 2 * Len(out) + 1

(* The comment on nextCodepoint(): it "Reads the next UTF-16 codepoint".   *)
(* A surrogate pair that is read is the pair in the data.                  *)
PairsAreRead ==
    SpaceFree =>
        \A i \in 1..Len(out) : out[i].ok /\ i <= Units => out[i].unit = Unit(i)

=============================================================================
