-------------------------------- MODULE Utf8 --------------------------------
(***************************************************************************)
(* UTF-8 as the repository writes and reads it: append_utf8()              *)
(* (lib-ansi_ui/include/ansi_ui/console.hpp), by which the console library *)
(* puts code points out, and UTF8::nextCodepoint()                         *)
(* (local-ip-proxy/UTF8.hpp), called until the data are used up, be they   *)
(* what append_utf8() wrote, any other bytes, or a text behind some bytes  *)
(* of whatever kind.                                                       *)
(***************************************************************************)
EXTENDS Integers, Sequences, SequencesExt

CONSTANTS Bytes,       \* the bytes that arbitrary data may hold
          MaxLen,      \* bound: length of arbitrary data
          CodePoints,  \* the numbers a program passes to append_utf8()
          MaxChars,    \* bound: their number
          MaxDamage    \* bound: arbitrary bytes in front of a text

\* The values of a byte.
Octets == {b \in Nat : b < 256}

ASSUME Utf8Assumption ==
    /\ Bytes \subseteq Octets
    /\ CodePoints \subseteq Nat
    /\ MaxLen \in Nat /\ MaxChars \in Nat /\ MaxDamage \in Nat

VARIABLES
    junk,  \* the number of arbitrary bytes at the beginning of the data
    text,  \* what a reader is to get of the text that was written behind them
    rest,  \* the bytes that the iterator has still to yield
    read   \* what nextCodepoint() has reported, with the bytes it took

utf8Vars == <<junk, text, rest, read>>

Surrogate(ch) == 55296 <= ch /\ ch <= 57343
Replacement == 65533

\* The code point that append_utf8() writes.
Writes(ch) == IF Surrogate(ch) \/ ch > 1114111 THEN Replacement ELSE ch

\* The byte that carries six bits of a code point.
Tail6(bits) == 128 + (bits % 64)

\* Variant: two bytes reach one code point too far.
AppendUtf8TooShort(ch) ==
    LET c == Writes(ch)
    IN  IF c <= 127 THEN <<c>>
        ELSE IF c <= 2048 THEN <<192 + ((c \div 64) % 32), Tail6(c)>>
        ELSE IF c <= 65535 THEN
               <<224 + c \div 4096, Tail6(c \div 64), Tail6(c)>>
        ELSE <<240 + c \div 262144, Tail6(c \div 4096), Tail6(c \div 64),
               Tail6(c)>>

(* append_utf8()                                                           *)
AppendUtf8(ch) ==
    LET c == Writes(ch)
    IN  IF c <= 127 THEN <<c>>
        ELSE IF c <= 2047 THEN <<192 + c \div 64, Tail6(c)>>
        ELSE IF c <= 65535 THEN
               <<224 + c \div 4096, Tail6(c \div 64), Tail6(c)>>
        ELSE <<240 + c \div 262144, Tail6(c \div 4096), Tail6(c \div 64),
               Tail6(c)>>

\* std::istream_iterator<char> skips what operator>> skips.
Space == {9, 10, 11, 12, 13, 32}
Yielded(bytes) ==
    LET upTo[n \in 0..Len(bytes)] ==
          IF n = 0 THEN <<>>
          ELSE IF bytes[n] \in Space THEN upTo[n - 1]
          ELSE Append(upTo[n - 1], bytes[n])
    IN  upTo[Len(bytes)]

-----------------------------------------------------------------------------
\* expectedByteCount()
ExpectedByteCount(byte) ==
    IF byte < 128 THEN 1
    ELSE IF byte \in 192..223 THEN 2
    ELSE IF byte \in 224..239 THEN 3
    ELSE IF byte \in 240..247 THEN 4
    ELSE 0

\* isValidContinuationByte()
Continuation(byte) == byte \in 128..191

\* The bits read so far, with those of a continuation byte.
With(bits, byte) == bits * 64 + (byte % 64)

\* The bits of a first byte with those of the continuation bytes behind it.
Joined(b) ==
    IF Len(b) = 1 THEN b[1]
    ELSE IF Len(b) = 2 THEN With(b[1] % 32, b[2])
    ELSE IF Len(b) = 3 THEN With(With(b[1] % 16, b[2]), b[3])
    ELSE With(With(With(b[1] % 8, b[2]), b[3]), b[4])

\* The number of bytes the first one promises, and of those that follow it
\* and continue it.
Promised == ExpectedByteCount(Head(rest))
Continued ==
    CHOOSE n \in 0..(Promised - 1) :
        /\ n < Len(rest)
        /\ \A i \in 2..(n + 1) : Continuation(rest[i])
        /\ n < Promised - 1 /\ n + 1 < Len(rest) => ~Continuation(rest[n + 2])

\* Variant: with byte & 0xC0 != 0x80, which is byte & 1, it stops behind the
\* next even byte.
RecoveredAtEven(n) ==
    LET stops == {i \in (n + 1)..Len(rest) : rest[i] % 2 = 0}
    IN  IF stops = {} THEN Len(rest)
        ELSE CHOOSE i \in stops : \A j \in stops : i <= j

\* recoverFromError(), called when n bytes have been consumed: how many have
\* been when it returns.
Recovered(n) ==
    LET stops == {i \in (n + 1)..Len(rest) : Continuation(rest[i])}
    IN  IF stops = {} THEN Len(rest)
        ELSE CHOOSE i \in stops : \A j \in stops : i <= j

-----------------------------------------------------------------------------
(* The writer.                                                             *)

\* At first there are arbitrary data, as the iterator yields them, or none.
Utf8Init ==
    /\ text = <<>>
    /\ rest \in BoundedSeq(Bytes \ Space, MaxLen)
    /\ junk = Len(rest)
    /\ read = <<>>

\* append_utf8(), called for a text; the reader will not see white space.
Write(ch) ==
    /\ read = <<>>
    /\ junk <= MaxDamage
    /\ Len(text) < MaxChars
    /\ rest' = rest \o Yielded(AppendUtf8(ch))
    /\ text' = text \o Yielded(<<Writes(ch)>>)
    /\ UNCHANGED <<junk, read>>

-----------------------------------------------------------------------------
(* nextCodepoint(), by what it finds.  The bits that an error reports are  *)
(* left out.                                                               *)

\* The call returns after n bytes.
Report(n, result) ==
    /\ read' = Append(read, result)
    /\ rest' = SubSeq(rest, n + 1, Len(rest))
    /\ UNCHANGED <<junk, text>>

Success(n) == [code |-> "SUCCESS", codepoint |-> Joined(SubSeq(rest, 1, n)),
               bytes |-> SubSeq(rest, 1, n)]

\* The byte at "at" is not one that may stand there.
Failure(code, at, n) == [code |-> code, at |-> at, bytes |-> SubSeq(rest, 1, n)]

Complete == Continued = Promised - 1

\* Variant: a byte that does not continue the code point goes by unnoticed.
CharacterUnchecked ==
    /\ rest # <<>> /\ Promised > 0 /\ Promised <= Len(rest)
    /\ Report(Promised, Success(Promised))

Character ==
    /\ rest # <<>> /\ Promised > 0 /\ Complete
    /\ Report(Promised, Success(Promised))

IncompleteSequence ==
    /\ rest # <<>> /\ Promised > 0 /\ ~Complete
    /\ Continued + 1 = Len(rest)
    /\ Report(Len(rest), [code |-> "INCOMPLETE_SEQUENCE", bytes |-> rest])

InvalidContinuationByte ==
    /\ rest # <<>> /\ Promised > 0 /\ ~Complete
    /\ Continued + 1 < Len(rest)
    /\ \E n \in {Recovered(Continued + 2)} :
          Report(n, Failure("INVALID_CONTINUATION_BYTE", Continued + 2, n))

InvalidFirstByte ==
    /\ rest # <<>> /\ Promised = 0
    /\ \E n \in {Recovered(1)} :
          Report(n, Failure("INVALID_FIRST_BYTE", 1, n))

NextCodepoint ==
    \/ Character \/ IncompleteSequence
    \/ InvalidContinuationByte \/ InvalidFirstByte

\* At the end of the data it reports 0 without an error, again and again.
AtEnd == rest = <<>> /\ UNCHANGED utf8Vars

Utf8Next ==
    \/ \E ch \in CodePoints : Write(ch)
    \/ NextCodepoint
    \/ AtEnd

Utf8Spec == Utf8Init /\ [][Utf8Next]_utf8Vars

-----------------------------------------------------------------------------
(* Properties.                                                             *)

(* Whatever append_utf8() has written is read back, code point by code     *)
(* point and without an error: at every boundary of the four lengths, with *)
(* U+FFFD for what is no code point, and without the white space.          *)
TextReadBack ==
    junk = 0 =>
        /\ \A i \in DOMAIN read : /\ read[i].code = "SUCCESS"
                                  /\ i <= Len(text)
                                  /\ read[i].codepoint = text[i]
        /\ rest = <<>> => Len(read) = Len(text)

(* A code point that is reported without an error is the one whose UTF-8   *)
(* the bytes are: append_utf8() gives them back.  The exceptions are those *)
(* that the reader does not look for: a form longer than necessary, a      *)
(* surrogate, and a number beyond the last code point.                     *)
SuccessIsHonest ==
    \A i \in DOMAIN read : read[i].code = "SUCCESS" =>
        LET cp == read[i].codepoint
        IN  \/ AppendUtf8(cp) = read[i].bytes
            \/ Len(AppendUtf8(cp)) < Len(read[i].bytes)
            \/ Writes(cp) # cp

(* The reader finds its way back from any damage: behind arbitrary bytes,  *)
(* a text of characters of one and two bytes is read code point by code    *)
(* point, without an error, from its first character of two bytes on at    *)
(* the latest.  (Of longer characters that does not hold: recovery ends    *)
(* with a continuation byte, which need not be the last of its character.) *)
DamageIsLocal ==
    rest = <<>> /\ (\A i \in DOMAIN text : text[i] <= 2047) =>
        \A k \in DOMAIN text : text[k] > 127 =>
            LET behind == Len(text) - k
            IN  /\ behind <= Len(read)
                /\ \A i \in 1..behind :
                      /\ read[Len(read) - behind + i].code = "SUCCESS"
                      /\ read[Len(read) - behind + i].codepoint = text[k + i]

=============================================================================
