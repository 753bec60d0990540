------------------------------- MODULE MCUtf8 -------------------------------
(* Utf8 with a byte of every kind - 65, a blank, the first and the last    *)
(* continuation byte, the leads of two, three and four bytes, of the       *)
(* surrogates, and 255 - and the code points around every boundary.        *)
EXTENDS Utf8
MCBytes == {32, 65, 128, 191, 194, 224, 237, 240, 255}
MCCodePoints == {0, 32, 65, 127, 128, 2047, 2048, 55295, 55296, 57343, 57344,
                 65535, 65536, 1114111, 1114112}
=============================================================================
