----------------------------- MODULE MCAppPath -----------------------------
(* AppPath with bytes that make all kinds of units: 0, 32 (a space),       *)
(* 216 (0xD8) and 220 (0xDC) for the surrogates, and 64 (0x40), which as   *)
(* the low byte of a high surrogate changes the parity of its plane.       *)
EXTENDS AppPath
=============================================================================
