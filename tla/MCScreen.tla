------------------------------ MODULE MCScreen ------------------------------
(* A viewport and one that overlaps it, or is its child, on a small console. *)
EXTENDS Screen, TLC
CONSTANTS a, b
MCViews == {a, b}
MCPlace == (a :> [x |-> 1, y |-> 1, w |-> 3, h |-> 3, border |-> FALSE,
                  thickness |-> 1])
        @@ (b :> [x |-> 1, y |-> 1, w |-> 2, h |-> 1, border |-> TRUE,
                  thickness |-> 0])
MCBefore == [p \in (1..4) \X (1..3) |-> IF p[1] = p[2] THEN "+" ELSE "A"]
MCTextAt == {<<2, 2>>}
MCOrigins == {<<0, 0>>, <<0, 1>>}
MCBlitAt == {<<1, 0>>}
=============================================================================
