------------------------------ MODULE MCTimer ------------------------------
(***************************************************************************)
(* An instance of Timer for TLC: a counter of six bits of which TAC selects *)
(* four, as in the code in the order slowest, fastest, then rising, and     *)
(* registers of three values.                                               *)
(***************************************************************************)
EXTENDS Timer

SmallBits == [rate \in 0 .. 3 |-> <<5, 2, 3, 4>>[rate + 1]]

\* The bits of the code (timer.h) satisfy the assumption of module Timer.
ASSUME CodeBitsAreAligned ==
  \A bit \in {9, 3, 5, 7}, value \in 0 .. 65535 :
    LET next == (value + 1) % 65536 IN
    /\ BitIsSet(value, bit) # BitIsSet(next, bit) => next % 4 = 0
    /\ BitIsSet(value, bit) /\ ~BitIsSet(next, bit) => next % 8 = 0
=============================================================================
