--------------------------- MODULE MCTimedWrites ---------------------------
(***************************************************************************)
(* An instance of TimedWrites for TLC: all the registers with a timing of   *)
(* their own and their neighbours, and bytes of two bits.                   *)
(***************************************************************************)
EXTENDS TimedWrites

Neighbours == {14, 15, 16, 63, 64, 65, 66, 67, 68, 70, 71, 72, 73, 74}

TwoBits == SUBSET {"bit0", "bit1"}
=============================================================================
