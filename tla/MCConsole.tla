----------------------------- MODULE MCConsole -----------------------------
(***************************************************************************)
(* An instance of Console for TLC: two buttons of different groups on one  *)
(* line, and one with two keys on another line.                            *)
(***************************************************************************)
EXTENDS Console

SomeKeys == {"ArrowRight", "KeyX", "ShiftLeft", "ShiftRight"}

SomeButtons ==
  [key \in SomeKeys |-> CASE key = "ArrowRight" -> "Right" [] key = "KeyX" -> "A" [] OTHER -> "Select"]

SomeLines == [button \in {"Right", "A", "Select"} |-> IF button = "Select" THEN 3 ELSE 1]

OnDpad == {"Right"}
=============================================================================
