----------------------------- MODULE BusWrites -----------------------------
(***************************************************************************)
(* What the timed writes of module TimedWrites promise: every CPU write     *)
(* reaches its register once, a fixed number of dots before or after the    *)
(* end of its M-cycle, and LCDC and the palettes show a mixture of the old  *)
(* and the new value before.  There is no queue here, only due dots.        *)
(***************************************************************************)
EXTENDS Integers

CONSTANTS Addresses, Values

VARIABLES
  due,        \* CPU writes to come: [address, value, left, plain]
  dot,        \* dots of the current M-cycle that have run
  watched, io \* a register, and what it holds

vars == <<due, dot, watched, io>>

\* 15 is IF; from 64 on LCDC, STAT, SCY, SCX, and the palettes 71 to 73.
Blends(w) == ~w.plain /\ w.address \in {64, 71, 72, 73}

\* Dots by which a register is ahead of the end of the write's M-cycle.
Lead(w) ==
  CASE w.address = 15 -> -1
    [] w.address = 67 /\ ~w.plain -> 2
    [] w.address \in {64, 66, 71, 72, 73} /\ ~w.plain -> 1
    [] OTHER -> 0

Mixture(w) == io \union IF w.address = 64 THEN w.value \intersect {"bit0"} ELSE w.value

Takes(w, value) == w.address = watched /\ io' = value

\* One dot passes, and at most one write reaches the watched register in it.
Dot ==
  LET passed == {[w EXCEPT !.left = @ - 1] : w \in due}
      landing == {w \in passed : w.left = Lead(w) /\ w.left # 0 /\ w.address = watched}
      blending == {w \in passed : w.left = 2 /\ Blends(w) /\ w.address = watched}
  IN  /\ dot < 4 /\ dot' = dot + 1
      /\ \/ \E w \in landing : Takes(w, w.value)
         \/ \E w \in blending : Takes(w, Mixture(w))
         \/ landing \union blending = {} /\ io' = io
      /\ due' = {w \in passed : w.left >= 0}
      /\ UNCHANGED watched

\* An instruction writes one byte in an M-cycle, and two of them at most.
Instruction(writes) ==
  \A w \in writes :
    /\ w.address \in Addresses /\ w.value \in Values /\ w.left \in {4, 8, 12}
    /\ \A x \in writes \ {w} : x.left \in {w.left - 4, w.left + 4}
    /\ w.plain => writes = {w} /\ w.left = 4

\* The end of an M-cycle, in which the next instruction may begin.
EndMCycle ==
  LET now == {w \in due : w.left = 0 /\ w.address = watched /\ Lead(w) = 0}
      later == {w \in due : w.left > 0 \/ w.address = 15}
  IN  /\ dot = 4 /\ dot' = 0
      /\ \/ \E w \in now : Takes(w, w.value)
         \/ now = {} /\ io' = io
      /\ \/ due' = later
         \/ (\A w \in due : w.left = 0) /\ Instruction({w \in due' : w.left > 0})
              /\ later = {w \in due' : w.left = 0}
      /\ UNCHANGED watched

Reset == dot = 0 /\ due' = {} /\ io' = {} /\ UNCHANGED <<dot, watched>>

Init == due = {} /\ dot = 0 /\ io = {} /\ watched \in Addresses

Next == Dot \/ EndMCycle \/ Reset

Spec == Init /\ [][Next]_vars
=============================================================================
