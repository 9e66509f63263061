------------------------------- MODULE Timer -------------------------------
(***************************************************************************)
(* Class Timer of src/src/timer.cpp, dot by dot, driven as                 *)
(* CPU::step_m_cycle drives it: four dots, then at most one CPU access.    *)
(* The frame loop runs whole M-cycles, so a reset falls between two.       *)
(***************************************************************************)
EXTENDS Integers

CONSTANTS
  CounterSize,   \* number of values of div_counter, 2^16
  ByteSize,      \* number of values of TIMA and TMA, 2^8
  TimerBit       \* the counter bit that each of TAC's four rates selects

VARIABLES
  timer,         \* the members of class Timer
  requested,     \* the timer bit of InterruptController::IF
  dot            \* dots of the current M-cycle that have run

vars == <<timer, requested, dot>>

Counter == 0 .. CounterSize - 1
Byte == 0 .. ByteSize - 1

BitIsSet(value, bit) == (value \div 2^bit) % 2 = 1

Aligned(value, bit) ==
  LET next == (value + 1) % CounterSize IN
  /\ BitIsSet(value, bit) # BitIsSet(next, bit) => next % 4 = 0
  /\ BitIsSet(value, bit) /\ ~BitIsSet(next, bit) => next % 8 = 0

\* Every bit that TAC can select is bit 2 or slower: it changes at multiples of
\* four dots and falls at multiples of eight.  True of the bits 9, 3, 5 and 7.
ASSUME TimerAssumption ==
  /\ CounterSize \in Nat /\ CounterSize >= 8 /\ CounterSize % 8 = 0
  /\ ByteSize \in Nat /\ ByteSize >= 2
  /\ TimerBit \in [0 .. 3 -> Nat]
  /\ \A rate \in 0 .. 3, value \in Counter : Aligned(value, TimerBit[rate])

-----------------------------------------------------------------------------
(* Member functions, from one timer to the next. *)

FreshTimer ==
  [ div_counter |-> 0, tima |-> 0, tma |-> 0, tac |-> 0,
    previous_timer_input |-> FALSE, overflow_delay |-> 0, reload_cycle |-> FALSE ]

TimerEnabled(t) == t.tac \div 4 = 1

TimerInput(t) == TimerEnabled(t) /\ BitIsSet(t.div_counter, TimerBit[t.tac % 4])

\* Mutant: TIMA wraps without a reload.
IncrementTimaWrapping(t) == [t EXCEPT !.tima = (@ + 1) % ByteSize]

IncrementTima(t) ==
  IF t.tima = ByteSize - 1
  THEN [t EXCEPT !.tima = 0, !.overflow_delay = 4]
  ELSE [t EXCEPT !.tima = @ + 1]

UpdateTimerEdge(t) ==
  LET counted == IF t.previous_timer_input /\ ~TimerInput(t) THEN IncrementTima(t) ELSE t
  IN [counted EXCEPT !.previous_timer_input = TimerInput(t)]

\* The part of tick_dots that runs before the counter moves.
TickOverflow(t) ==
  IF t.overflow_delay = 1
  THEN [t EXCEPT !.tima = t.tma, !.overflow_delay = 0, !.reload_cycle = TRUE]
  ELSE [t EXCEPT !.overflow_delay = IF @ = 0 THEN 0 ELSE @ - 1, !.reload_cycle = FALSE]

TickDot(t) ==
  UpdateTimerEdge([TickOverflow(t) EXCEPT !.div_counter = (@ + 1) % CounterSize])

WriteDiv(t) == UpdateTimerEdge([t EXCEPT !.div_counter = 0])

\* Mutant: a write of TIMA does not cancel the reload.
WriteTimaUncancelled(t, value) == IF t.reload_cycle THEN t ELSE [t EXCEPT !.tima = value]

WriteTima(t, value) ==
  IF t.reload_cycle THEN t ELSE [t EXCEPT !.tima = value, !.overflow_delay = 0]

WriteTma(t, value) ==
  [t EXCEPT !.tma = value, !.tima = IF t.reload_cycle THEN value ELSE @]

WriteTac(t, value) == UpdateTimerEdge([t EXCEPT !.tac = value])

-----------------------------------------------------------------------------
(* Steps. *)

\* GameBoy::tick_dot: the interrupt is requested in the dot of the reload.
Dot ==
  /\ dot < 4 /\ dot' = dot + 1
  /\ timer' = TickDot(timer)
  /\ requested' = (requested \/ timer.overflow_delay = 1)

\* The CPU access that ends the M-cycle.
Access == dot = 4 /\ dot' = 0 /\ UNCHANGED requested

NoAccess == Access /\ UNCHANGED timer

AccessDiv == Access /\ timer' = WriteDiv(timer)

AccessTima(value) == Access /\ timer' = WriteTima(timer, value)

AccessTma(value) == Access /\ timer' = WriteTma(timer, value)

AccessTac(value) == Access /\ timer' = WriteTac(timer, value)

\* The CPU acknowledges an interrupt, or its write of IF takes effect, one dot
\* into the next M-cycle.
WriteIf(flag) == requested' = flag /\ UNCHANGED <<timer, dot>>

Reset ==
  /\ dot = 0
  /\ timer' = FreshTimer /\ requested' = FALSE /\ UNCHANGED dot

Init == timer = FreshTimer /\ requested = FALSE /\ dot = 0

Next ==
  \/ Dot
  \/ NoAccess
  \/ AccessDiv
  \/ \E value \in Byte : AccessTima(value) \/ AccessTma(value)
  \/ \E value \in 0 .. 7 : AccessTac(value)
  \/ \E flag \in BOOLEAN : WriteIf(flag)
  \/ Reset

Spec == Init /\ [][Next]_vars

\* While frames run, dots and accesses follow one another.
Clock == Dot \/ NoAccess

FairSpec == Spec /\ WF_vars(Clock)

-----------------------------------------------------------------------------
(* Properties. *)

TimerState ==
  [ div_counter : Counter, tima : Byte, tma : Byte, tac : 0 .. 7,
    previous_timer_input : BOOLEAN, overflow_delay : 0 .. 4, reload_cycle : BOOLEAN ]

\* Every member of the timer keeps its range.
TypeOK == timer \in TimerState /\ requested \in BOOLEAN /\ dot \in 0 .. 4

\* The remembered input of the edge detector is the input of now: neither a
\* write of DIV or TAC nor a reset leaves a stale value that would be taken for
\* an edge, or hide one, later.
InputIsRemembered == timer.previous_timer_input = TimerInput(timer)

\* Dots and M-cycles stay in step: an overflow is always a whole M-cycle away
\* from its reload, and the CPU meets the reload at the end of one M-cycle.  A
\* second edge cannot come before the reload, even if TAC selects another bit.
ReloadTakesOneMCycle ==
  /\ timer.div_counter % 4 = dot % 4
  /\ timer.overflow_delay \in {0, 4 - (dot % 4)}
  /\ timer.reload_cycle => dot = 0 \/ (dot = 4 /\ timer.overflow_delay = 0)
  /\ timer.overflow_delay # 0
       => \/ (timer.div_counter - (dot % 4)) % 8 = 0
          \/ dot # 4 /\ ~timer.previous_timer_input

\* To the CPU the dot-driven timer is the timer of whole M-cycles.
Cycles == INSTANCE TimerCycles WITH
  cycle <- timer.div_counter \div 4,
  tima <- timer.tima, tma <- timer.tma, tac <- timer.tac,
  reload <- IF timer.overflow_delay # 0 THEN "next"
            ELSE IF timer.reload_cycle /\ dot = 4 THEN "now" ELSE "none",
  due <- dot = 4

ImplementsCycles == Cycles!Spec

\* An enabled timer that the program leaves alone requests its interrupt again
\* and again, in whatever state the last write has left it.
EnabledTimerInterrupts ==
  (<>[][Clock \/ WriteIf(FALSE)]_vars /\ <>[]TimerEnabled(timer)) => []<>requested
=============================================================================
