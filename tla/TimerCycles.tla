---------------------------- MODULE TimerCycles ----------------------------
(***************************************************************************)
(* What a program can know of the DMG timer: the promise that class Timer  *)
(* (src/src/timer.cpp), which counts dots, keeps at the end of every       *)
(* M-cycle, the only moments at which the CPU reads or writes a register.  *)
(*                                                                         *)
(* TIMA counts the falling edges of the counter bit that TAC selects.  One *)
(* M-cycle after TIMA has wrapped to zero it is reloaded from TMA and the  *)
(* interrupt is requested, unless the program writes TIMA in between.  In  *)
(* the M-cycle of the reload a write of TIMA is lost and a write of TMA    *)
(* goes through to TIMA.                                                   *)
(***************************************************************************)
EXTENDS Integers

CONSTANTS
  CounterSize,   \* number of values of the internal counter, 2^16
  ByteSize,      \* number of values of TIMA and TMA, 2^8
  TimerBit       \* the counter bit that each of TAC's four rates selects

VARIABLES
  cycle,         \* the internal counter, in M-cycles
  tima, tma, tac,
  reload,        \* "none", "next" (TIMA wrapped) or "now" (TIMA was reloaded)
  requested,     \* the timer bit of the interrupt flags
  due            \* the M-cycle has run and its CPU access has not

vars == <<cycle, tima, tma, tac, reload, requested, due>>

Byte == 0 .. ByteSize - 1

BitIsSet(value, bit) == (value \div 2^bit) % 2 = 1

\* The signal whose falling edges are counted.
Input(counter, control) ==
  control \div 4 = 1 /\ BitIsSet(counter, TimerBit[control % 4])

Init ==
  /\ cycle = 0 /\ tima = 0 /\ tma = 0 /\ tac = 0
  /\ reload = "none" /\ due = FALSE
  /\ requested = FALSE

\* A reload that has just been seen is over at the end of the CPU access.
Settled == IF reload = "now" THEN "none" ELSE reload

Count(falling, otherwise) ==
  IF ~falling THEN tima' = tima /\ reload' = otherwise
  ELSE IF tima = ByteSize - 1 THEN tima' = 0 /\ reload' = "next"
  ELSE tima' = tima + 1 /\ reload' = otherwise

NextCycle == (cycle + 1) % (CounterSize \div 4)

MCycle ==
  /\ ~due /\ due' = TRUE
  /\ cycle' = NextCycle
  /\ IF reload = "next"
     THEN tima' = tma /\ reload' = "now" /\ requested' = TRUE
     ELSE /\ Count(Input(4 * cycle, tac) /\ ~Input(4 * NextCycle, tac), "none")
          /\ UNCHANGED requested
  /\ UNCHANGED <<tma, tac>>

Access == due /\ due' = FALSE /\ UNCHANGED requested

NoAccess == Access /\ reload' = Settled /\ UNCHANGED <<cycle, tima, tma, tac>>

WriteDiv ==
  /\ Access
  /\ cycle' = 0
  /\ Count(Input(4 * cycle, tac) /\ ~Input(0, tac), Settled)
  /\ UNCHANGED <<tma, tac>>

WriteTima(value) ==
  /\ Access
  /\ IF reload = "now" THEN UNCHANGED tima ELSE tima' = value
  /\ reload' = "none"
  /\ UNCHANGED <<cycle, tma, tac>>

WriteTma(value) ==
  /\ Access
  /\ tma' = value
  /\ IF reload = "now" THEN tima' = value ELSE UNCHANGED tima
  /\ reload' = Settled
  /\ UNCHANGED <<cycle, tac>>

WriteTac(value) ==
  /\ Access
  /\ tac' = value
  /\ Count(Input(4 * cycle, tac) /\ ~Input(4 * cycle, value), Settled)
  /\ UNCHANGED <<cycle, tma>>

\* The interrupt flag belongs to the interrupt controller: the CPU acknowledges
\* the interrupt, or the program writes IF.
WriteIf(flag) ==
  /\ requested' = flag
  /\ UNCHANGED <<cycle, tima, tma, tac, reload, due>>

Reset ==
  /\ ~due
  /\ cycle' = 0 /\ tima' = 0 /\ tma' = 0 /\ tac' = 0
  /\ reload' = "none" /\ due' = FALSE
  /\ requested' = FALSE

Next ==
  \/ MCycle
  \/ NoAccess
  \/ WriteDiv
  \/ \E value \in Byte : WriteTima(value) \/ WriteTma(value)
  \/ \E value \in 0 .. 7 : WriteTac(value)
  \/ \E flag \in BOOLEAN : WriteIf(flag)
  \/ Reset

Spec == Init /\ [][Next]_vars
=============================================================================
