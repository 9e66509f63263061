------------------------------ MODULE CpuControl ------------------------------
(***************************************************************************)
(* The control of class CPU (src/src/cpu.cpp): M-cycles, IME, interrupt    *)
(* dispatch, HALT, STOP and the lock-up, together with the registers IE    *)
(* and IF of class InterruptController that decide what happens next.      *)
(*                                                                         *)
(* What an instruction computes is abstracted: an opcode is one of a few   *)
(* kinds, and a longer instruction takes some more M-cycles, each of which *)
(* may write IE or IF, before it finishes.                                 *)
(***************************************************************************)
EXTENDS Integers, FiniteSetsExt

CONSTANTS
  Sources,       \* the interrupts, by priority; the joypad's is one of them
  Joypad,
  WakeupClocks,  \* clocks from a button press to the end of STOP, 2^17
  NoWrite        \* no write of IF is on its way

\* An entry of timed_writes; no write is put off for more than 8 dots.
TimedWrite == [value : SUBSET Sources, dots_remaining : 1 .. 8]

ASSUME CpuControlAssumption ==
  /\ Sources \subseteq Nat /\ IsFiniteSet(Sources) /\ Joypad \in Sources
  /\ WakeupClocks \in Nat /\ WakeupClocks > 0
  /\ NoWrite \notin TimedWrite

VARIABLES
  cpu,           \* the control members of class CPU
  ie, flags,     \* InterruptController::IE and IF
  delayed,       \* the entry of timed_writes for a write of IF
  dot,           \* dots of the current M-cycle that have run
  sampled        \* `pending` in the halted branch of step_m_cycle

vars == <<cpu, ie, flags, delayed, dot, sampled>>

\* highest_priority_pending has a value.
Pending == ie \cap flags # {}

Kinds == {"short", "long", "reti", "ei", "di", "halt", "stop", "invalid"}

-----------------------------------------------------------------------------
(* Member functions, from one control state to the next. *)

FreshCpu ==
  [ ime |-> FALSE, ime_enable_pending |-> FALSE, halted |-> FALSE, just_halted |-> FALSE,
    stopped |-> FALSE, halt_bug |-> FALSE, locked_up |-> FALSE,
    stop_wakeup_requested |-> FALSE, stop_wakeup_cycles_remaining |-> 0,
    servicing_interrupt |-> FALSE, interrupt_m_cycle |-> 0,
    at_instruction_boundary |-> TRUE, current_opcode |-> "short" ]

FinishInstruction(c) == [c EXCEPT !.at_instruction_boundary = TRUE]

\* Mutant: HALT looks at IF alone.
HaltOnRequest(c) ==
  IF ~c.ime /\ flags # {} THEN [c EXCEPT !.halt_bug = TRUE]
  ELSE [c EXCEPT !.halted = TRUE, !.just_halted = TRUE]

Halt(c) ==
  IF ~c.ime /\ Pending THEN [c EXCEPT !.halt_bug = TRUE]
  ELSE [c EXCEPT !.halted = TRUE, !.just_halted = TRUE]

\* fetch_opcode and execute_fetched_opcode; DI also cancels the promotion of
\* IME that an EI before it has asked for.
Fetch(c, kind) ==
  LET fetched == [c EXCEPT !.halt_bug = FALSE, !.at_instruction_boundary = FALSE,
                           !.current_opcode = kind]
  IN CASE kind \in {"long", "reti"} -> fetched
       [] kind = "invalid" -> [fetched EXCEPT !.locked_up = TRUE]
       [] kind = "short" -> FinishInstruction(fetched)
       [] kind = "halt" -> FinishInstruction(Halt(fetched))
       [] kind = "stop" -> FinishInstruction([fetched EXCEPT !.stopped = TRUE])
       [] kind = "di" -> FinishInstruction([fetched EXCEPT !.ime = FALSE,
                                                            !.ime_enable_pending = FALSE])
       [] kind = "ei" -> FinishInstruction([fetched EXCEPT !.ime_enable_pending = TRUE])

\* The last M-cycle of a longer instruction.
LastCycle(c) ==
  FinishInstruction(IF c.current_opcode = "reti"
                    THEN [c EXCEPT !.ime = TRUE, !.ime_enable_pending = FALSE] ELSE c)

\* Mutant: a dispatch keeps the halt bug for the handler.
StartInterruptKeeping(c) ==
  [c EXCEPT !.ime = FALSE, !.ime_enable_pending = FALSE, !.halted = FALSE,
            !.just_halted = FALSE, !.servicing_interrupt = TRUE,
            !.at_instruction_boundary = FALSE, !.interrupt_m_cycle = 0]

StartInterrupt(c) ==
  [c EXCEPT !.ime = FALSE, !.ime_enable_pending = FALSE, !.halted = FALSE,
            !.just_halted = FALSE, !.halt_bug = FALSE, !.servicing_interrupt = TRUE,
            !.at_instruction_boundary = FALSE, !.interrupt_m_cycle = 0]

InterruptCycle(c) ==
  IF c.interrupt_m_cycle < 4 THEN [c EXCEPT !.interrupt_m_cycle = @ + 1]
  ELSE FinishInstruction([c EXCEPT !.servicing_interrupt = FALSE])

\* An M-cycle forgets the request of an EI, and grants it when it is over.
Promoted(before, after, blocked) ==
  IF before.ime_enable_pending /\ ~blocked THEN [after EXCEPT !.ime = TRUE] ELSE after

-----------------------------------------------------------------------------
(* Steps. *)

\* Mutant: a write of IF takes effect with the next M-cycle's access.
IfWriteLate(value) == [value |-> value, dots_remaining |-> 5]

IfWrite(value) == [value |-> value, dots_remaining |-> 1]

\* A CPU write to IE, to IF, or to anything else.
Write ==
  \/ UNCHANGED <<ie, delayed>>
  \/ \E value \in SUBSET Sources : ie' = value /\ UNCHANGED delayed
  \/ \E value \in SUBSET Sources : delayed' = IfWrite(value) /\ UNCHANGED ie

\* Mutant: HALT samples the requests when it begins and never again.
SamplesOnce == cpu.halted /\ cpu.just_halted /\ dot = 0

\* The halted branch samples before its third dot, or at once after HALT.
Samples == cpu.halted /\ dot = (IF cpu.just_halted THEN 0 ELSE 2)

\* tick_scheduled_writes, for the write of IF.
Commits == delayed # NoWrite /\ delayed.dots_remaining = 1

\* GameBoy::tick_dot, in which devices request interrupts, then the write of IF.
Dot ==
  /\ ~cpu.stopped
  /\ dot < 4 /\ dot' = dot + 1
  /\ sampled' = IF Samples THEN Pending ELSE sampled
  /\ \E requests \in SUBSET Sources :
       flags' = IF Commits THEN delayed.value ELSE flags \cup requests
  /\ delayed' = IF delayed = NoWrite \/ Commits THEN NoWrite
                ELSE [delayed EXCEPT !.dots_remaining = @ - 1]
  /\ UNCHANGED <<cpu, ie>>

EndMCycle == dot = 4 /\ dot' = 0 /\ sampled' = FALSE

\* The CPU past its dots: the halted branch ends the HALT and grants the request
\* of an EI before it goes on.
Woken ==
  IF cpu.halted
  THEN [cpu EXCEPT !.halted = FALSE, !.just_halted = FALSE,
                   !.ime = @ \/ cpu.ime_enable_pending, !.ime_enable_pending = FALSE]
  ELSE cpu

Awake == [Woken EXCEPT !.ime_enable_pending = FALSE]

\* execute_cpu_m_cycle, of a running CPU or of one that wakes without IME.
Executing ==
  EndMCycle /\ ~cpu.servicing_interrupt /\ (cpu.halted => sampled /\ ~Woken.ime)

FetchOpcode(kind) ==
  /\ Executing
  /\ ~cpu.locked_up /\ cpu.at_instruction_boundary /\ ~(Woken.ime /\ Pending)
  /\ cpu' = Promoted(Woken, Fetch(Awake, kind), kind = "di")
  /\ UNCHANGED <<ie, flags, delayed>>

Continue ==
  /\ Executing
  /\ ~cpu.locked_up /\ ~cpu.at_instruction_boundary
  /\ cpu' = Promoted(Woken, Awake, FALSE)
  /\ Write /\ UNCHANGED flags

Finish ==
  /\ Executing
  /\ ~cpu.locked_up /\ ~cpu.at_instruction_boundary
  /\ cpu' = Promoted(Woken, LastCycle(Awake), FALSE)
  /\ Write /\ UNCHANGED flags

\* The locked CPU lets the M-cycle pass.
Idle ==
  /\ Executing
  /\ cpu.locked_up
  /\ cpu' = Promoted(Woken, Awake, FALSE)
  /\ UNCHANGED <<ie, flags, delayed>>

\* The first M-cycle of a dispatch, from a running CPU or out of HALT.
Dispatch ==
  /\ EndMCycle
  /\ Woken.ime
  /\ IF cpu.halted THEN sampled
     ELSE /\ ~cpu.servicing_interrupt /\ ~cpu.locked_up
          /\ cpu.at_instruction_boundary /\ Pending
  /\ cpu' = Promoted(Woken, InterruptCycle(StartInterrupt(Awake)), FALSE)
  /\ UNCHANGED <<ie, flags, delayed>>

\* The next M-cycles: two pushes, and between them the choice of the interrupt.
Service ==
  /\ EndMCycle
  /\ cpu.servicing_interrupt /\ ~cpu.halted
  /\ cpu' = Promoted(Woken, InterruptCycle(Awake), FALSE)
  /\ flags' = IF cpu.interrupt_m_cycle = 3 /\ Pending
              THEN flags \ {Min(ie \cap flags)} ELSE flags
  /\ IF cpu.interrupt_m_cycle \in {2, 3} THEN Write ELSE UNCHANGED <<ie, delayed>>

\* The halted branch without a wake.
Sleep ==
  /\ EndMCycle
  /\ cpu.halted /\ ~sampled
  /\ cpu' = Promoted(cpu, [cpu EXCEPT !.just_halted = FALSE, !.ime_enable_pending = FALSE], FALSE)
  /\ UNCHANGED <<ie, flags, delayed>>

\* A call of step_m_cycle while the oscillator starts.
StoppedCall ==
  /\ cpu.stopped /\ cpu.stop_wakeup_requested
  /\ cpu' = IF cpu.stop_wakeup_cycles_remaining > 4
            THEN [cpu EXCEPT !.stop_wakeup_cycles_remaining = @ - 4]
            ELSE [cpu EXCEPT !.stop_wakeup_cycles_remaining = 0,
                             !.stop_wakeup_requested = FALSE, !.stopped = FALSE]
  /\ UNCHANGED <<ie, flags, delayed, dot, sampled>>

\* GameBoy::set_button, when a selected line falls, between two M-cycles.
Button ==
  /\ dot = 0
  /\ flags' = flags \cup {Joypad}
  /\ cpu' = IF cpu.stopped /\ ~cpu.stop_wakeup_requested
            THEN [cpu EXCEPT !.stop_wakeup_requested = TRUE,
                             !.stop_wakeup_cycles_remaining = WakeupClocks]
            ELSE cpu
  /\ UNCHANGED <<ie, delayed, dot, sampled>>

Reset ==
  /\ dot = 0
  /\ cpu' = FreshCpu /\ ie' = {} /\ flags' = {} /\ delayed' = NoWrite /\ sampled' = FALSE
  /\ UNCHANGED dot

Init ==
  /\ cpu = FreshCpu /\ ie = {} /\ flags = {} /\ delayed = NoWrite
  /\ dot = 0 /\ sampled = FALSE

Next ==
  \/ Dot
  \/ \E kind \in Kinds : FetchOpcode(kind)
  \/ Continue \/ Finish \/ Idle
  \/ Dispatch \/ Service \/ Sleep
  \/ StoppedCall
  \/ Button
  \/ Reset

Spec == Init /\ [][Next]_vars

\* While frames run, step_m_cycle is called again and again.
Clock ==
  \/ Dot
  \/ \E kind \in Kinds : FetchOpcode(kind)
  \/ Continue \/ Finish \/ Idle
  \/ Dispatch \/ Service \/ Sleep
  \/ StoppedCall

FairSpec == Spec /\ WF_vars(Clock)

-----------------------------------------------------------------------------
(* Properties. *)

CpuState ==
  [ ime : BOOLEAN, ime_enable_pending : BOOLEAN, halted : BOOLEAN, just_halted : BOOLEAN,
    stopped : BOOLEAN, halt_bug : BOOLEAN, locked_up : BOOLEAN,
    stop_wakeup_requested : BOOLEAN, stop_wakeup_cycles_remaining : 0 .. WakeupClocks,
    servicing_interrupt : BOOLEAN, interrupt_m_cycle : 0 .. 4,
    at_instruction_boundary : BOOLEAN, current_opcode : Kinds ]

\* Every member keeps its range.
TypeOK ==
  /\ cpu \in CpuState
  /\ ie \in SUBSET Sources /\ flags \in SUBSET Sources
  /\ delayed \in TimedWrite \cup {NoWrite}
  /\ dot \in 0 .. 4
  /\ sampled \in BOOLEAN

Running == ~cpu.halted /\ ~cpu.stopped /\ ~cpu.locked_up /\ ~cpu.servicing_interrupt

\* The twelve flags of the CPU describe one of five modes: an instruction stream,
\* HALT, STOP, a dispatch or the lock-up, the first three at a boundary between
\* instructions, and the transient flags belong to the mode that uses them.
OneMode ==
  /\ cpu.halted => ~cpu.stopped /\ ~cpu.locked_up /\ ~cpu.servicing_interrupt
  /\ cpu.stopped => ~cpu.locked_up /\ ~cpu.servicing_interrupt
  /\ cpu.locked_up => ~cpu.servicing_interrupt
  /\ cpu.halted \/ cpu.stopped => cpu.at_instruction_boundary
  /\ cpu.locked_up \/ cpu.servicing_interrupt => ~cpu.at_instruction_boundary
  /\ cpu.just_halted \/ sampled => cpu.halted
  /\ cpu.servicing_interrupt => cpu.interrupt_m_cycle # 0
  /\ cpu.halt_bug \/ cpu.ime_enable_pending => Running /\ cpu.at_instruction_boundary
  /\ cpu.stopped => dot = 0 /\ delayed = NoWrite
  /\ IF cpu.stop_wakeup_requested
     THEN cpu.stopped /\ cpu.stop_wakeup_cycles_remaining > 0
     ELSE cpu.stop_wakeup_cycles_remaining = 0

\* A decision to wake, to dispatch or to repeat a byte may be used after it was
\* taken, because the request it rests on cannot go away meanwhile: a write of IF
\* takes effect in the first dot after it, and none is on its way while the CPU
\* sleeps or begins a dispatch.  Only a dispatch's own push takes its cause away.
DecisionsHold ==
  /\ delayed # NoWrite => dot = 0 /\ delayed.dots_remaining = 1 /\ ~cpu.ime_enable_pending
  /\ cpu.halted => delayed = NoWrite /\ (sampled => Pending)
  /\ cpu.halt_bug => delayed = NoWrite /\ Pending
  /\ cpu.servicing_interrupt /\ cpu.interrupt_m_cycle <= 2 => delayed = NoWrite /\ Pending

\* The byte after HALT is fetched twice only by a program without interrupts: an
\* EI before the HALT leads to the dispatch, which forgets the bug.
BugWithoutIme == [][cpu.halt_bug /\ cpu.ime /\ dot = 4 => cpu'.servicing_interrupt]_vars

\* A sleeping CPU wakes up: from HALT when an interrupt is pending, with IME or
\* without, in whatever dot it was requested, and from STOP after a button.
SleepersWake ==
  /\ (cpu.halted /\ Pending) ~> ~cpu.halted
  /\ cpu.stop_wakeup_requested ~> ~cpu.stopped
=============================================================================
