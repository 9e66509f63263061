----------------------------- MODULE CpuProofs -----------------------------
(***************************************************************************)
(* Proofs about class CPU, in three parts.                                 *)
(* CpuControl, for any set of interrupts and any start-up time of the      *)
(* oscillator.  The inductive invariant is the conjunction of the three    *)
(* invariants of CpuControl: which mode the CPU is in decides which        *)
(* actions may follow, and that no write of IF is on its way while the CPU *)
(* sleeps or begins a dispatch needs both the mode and the dot.            *)
(* DAA of module Alu, for all decimal bytes, and the additions of words.   *)
(* TimedWrites, for any number of slots from four on, any addresses and    *)
(* any values.  The inductive invariant says that the slots hold exactly   *)
(* what the M-cycles that are left have announced, each in its dot.        *)
(***************************************************************************)
EXTENDS CpuControl, Alu, TimedWrites, TLAPS

IInv == TypeOK /\ OneMode /\ DecisionsHold

-----------------------------------------------------------------------------
(* Lemmas about the member functions. *)

\* What is left of the CPU when it wakes up or goes on: no EI waits in HALT.
LEMMA AwakeFields ==
  ASSUME IInv
  PROVE  /\ Awake \in CpuState
         /\ Woken.ime = cpu.ime /\ Woken.ime_enable_pending = cpu.ime_enable_pending
         /\ Awake.ime = cpu.ime
         /\ Awake.ime_enable_pending = FALSE
         /\ Awake.halted = FALSE /\ Awake.just_halted = FALSE
         /\ Awake.stopped = cpu.stopped /\ Awake.halt_bug = cpu.halt_bug
         /\ Awake.locked_up = cpu.locked_up
         /\ Awake.stop_wakeup_requested = cpu.stop_wakeup_requested
         /\ Awake.stop_wakeup_cycles_remaining = cpu.stop_wakeup_cycles_remaining
         /\ Awake.servicing_interrupt = cpu.servicing_interrupt
         /\ Awake.interrupt_m_cycle = cpu.interrupt_m_cycle
         /\ Awake.at_instruction_boundary = cpu.at_instruction_boundary
         /\ Awake.current_opcode = cpu.current_opcode
<1> DEFINE one == [cpu EXCEPT !.halted = FALSE]
           two == [one EXCEPT !.just_halted = FALSE]
           three == [two EXCEPT !.ime_enable_pending = FALSE]
<1>1. cpu \in CpuState
  BY DEF IInv, TypeOK
<1>2. one \in CpuState /\ two \in CpuState /\ three \in CpuState
  BY <1>1 DEF CpuState
<1>3. cpu.halted => cpu.ime_enable_pending = FALSE
  BY <1>1 DEF IInv, OneMode, Running, CpuState
<1>4. Woken = two
  <2>1. CASE cpu.halted
    <3>1. (cpu.ime \/ cpu.ime_enable_pending) = cpu.ime
      BY <1>1, <1>3, <2>1 DEF CpuState
    <3>2. Woken = [cpu EXCEPT !.halted = FALSE, !.just_halted = FALSE,
                              !.ime = cpu.ime, !.ime_enable_pending = FALSE]
      BY <2>1, <3>1 DEF Woken
    <3>3. cpu.ime_enable_pending = FALSE
      BY <1>3, <2>1
    <3> QED
      BY <1>1, <3>2, <3>3 DEF CpuState
  <2>2. CASE ~cpu.halted
    <3>1. cpu.halted = FALSE /\ cpu.just_halted = FALSE
      BY <1>1, <2>2 DEF IInv, OneMode, CpuState
    <3>2. Woken = cpu
      BY <2>2 DEF Woken
    <3> QED
      BY <1>1, <3>1, <3>2 DEF CpuState
  <2> QED
    BY <2>1, <2>2
<1>5. Awake = three
  BY <1>4 DEF Awake
<1> QED
  BY <1>1, <1>2, <1>4, <1>5 DEF CpuState

\* The grant of IME changes nothing but IME.
LEMMA PromotedFields ==
  ASSUME NEW after \in CpuState, NEW c, c = after \/ c = [after EXCEPT !.ime = TRUE]
  PROVE  /\ c \in CpuState
         /\ c.ime_enable_pending = after.ime_enable_pending
         /\ c.halted = after.halted /\ c.just_halted = after.just_halted
         /\ c.stopped = after.stopped /\ c.halt_bug = after.halt_bug
         /\ c.locked_up = after.locked_up
         /\ c.stop_wakeup_requested = after.stop_wakeup_requested
         /\ c.stop_wakeup_cycles_remaining = after.stop_wakeup_cycles_remaining
         /\ c.servicing_interrupt = after.servicing_interrupt
         /\ c.interrupt_m_cycle = after.interrupt_m_cycle
         /\ c.at_instruction_boundary = after.at_instruction_boundary
<1>1. CASE c = [after EXCEPT !.ime = TRUE]
  BY <1>1 DEF CpuState
<1>2. CASE c = after
  BY <1>2
<1> QED
  BY <1>1, <1>2

LEMMA FinishFields ==
  ASSUME NEW c \in CpuState
  PROVE  LET u == FinishInstruction(c)
         IN /\ u \in CpuState /\ u.at_instruction_boundary = TRUE
            /\ u.ime_enable_pending = c.ime_enable_pending
            /\ u.halted = c.halted /\ u.just_halted = c.just_halted
            /\ u.stopped = c.stopped /\ u.halt_bug = c.halt_bug
            /\ u.locked_up = c.locked_up
            /\ u.stop_wakeup_requested = c.stop_wakeup_requested
            /\ u.stop_wakeup_cycles_remaining = c.stop_wakeup_cycles_remaining
            /\ u.servicing_interrupt = c.servicing_interrupt
            /\ u.interrupt_m_cycle = c.interrupt_m_cycle
            /\ u.ime = c.ime
BY DEF FinishInstruction, CpuState

\* What the fetch of each kind of opcode does to an awake CPU.
LEMMA FetchFields ==
  ASSUME NEW c \in CpuState, NEW kind \in Kinds,
         ~c.halted, ~c.just_halted, ~c.stopped, ~c.locked_up, ~c.ime_enable_pending
  PROVE  LET u == Fetch(c, kind)
         IN /\ u \in CpuState
            /\ u.stop_wakeup_requested = c.stop_wakeup_requested
            /\ u.stop_wakeup_cycles_remaining = c.stop_wakeup_cycles_remaining
            /\ u.servicing_interrupt = c.servicing_interrupt
            /\ u.interrupt_m_cycle = c.interrupt_m_cycle
            /\ u.halted => kind = "halt"
            /\ u.just_halted => u.halted
            /\ u.stopped => kind = "stop"
            /\ u.locked_up => kind = "invalid"
            /\ u.halt_bug => kind = "halt" /\ Pending /\ ~u.halted
            /\ u.ime_enable_pending => kind = "ei"
            /\ kind = "invalid" => ~u.at_instruction_boundary
            /\ kind \in {"halt", "stop", "ei"} => u.at_instruction_boundary
<1> DEFINE one == [c EXCEPT !.halt_bug = FALSE]
           two == [one EXCEPT !.at_instruction_boundary = FALSE]
           fetched == [two EXCEPT !.current_opcode = kind]
<1>1. one \in CpuState /\ two \in CpuState /\ fetched \in CpuState
  BY DEF CpuState
<1>2. /\ fetched.stop_wakeup_requested = c.stop_wakeup_requested
      /\ fetched.stop_wakeup_cycles_remaining = c.stop_wakeup_cycles_remaining
      /\ fetched.servicing_interrupt = c.servicing_interrupt
      /\ fetched.interrupt_m_cycle = c.interrupt_m_cycle
      /\ ~fetched.halted /\ ~fetched.just_halted /\ ~fetched.stopped /\ ~fetched.locked_up
      /\ ~fetched.ime_enable_pending /\ ~fetched.halt_bug
      /\ ~fetched.at_instruction_boundary
  BY DEF CpuState
<1>3. fetched = [c EXCEPT !.halt_bug = FALSE, !.at_instruction_boundary = FALSE,
                          !.current_opcode = kind]
  BY DEF CpuState
<1> HIDE DEF fetched
<1>4. CASE kind \in {"long", "reti"}
  <2>1. Fetch(c, kind) = fetched
    BY <1>3, <1>4 DEF Fetch
  <2> QED
    BY <1>1, <1>2, <1>4, <2>1
<1>5. CASE kind = "invalid"
  <2>1. Fetch(c, kind) = [fetched EXCEPT !.locked_up = TRUE]
    BY <1>3, <1>5 DEF Fetch
  <2> QED
    BY <1>1, <1>2, <1>5, <2>1, ZenonT(60) DEF CpuState
<1>6. CASE kind = "short"
  <2>1. Fetch(c, kind) = FinishInstruction(fetched)
    BY <1>3, <1>6 DEF Fetch
  <2>4. /\ Fetch(c, kind) \in CpuState
        /\ Fetch(c, kind).stop_wakeup_requested = c.stop_wakeup_requested
        /\ Fetch(c, kind).stop_wakeup_cycles_remaining = c.stop_wakeup_cycles_remaining
        /\ Fetch(c, kind).servicing_interrupt = c.servicing_interrupt
        /\ Fetch(c, kind).interrupt_m_cycle = c.interrupt_m_cycle
    BY <1>1, <1>2, <2>1, FinishFields, ZenonT(60)
  <2>5. /\ ~Fetch(c, kind).halted /\ ~Fetch(c, kind).just_halted /\ ~Fetch(c, kind).stopped
        /\ ~Fetch(c, kind).locked_up /\ ~Fetch(c, kind).halt_bug
        /\ ~Fetch(c, kind).ime_enable_pending
    BY <1>1, <1>2, <2>1, FinishFields, ZenonT(60)
  <2> QED
    BY <1>6, <2>4, <2>5
<1>7. CASE kind = "halt"
  <2>1. Fetch(c, kind) = FinishInstruction(Halt(fetched))
    BY <1>3, <1>7 DEF Fetch
  <2>2. CASE ~fetched.ime /\ Pending
    <3>1. Halt(fetched) = [fetched EXCEPT !.halt_bug = TRUE]
      BY <2>2 DEF Halt
    <3>2. Halt(fetched) \in CpuState
      BY <1>1, <3>1 DEF CpuState
    <3>3. /\ Halt(fetched).stop_wakeup_requested = c.stop_wakeup_requested
          /\ Halt(fetched).stop_wakeup_cycles_remaining = c.stop_wakeup_cycles_remaining
          /\ Halt(fetched).servicing_interrupt = c.servicing_interrupt
          /\ Halt(fetched).interrupt_m_cycle = c.interrupt_m_cycle
          /\ ~Halt(fetched).halted /\ ~Halt(fetched).just_halted /\ ~Halt(fetched).stopped
          /\ ~Halt(fetched).locked_up /\ ~Halt(fetched).ime_enable_pending
      BY <1>1, <1>2, <3>1 DEF CpuState
    <3> QED
      BY <1>7, <2>1, <2>2, <3>2, <3>3, FinishFields, ZenonT(60)
  <2>3. CASE ~(~fetched.ime /\ Pending)
    <3>1. Halt(fetched) = [fetched EXCEPT !.halted = TRUE, !.just_halted = TRUE]
      BY <2>3 DEF Halt
    <3>2. Halt(fetched) = [[fetched EXCEPT !.halted = TRUE] EXCEPT !.just_halted = TRUE]
      BY <1>1, <3>1 DEF CpuState
    <3>3. [fetched EXCEPT !.halted = TRUE] \in CpuState
      BY <1>1 DEF CpuState
    <3>4. Halt(fetched) \in CpuState
      BY <3>2, <3>3, ZenonT(60) DEF CpuState
    <3>5. /\ Halt(fetched).stop_wakeup_requested = c.stop_wakeup_requested
          /\ Halt(fetched).stop_wakeup_cycles_remaining = c.stop_wakeup_cycles_remaining
          /\ Halt(fetched).servicing_interrupt = c.servicing_interrupt
          /\ Halt(fetched).interrupt_m_cycle = c.interrupt_m_cycle
          /\ Halt(fetched).halted /\ ~Halt(fetched).stopped
          /\ ~Halt(fetched).locked_up /\ ~Halt(fetched).ime_enable_pending
          /\ ~Halt(fetched).halt_bug
      BY <1>1, <1>2, <3>1 DEF CpuState
    <3> QED
      BY <1>7, <2>1, <3>4, <3>5, FinishFields, ZenonT(60)
  <2> QED
    BY <2>2, <2>3
<1>8. CASE kind = "stop"
  <2> DEFINE v == [fetched EXCEPT !.stopped = TRUE]
  <2>1. Fetch(c, kind) = FinishInstruction(v)
    BY <1>3, <1>8 DEF Fetch
  <2>2. v \in CpuState
    BY <1>1 DEF CpuState
  <2>3. /\ v.stop_wakeup_requested = c.stop_wakeup_requested
        /\ v.stop_wakeup_cycles_remaining = c.stop_wakeup_cycles_remaining
        /\ v.servicing_interrupt = c.servicing_interrupt
        /\ v.interrupt_m_cycle = c.interrupt_m_cycle
        /\ ~v.halted /\ ~v.just_halted /\ ~v.locked_up /\ ~v.ime_enable_pending /\ ~v.halt_bug
    BY <1>1, <1>2 DEF CpuState
  <2> HIDE DEF v
  <2> QED
    BY <1>8, <2>1, <2>2, <2>3, FinishFields, ZenonT(60)
<1>9. CASE kind = "di"
  <2> DEFINE w == [fetched EXCEPT !.ime = FALSE]
             v == [w EXCEPT !.ime_enable_pending = FALSE]
  <2>1. Fetch(c, kind) = FinishInstruction(v)
    BY <1>1, <1>3, <1>9 DEF Fetch, CpuState
  <2>2. w \in CpuState /\ v \in CpuState
    BY <1>1 DEF CpuState
  <2>3. /\ v.stop_wakeup_requested = c.stop_wakeup_requested
        /\ v.stop_wakeup_cycles_remaining = c.stop_wakeup_cycles_remaining
        /\ v.servicing_interrupt = c.servicing_interrupt
        /\ v.interrupt_m_cycle = c.interrupt_m_cycle
        /\ ~v.halted /\ ~v.just_halted /\ ~v.stopped /\ ~v.locked_up
        /\ ~v.ime_enable_pending /\ ~v.halt_bug
    BY <1>1, <1>2 DEF CpuState
  <2> HIDE DEF v
  <2>4. /\ Fetch(c, kind) \in CpuState
        /\ Fetch(c, kind).stop_wakeup_requested = c.stop_wakeup_requested
        /\ Fetch(c, kind).stop_wakeup_cycles_remaining = c.stop_wakeup_cycles_remaining
        /\ Fetch(c, kind).servicing_interrupt = c.servicing_interrupt
        /\ Fetch(c, kind).interrupt_m_cycle = c.interrupt_m_cycle
    BY <2>2, <2>3, <2>1, FinishFields, ZenonT(60)
  <2>5. /\ ~Fetch(c, kind).halted /\ ~Fetch(c, kind).just_halted /\ ~Fetch(c, kind).stopped
        /\ ~Fetch(c, kind).locked_up /\ ~Fetch(c, kind).halt_bug
        /\ ~Fetch(c, kind).ime_enable_pending
    BY <2>2, <2>3, <2>1, FinishFields, ZenonT(60)
  <2> QED
    BY <1>9, <2>4, <2>5
<1>10. CASE kind = "ei"
  <2> DEFINE v == [fetched EXCEPT !.ime_enable_pending = TRUE]
  <2>1. Fetch(c, kind) = FinishInstruction(v)
    BY <1>3, <1>10 DEF Fetch
  <2>2. v \in CpuState
    BY <1>1 DEF CpuState
  <2>3. /\ v.stop_wakeup_requested = c.stop_wakeup_requested
        /\ v.stop_wakeup_cycles_remaining = c.stop_wakeup_cycles_remaining
        /\ v.servicing_interrupt = c.servicing_interrupt
        /\ v.interrupt_m_cycle = c.interrupt_m_cycle
        /\ ~v.halted /\ ~v.just_halted /\ ~v.stopped /\ ~v.locked_up /\ ~v.halt_bug
    BY <1>1, <1>2 DEF CpuState
  <2> HIDE DEF v
  <2> QED
    BY <1>10, <2>1, <2>2, <2>3, FinishFields, ZenonT(60)
<1> QED
  BY <1>4, <1>5, <1>6, <1>7, <1>8, <1>9, <1>10 DEF Kinds

LEMMA LastCycleFields ==
  ASSUME NEW c \in CpuState
  PROVE  LET u == LastCycle(c)
         IN /\ u \in CpuState /\ u.at_instruction_boundary = TRUE
            /\ u.ime_enable_pending => c.ime_enable_pending
            /\ u.halted = c.halted /\ u.just_halted = c.just_halted
            /\ u.stopped = c.stopped /\ u.halt_bug = c.halt_bug
            /\ u.locked_up = c.locked_up
            /\ u.stop_wakeup_requested = c.stop_wakeup_requested
            /\ u.stop_wakeup_cycles_remaining = c.stop_wakeup_cycles_remaining
            /\ u.servicing_interrupt = c.servicing_interrupt
            /\ u.interrupt_m_cycle = c.interrupt_m_cycle
<1>1. CASE c.current_opcode = "reti"
  <2> DEFINE v == [[c EXCEPT !.ime = TRUE] EXCEPT !.ime_enable_pending = FALSE]
  <2>1. v \in CpuState
    BY DEF CpuState
  <2>2. LastCycle(c) = FinishInstruction(v)
    BY <1>1 DEF LastCycle, CpuState
  <2>3. /\ ~v.ime_enable_pending
        /\ v.halted = c.halted /\ v.just_halted = c.just_halted
        /\ v.stopped = c.stopped /\ v.halt_bug = c.halt_bug
        /\ v.locked_up = c.locked_up
        /\ v.stop_wakeup_requested = c.stop_wakeup_requested
        /\ v.stop_wakeup_cycles_remaining = c.stop_wakeup_cycles_remaining
        /\ v.servicing_interrupt = c.servicing_interrupt
        /\ v.interrupt_m_cycle = c.interrupt_m_cycle
    BY DEF CpuState
  <2> HIDE DEF v
  <2> QED
    BY <2>1, <2>2, <2>3, FinishFields, ZenonT(60)
<1>2. CASE c.current_opcode # "reti"
  BY <1>2, FinishFields DEF LastCycle
<1> QED
  BY <1>1, <1>2

LEMMA InterruptCycleFields ==
  ASSUME NEW c \in CpuState
  PROVE  LET u == InterruptCycle(c)
         IN /\ u \in CpuState
            /\ u.ime_enable_pending = c.ime_enable_pending
            /\ u.halted = c.halted /\ u.just_halted = c.just_halted
            /\ u.stopped = c.stopped /\ u.halt_bug = c.halt_bug
            /\ u.locked_up = c.locked_up
            /\ u.stop_wakeup_requested = c.stop_wakeup_requested
            /\ u.stop_wakeup_cycles_remaining = c.stop_wakeup_cycles_remaining
            /\ c.interrupt_m_cycle < 4
                 => /\ u.interrupt_m_cycle = c.interrupt_m_cycle + 1
                    /\ u.servicing_interrupt = c.servicing_interrupt
                    /\ u.at_instruction_boundary = c.at_instruction_boundary
            /\ c.interrupt_m_cycle = 4 => ~u.servicing_interrupt /\ u.at_instruction_boundary
<1>1. c.interrupt_m_cycle \in 0 .. 4
  BY DEF CpuState
<1>2. CASE c.interrupt_m_cycle < 4
  <2>1. InterruptCycle(c) = [c EXCEPT !.interrupt_m_cycle = c.interrupt_m_cycle + 1]
    BY <1>2 DEF InterruptCycle
  <2>2. c.interrupt_m_cycle + 1 \in 0 .. 4 /\ c.interrupt_m_cycle # 4
    BY <1>1, <1>2
  <2>3. InterruptCycle(c) \in CpuState
    BY <2>1, <2>2 DEF CpuState
  <2> QED
    BY <1>2, <2>1, <2>2, <2>3 DEF CpuState
<1>3. CASE c.interrupt_m_cycle = 4
  <2> DEFINE v == [c EXCEPT !.servicing_interrupt = FALSE]
  <2>1. InterruptCycle(c) = FinishInstruction(v) /\ ~(c.interrupt_m_cycle < 4)
    BY <1>3 DEF InterruptCycle
  <2>2. v \in CpuState
    BY DEF CpuState
  <2>3. /\ v.ime_enable_pending = c.ime_enable_pending
        /\ v.halted = c.halted /\ v.just_halted = c.just_halted
        /\ v.stopped = c.stopped /\ v.halt_bug = c.halt_bug
        /\ v.locked_up = c.locked_up
        /\ v.stop_wakeup_requested = c.stop_wakeup_requested
        /\ v.stop_wakeup_cycles_remaining = c.stop_wakeup_cycles_remaining
        /\ ~v.servicing_interrupt
    BY DEF CpuState
  <2> HIDE DEF v
  <2> QED
    BY <2>1, <2>2, <2>3, FinishFields, ZenonT(60)
<1> QED
  BY <1>1, <1>2, <1>3

LEMMA StartInterruptFields ==
  ASSUME NEW c \in CpuState
  PROVE  LET u == StartInterrupt(c)
         IN /\ u \in CpuState
            /\ ~u.ime_enable_pending /\ ~u.halted /\ ~u.just_halted /\ ~u.halt_bug
            /\ u.stopped = c.stopped /\ u.locked_up = c.locked_up
            /\ u.stop_wakeup_requested = c.stop_wakeup_requested
            /\ u.stop_wakeup_cycles_remaining = c.stop_wakeup_cycles_remaining
            /\ u.servicing_interrupt /\ ~u.at_instruction_boundary
            /\ u.interrupt_m_cycle = 0
<1> DEFINE c1 == [c EXCEPT !.ime = FALSE]
           c2 == [c1 EXCEPT !.ime_enable_pending = FALSE]
           c3 == [c2 EXCEPT !.halted = FALSE]
           c4 == [c3 EXCEPT !.just_halted = FALSE]
<1>1. c1 \in CpuState /\ c2 \in CpuState /\ c3 \in CpuState /\ c4 \in CpuState
  BY DEF CpuState
<1>2. c4 = [c EXCEPT !.ime = FALSE, !.ime_enable_pending = FALSE, !.halted = FALSE,
                     !.just_halted = FALSE]
  BY DEF CpuState
<1> HIDE DEF c4
<1> DEFINE c5 == [c4 EXCEPT !.halt_bug = FALSE]
           c6 == [c5 EXCEPT !.servicing_interrupt = TRUE]
           c7 == [c6 EXCEPT !.at_instruction_boundary = FALSE]
           c8 == [c7 EXCEPT !.interrupt_m_cycle = 0]
<1>3. c5 \in CpuState /\ c6 \in CpuState /\ c7 \in CpuState
  BY <1>1, ZenonT(60) DEF CpuState
<1>4. 0 \in 0 .. 4
  OBVIOUS
<1>5. c8 \in CpuState
  <2> HIDE DEF c7
  <2> QED
    BY <1>3, <1>4 DEF CpuState
<1>6. StartInterrupt(c) = c8
  BY <1>2 DEF StartInterrupt, CpuState
<1> QED
  BY <1>1, <1>2, <1>5, <1>6 DEF CpuState

-----------------------------------------------------------------------------
(* The invariant. *)

LEMMA InitInv == Init => IInv
<1> SUFFICES ASSUME Init PROVE IInv
  OBVIOUS
<1>1. 0 \in 0 .. 4 /\ 0 \in 0 .. WakeupClocks /\ "short" \in Kinds
  BY CpuControlAssumption DEF Kinds
<1>2. cpu \in CpuState
  BY <1>1 DEF Init, FreshCpu, CpuState
<1>3. TypeOK
  BY <1>1, <1>2 DEF Init, TypeOK
<1> QED
  BY <1>3 DEF Init, IInv, FreshCpu, OneMode, DecisionsHold, Running

LEMMA DotPreserves == IInv /\ Dot => IInv'
<1> SUFFICES ASSUME IInv, Dot PROVE IInv'
  OBVIOUS
<1> USE DEF IInv
<1>1. /\ dot \in 0 .. 3 /\ dot' = dot + 1 /\ dot' # 0 /\ dot' \in 0 .. 4
      /\ ~cpu.stopped /\ cpu' = cpu /\ ie' = ie
  BY DEF Dot, TypeOK
<1>2. delayed # NoWrite => Commits
  BY DEF DecisionsHold, Commits
<1>3. delayed' = NoWrite
  BY <1>2 DEF Dot
<1>4. PICK requests \in SUBSET Sources :
        flags' = IF Commits THEN delayed.value ELSE flags \cup requests
  BY DEF Dot
<1>5. flags' \in SUBSET Sources
  BY <1>4 DEF TypeOK, Commits, TimedWrite
<1>6. sampled' \in BOOLEAN /\ (sampled' => Pending /\ cpu.halted)
  <2>1. sampled \in BOOLEAN /\ (sampled => Pending /\ cpu.halted)
    BY DEF TypeOK, OneMode, DecisionsHold
  <2>2. CASE Samples
    BY <2>2 DEF Dot, Samples, Pending
  <2>3. CASE ~Samples
    BY <2>1, <2>3 DEF Dot
  <2> QED
    BY <2>2, <2>3
<1>7. delayed = NoWrite /\ Pending => Pending'
  BY <1>1, <1>4 DEF Pending, Commits
<1>8. TypeOK'
  BY <1>1, <1>3, <1>5, <1>6 DEF TypeOK
<1>9. OneMode'
  BY <1>1, <1>6 DEF OneMode, Running
<1>10. DecisionsHold'
  BY <1>1, <1>3, <1>6, <1>7 DEF DecisionsHold
<1> QED
  BY <1>8, <1>9, <1>10

\* What every step that ends an M-cycle starts from.
LEMMA EndFacts ==
  ASSUME IInv, EndMCycle
  PROVE  /\ dot = 4 /\ dot' = 0 /\ dot' \in 0 .. 4 /\ sampled' = FALSE
         /\ delayed = NoWrite /\ ~cpu.stopped
         /\ ~cpu.stop_wakeup_requested /\ cpu.stop_wakeup_cycles_remaining = 0
         /\ cpu \in CpuState /\ ie \in SUBSET Sources /\ flags \in SUBSET Sources
         /\ cpu.interrupt_m_cycle \in 0 .. 4
BY DEF IInv, EndMCycle, TypeOK, OneMode, DecisionsHold, CpuState

\* A write leaves IE and the pending write of IF in their ranges.
LEMMA WriteTypes ==
  ASSUME IInv, delayed = NoWrite, Write
  PROVE  /\ ie' \in SUBSET Sources
         /\ delayed' \in TimedWrite \cup {NoWrite}
         /\ delayed' # NoWrite => delayed'.dots_remaining = 1
<1>1. CASE UNCHANGED <<ie, delayed>>
  BY <1>1 DEF IInv, TypeOK
<1>2. CASE \E value \in SUBSET Sources : ie' = value /\ UNCHANGED delayed
  BY <1>2 DEF IInv, TypeOK
<1>3. CASE \E value \in SUBSET Sources : delayed' = IfWrite(value) /\ UNCHANGED ie
  BY <1>3 DEF IInv, TypeOK, IfWrite, TimedWrite
<1> QED
  BY <1>1, <1>2, <1>3 DEF Write

LEMMA FetchPreserves ==
  ASSUME IInv, NEW kind \in Kinds, FetchOpcode(kind)
  PROVE  IInv'
<1> DEFINE u == Fetch(Awake, kind)
<1>1. /\ EndMCycle /\ ~cpu.servicing_interrupt /\ ~cpu.locked_up
      /\ cpu' = Promoted(Woken, u, kind = "di")
      /\ ie' = ie /\ flags' = flags /\ delayed' = delayed
  BY DEF FetchOpcode, Executing
<1>2. /\ Awake \in CpuState /\ ~Awake.halted /\ ~Awake.just_halted /\ ~Awake.stopped
      /\ ~Awake.locked_up /\ ~Awake.ime_enable_pending /\ ~Awake.servicing_interrupt
      /\ ~Awake.stop_wakeup_requested /\ Awake.stop_wakeup_cycles_remaining = 0
  BY <1>1, AwakeFields, EndFacts
<1>3. /\ u \in CpuState
      /\ u.stop_wakeup_requested = Awake.stop_wakeup_requested
      /\ u.stop_wakeup_cycles_remaining = Awake.stop_wakeup_cycles_remaining
      /\ u.servicing_interrupt = Awake.servicing_interrupt
      /\ u.halted => kind = "halt"
      /\ u.just_halted => u.halted
      /\ u.stopped => kind = "stop"
      /\ u.locked_up => kind = "invalid"
      /\ u.halt_bug => kind = "halt" /\ Pending /\ ~u.halted
      /\ u.ime_enable_pending => kind = "ei"
      /\ kind = "invalid" => ~u.at_instruction_boundary
      /\ kind \in {"halt", "stop", "ei"} => u.at_instruction_boundary
  BY <1>2, FetchFields
<1> HIDE DEF u
<1>4. /\ cpu' \in CpuState
      /\ ~cpu'.stop_wakeup_requested /\ cpu'.stop_wakeup_cycles_remaining = 0
      /\ ~cpu'.servicing_interrupt
      /\ cpu'.halted => kind = "halt"
      /\ cpu'.just_halted => cpu'.halted
      /\ cpu'.stopped => kind = "stop"
      /\ cpu'.locked_up => kind = "invalid"
      /\ cpu'.halt_bug => kind = "halt" /\ Pending /\ ~cpu'.halted
      /\ cpu'.ime_enable_pending => kind = "ei"
      /\ kind = "invalid" => ~cpu'.at_instruction_boundary
      /\ kind \in {"halt", "stop", "ei"} => cpu'.at_instruction_boundary
  <2>1. /\ cpu' \in CpuState
        /\ cpu'.ime_enable_pending = u.ime_enable_pending
        /\ cpu'.halted = u.halted /\ cpu'.just_halted = u.just_halted
        /\ cpu'.stopped = u.stopped /\ cpu'.halt_bug = u.halt_bug
        /\ cpu'.locked_up = u.locked_up
        /\ cpu'.stop_wakeup_requested = u.stop_wakeup_requested
        /\ cpu'.stop_wakeup_cycles_remaining = u.stop_wakeup_cycles_remaining
        /\ cpu'.servicing_interrupt = u.servicing_interrupt
        /\ cpu'.at_instruction_boundary = u.at_instruction_boundary
    <3>1. cpu' = u \/ cpu' = [u EXCEPT !.ime = TRUE]
      BY <1>1 DEF Promoted
    <3> QED
      BY <1>3, <3>1, PromotedFields
  <2> QED
    BY <1>2, <1>3, <2>1
<1>5. TypeOK'
  BY <1>1, <1>4, EndFacts DEF TypeOK
<1>6. OneMode'
  BY <1>1, <1>4, EndFacts DEF OneMode, Running
<1>7. Pending' = Pending
  BY <1>1 DEF Pending
<1>8. DecisionsHold'
  BY <1>1, <1>4, <1>7, EndFacts DEF DecisionsHold
<1> QED
  BY <1>5, <1>6, <1>8 DEF IInv

\* The middle and the last M-cycle of an instruction, and the locked CPU: the
\* mode stays what it was, and nothing transient is left.
LEMMA ExecutePreserves ==
  ASSUME IInv, EndMCycle, ~cpu.servicing_interrupt, NEW u \in CpuState,
         cpu' = Promoted(Woken, u, FALSE),
         u \in {Awake, LastCycle(Awake)},
         u = Awake \/ ~cpu.locked_up,
         cpu.locked_up \/ ~cpu.at_instruction_boundary,
         cpu.locked_up => UNCHANGED <<ie, delayed>>,
         ~cpu.locked_up => Write,
         flags' = flags
  PROVE  IInv'
<1>1. /\ Awake \in CpuState /\ ~Awake.halted /\ ~Awake.just_halted /\ ~Awake.stopped
      /\ ~Awake.ime_enable_pending /\ ~Awake.servicing_interrupt /\ ~Awake.halt_bug
      /\ ~Awake.stop_wakeup_requested /\ Awake.stop_wakeup_cycles_remaining = 0
      /\ Awake.locked_up = cpu.locked_up
      /\ Awake.at_instruction_boundary = cpu.at_instruction_boundary
  <2>1. ~cpu.halt_bug
    BY DEF IInv, OneMode, Running
  <2> QED
    BY <2>1, AwakeFields, EndFacts
<1>2. /\ ~u.halted /\ ~u.just_halted /\ ~u.stopped /\ ~u.halt_bug
      /\ ~u.ime_enable_pending /\ ~u.servicing_interrupt
      /\ ~u.stop_wakeup_requested /\ u.stop_wakeup_cycles_remaining = 0
      /\ u.locked_up = cpu.locked_up
      /\ u.locked_up => u.at_instruction_boundary = cpu.at_instruction_boundary
  <2>1. CASE u = Awake
    BY <1>1, <2>1
  <2>2. CASE u = LastCycle(Awake) /\ ~cpu.locked_up
    BY <1>1, <2>2, LastCycleFields
  <2> QED
    BY <2>1, <2>2
<1>3. /\ cpu' \in CpuState
      /\ cpu'.ime_enable_pending = u.ime_enable_pending
      /\ cpu'.halted = u.halted /\ cpu'.just_halted = u.just_halted
      /\ cpu'.stopped = u.stopped /\ cpu'.halt_bug = u.halt_bug
      /\ cpu'.locked_up = u.locked_up
      /\ cpu'.stop_wakeup_requested = u.stop_wakeup_requested
      /\ cpu'.stop_wakeup_cycles_remaining = u.stop_wakeup_cycles_remaining
      /\ cpu'.servicing_interrupt = u.servicing_interrupt
      /\ cpu'.at_instruction_boundary = u.at_instruction_boundary
  <2>1. cpu' = u \/ cpu' = [u EXCEPT !.ime = TRUE]
    BY DEF Promoted
  <2> QED
    BY <2>1, PromotedFields
<1>4. /\ ie' \in SUBSET Sources
      /\ delayed' \in TimedWrite \cup {NoWrite}
      /\ delayed' # NoWrite => delayed'.dots_remaining = 1
  <2>1. CASE cpu.locked_up
    BY <2>1, EndFacts
  <2>2. CASE ~cpu.locked_up
    BY <2>2, WriteTypes, EndFacts
  <2> QED
    BY <2>1, <2>2
<1>5. TypeOK'
  BY <1>3, <1>4, EndFacts DEF TypeOK
<1>6. cpu.locked_up => ~cpu.at_instruction_boundary
  BY DEF IInv, OneMode
<1>7. OneMode'
  BY <1>2, <1>3, <1>6, EndFacts DEF OneMode, Running
<1>8. DecisionsHold'
  BY <1>2, <1>3, <1>4, EndFacts DEF DecisionsHold
<1> QED
  BY <1>5, <1>7, <1>8 DEF IInv

LEMMA ContinuePreserves == IInv /\ (Continue \/ Idle) => IInv'
<1> SUFFICES ASSUME IInv, Continue \/ Idle PROVE IInv'
  OBVIOUS
<1>1. Awake \in CpuState
  BY AwakeFields
<1>2. CASE Continue
  BY <1>1, <1>2, ExecutePreserves DEF Continue, Executing
<1>3. CASE Idle
  BY <1>1, <1>3, ExecutePreserves DEF Idle, Executing
<1> QED
  BY <1>2, <1>3

LEMMA FinishPreserves == IInv /\ Finish => IInv'
<1> SUFFICES ASSUME IInv, Finish PROVE IInv'
  OBVIOUS
<1>1. LastCycle(Awake) \in CpuState
  BY AwakeFields, LastCycleFields
<1> QED
  BY <1>1, ExecutePreserves DEF Finish, Executing

LEMMA DispatchPreserves == IInv /\ Dispatch => IInv'
<1> SUFFICES ASSUME IInv, Dispatch PROVE IInv'
  OBVIOUS
<1> DEFINE s == StartInterrupt(Awake)
           u == InterruptCycle(s)
<1>1. /\ EndMCycle
      /\ cpu' = Promoted(Woken, u, FALSE)
      /\ ie' = ie /\ flags' = flags /\ delayed' = delayed
      /\ IF cpu.halted THEN sampled ELSE ~cpu.locked_up /\ Pending
  BY DEF Dispatch
<1>2. Pending /\ ~cpu.locked_up
  BY <1>1 DEF IInv, OneMode, DecisionsHold
<1>3. /\ Awake \in CpuState /\ ~Awake.stopped /\ ~Awake.locked_up
      /\ ~Awake.stop_wakeup_requested /\ Awake.stop_wakeup_cycles_remaining = 0
  BY <1>1, <1>2, AwakeFields, EndFacts
<1>4. /\ s \in CpuState
      /\ ~s.ime_enable_pending /\ ~s.halted /\ ~s.just_halted /\ ~s.halt_bug
      /\ ~s.stopped /\ ~s.locked_up
      /\ ~s.stop_wakeup_requested /\ s.stop_wakeup_cycles_remaining = 0
      /\ s.servicing_interrupt /\ ~s.at_instruction_boundary
      /\ s.interrupt_m_cycle = 0
  BY <1>3, StartInterruptFields
<1> HIDE DEF s
<1>5. /\ u \in CpuState
      /\ ~u.ime_enable_pending /\ ~u.halted /\ ~u.just_halted /\ ~u.halt_bug
      /\ ~u.stopped /\ ~u.locked_up
      /\ ~u.stop_wakeup_requested /\ u.stop_wakeup_cycles_remaining = 0
      /\ u.servicing_interrupt /\ ~u.at_instruction_boundary
      /\ u.interrupt_m_cycle = 1
  BY <1>4, InterruptCycleFields
<1> HIDE DEF u
<1>6. /\ cpu' \in CpuState
      /\ ~cpu'.ime_enable_pending /\ ~cpu'.halted /\ ~cpu'.just_halted /\ ~cpu'.halt_bug
      /\ ~cpu'.stopped /\ ~cpu'.locked_up
      /\ ~cpu'.stop_wakeup_requested /\ cpu'.stop_wakeup_cycles_remaining = 0
      /\ cpu'.servicing_interrupt /\ ~cpu'.at_instruction_boundary
      /\ cpu'.interrupt_m_cycle = 1
  <2>1. /\ cpu' \in CpuState
        /\ cpu'.ime_enable_pending = u.ime_enable_pending
        /\ cpu'.halted = u.halted /\ cpu'.just_halted = u.just_halted
        /\ cpu'.stopped = u.stopped /\ cpu'.halt_bug = u.halt_bug
        /\ cpu'.locked_up = u.locked_up
        /\ cpu'.stop_wakeup_requested = u.stop_wakeup_requested
        /\ cpu'.stop_wakeup_cycles_remaining = u.stop_wakeup_cycles_remaining
        /\ cpu'.servicing_interrupt = u.servicing_interrupt
        /\ cpu'.interrupt_m_cycle = u.interrupt_m_cycle
        /\ cpu'.at_instruction_boundary = u.at_instruction_boundary
    <3>1. cpu' = u \/ cpu' = [u EXCEPT !.ime = TRUE]
      BY <1>1 DEF Promoted
    <3> QED
      BY <1>5, <3>1, PromotedFields
  <2> QED
    BY <1>5, <2>1
<1>7. TypeOK'
  BY <1>1, <1>6, EndFacts DEF TypeOK
<1>8. OneMode'
  <2>1. sampled' = FALSE /\ cpu'.interrupt_m_cycle # 0
    <3>1. sampled' = FALSE
      BY <1>1 DEF EndMCycle
    <3>2. cpu'.interrupt_m_cycle = 1
      BY <1>6
    <3> QED
      BY <3>1, <3>2
  <2>2. ~(cpu'.halt_bug \/ cpu'.ime_enable_pending) /\ ~(cpu'.just_halted \/ sampled')
    BY <1>6, <2>1
  <2>3. ~cpu'.stop_wakeup_requested /\ cpu'.stop_wakeup_cycles_remaining = 0
    BY <1>6
  <2> QED
    BY <1>6, <2>1, <2>2, <2>3 DEF OneMode
<1>9. Pending'
  BY <1>1, <1>2 DEF Pending
<1>10. DecisionsHold'
  BY <1>1, <1>6, <1>9, EndFacts DEF DecisionsHold
<1> QED
  BY <1>7, <1>8, <1>10 DEF IInv

LEMMA ServicePreserves == IInv /\ Service => IInv'
<1> SUFFICES ASSUME IInv, Service PROVE IInv'
  OBVIOUS
<1> DEFINE u == InterruptCycle(Awake)
           k == cpu.interrupt_m_cycle
<1>1. EndMCycle /\ cpu.servicing_interrupt /\ cpu' = Promoted(Woken, u, FALSE)
  BY DEF Service
<1>2. /\ ~cpu.locked_up /\ ~cpu.halt_bug /\ ~cpu.at_instruction_boundary /\ k \in 1 .. 4
      /\ k <= 2 => Pending
  <2>1. /\ ~cpu.locked_up /\ ~cpu.halt_bug /\ ~cpu.at_instruction_boundary /\ k # 0
        /\ k <= 2 => Pending
    BY <1>1 DEF IInv, OneMode, DecisionsHold, Running
  <2>2. k \in 0 .. 4
    BY <1>1, EndFacts
  <2>3. k \in 1 .. 4
    BY <2>1, <2>2
  <2> QED
    BY <2>1, <2>3
<1>3. /\ Awake \in CpuState /\ ~Awake.halted /\ ~Awake.just_halted /\ ~Awake.stopped
      /\ ~Awake.ime_enable_pending /\ Awake.servicing_interrupt /\ ~Awake.halt_bug
      /\ ~Awake.stop_wakeup_requested /\ Awake.stop_wakeup_cycles_remaining = 0
      /\ ~Awake.locked_up /\ ~Awake.at_instruction_boundary /\ Awake.interrupt_m_cycle = k
  BY <1>1, <1>2, AwakeFields, EndFacts
<1>4. /\ u \in CpuState
      /\ ~u.ime_enable_pending /\ ~u.halted /\ ~u.just_halted /\ ~u.halt_bug
      /\ ~u.stopped /\ ~u.locked_up
      /\ ~u.stop_wakeup_requested /\ u.stop_wakeup_cycles_remaining = 0
      /\ u.servicing_interrupt
           => ~u.at_instruction_boundary /\ k < 4 /\ u.interrupt_m_cycle = k + 1
  BY <1>2, <1>3, InterruptCycleFields
<1> HIDE DEF u
<1>5. /\ cpu' \in CpuState
      /\ cpu'.ime_enable_pending = u.ime_enable_pending
      /\ cpu'.halted = u.halted /\ cpu'.just_halted = u.just_halted
      /\ cpu'.stopped = u.stopped /\ cpu'.halt_bug = u.halt_bug
      /\ cpu'.locked_up = u.locked_up
      /\ cpu'.stop_wakeup_requested = u.stop_wakeup_requested
      /\ cpu'.stop_wakeup_cycles_remaining = u.stop_wakeup_cycles_remaining
      /\ cpu'.servicing_interrupt = u.servicing_interrupt
      /\ cpu'.interrupt_m_cycle = u.interrupt_m_cycle
      /\ cpu'.at_instruction_boundary = u.at_instruction_boundary
  <2>1. cpu' = u \/ cpu' = [u EXCEPT !.ime = TRUE]
    BY <1>1 DEF Promoted
  <2> QED
    BY <1>4, <2>1, PromotedFields
<1>6. /\ ie' \in SUBSET Sources
      /\ delayed' \in TimedWrite \cup {NoWrite}
      /\ delayed' # NoWrite => delayed'.dots_remaining = 1
      /\ flags' \in SUBSET Sources
      /\ k = 1 => ie' = ie /\ flags' = flags /\ delayed' = NoWrite
  <2>1. flags' \in SUBSET Sources /\ (k = 1 => flags' = flags)
    BY <1>1, <1>2, EndFacts DEF Service
  <2>2. CASE k \in {2, 3}
    <3>1. Write /\ k # 1
      BY <2>2 DEF Service
    <3> QED
      BY <1>1, <2>1, <3>1, WriteTypes, EndFacts
  <2>3. CASE k \notin {2, 3}
    <3>1. UNCHANGED <<ie, delayed>>
      BY <2>3 DEF Service
    <3> QED
      BY <1>1, <2>1, <3>1, EndFacts
  <2> QED
    BY <2>2, <2>3
<1>7. TypeOK'
  BY <1>1, <1>5, <1>6, EndFacts DEF TypeOK
<1>8. cpu'.servicing_interrupt
        => /\ ~cpu'.at_instruction_boundary /\ cpu'.interrupt_m_cycle # 0
           /\ (cpu'.interrupt_m_cycle <= 2 => k = 1)
  <2>1. ASSUME cpu'.servicing_interrupt
        PROVE  /\ ~cpu'.at_instruction_boundary /\ k < 4 /\ cpu'.interrupt_m_cycle = k + 1
    BY <1>4, <1>5, <2>1
  <2> QED
    BY <1>2, <2>1
<1>9. OneMode'
  <2>1. sampled' = FALSE /\ dot' = 0
    BY <1>1 DEF EndMCycle
  <2>2. /\ ~cpu'.halted /\ ~cpu'.stopped /\ ~cpu'.locked_up
        /\ ~(cpu'.halt_bug \/ cpu'.ime_enable_pending) /\ ~(cpu'.just_halted \/ sampled')
    BY <1>4, <1>5, <2>1
  <2>3. ~cpu'.stop_wakeup_requested /\ cpu'.stop_wakeup_cycles_remaining = 0
    BY <1>4, <1>5
  <2> QED
    BY <1>8, <2>2, <2>3 DEF OneMode
<1>10. DecisionsHold'
  <2>1. k = 1 => Pending' /\ delayed' = NoWrite
    BY <1>2, <1>6 DEF Pending
  <2>2. ~cpu'.halted /\ ~cpu'.halt_bug /\ ~cpu'.ime_enable_pending
    BY <1>4, <1>5
  <2> QED
    BY <1>1, <1>6, <1>8, <2>1, <2>2, EndFacts DEF DecisionsHold
<1> QED
  BY <1>7, <1>9, <1>10 DEF IInv

LEMMA SleepPreserves == IInv /\ Sleep => IInv'
<1> SUFFICES ASSUME IInv, Sleep PROVE IInv'
  OBVIOUS
<1> DEFINE u == [[cpu EXCEPT !.just_halted = FALSE] EXCEPT !.ime_enable_pending = FALSE]
<1>1. /\ EndMCycle /\ cpu.halted /\ ie' = ie /\ flags' = flags /\ delayed' = delayed
      /\ cpu' = Promoted(cpu, [cpu EXCEPT !.just_halted = FALSE,
                                          !.ime_enable_pending = FALSE], FALSE)
  BY DEF Sleep
<1>2. /\ cpu \in CpuState /\ ~cpu.stopped /\ ~cpu.locked_up /\ ~cpu.servicing_interrupt
      /\ ~cpu.halt_bug /\ cpu.at_instruction_boundary /\ ~cpu.ime_enable_pending
      /\ ~cpu.stop_wakeup_requested /\ cpu.stop_wakeup_cycles_remaining = 0
      /\ delayed = NoWrite /\ dot' = 0 /\ sampled' = FALSE
  BY <1>1, EndFacts DEF IInv, OneMode, Running
<1>3. /\ u \in CpuState
      /\ ~u.ime_enable_pending /\ u.halted /\ ~u.just_halted /\ ~u.halt_bug
      /\ ~u.stopped /\ ~u.locked_up
      /\ ~u.stop_wakeup_requested /\ u.stop_wakeup_cycles_remaining = 0
      /\ ~u.servicing_interrupt /\ u.at_instruction_boundary
  BY <1>1, <1>2 DEF CpuState
<1>4. cpu' = u
  BY <1>1, <1>2 DEF Promoted, CpuState
<1> HIDE DEF u
<1>5. TypeOK'
  BY <1>1, <1>3, <1>4, EndFacts DEF TypeOK
<1>6. OneMode'
  BY <1>2, <1>3, <1>4 DEF OneMode
<1>7. DecisionsHold'
  BY <1>1, <1>2, <1>3, <1>4 DEF DecisionsHold
<1> QED
  BY <1>5, <1>6, <1>7 DEF IInv

LEMMA StoppedCallPreserves == IInv /\ StoppedCall => IInv'
<1> SUFFICES ASSUME IInv, StoppedCall PROVE IInv'
  OBVIOUS
<1>1. /\ cpu.stopped /\ cpu.stop_wakeup_requested
      /\ ie' = ie /\ flags' = flags /\ delayed' = delayed /\ dot' = dot /\ sampled' = sampled
  BY DEF StoppedCall
<1>2. /\ cpu \in CpuState /\ ~cpu.halted /\ ~cpu.locked_up /\ ~cpu.servicing_interrupt
      /\ ~cpu.halt_bug /\ ~cpu.ime_enable_pending /\ cpu.at_instruction_boundary
      /\ ~cpu.just_halted /\ ~sampled /\ delayed = NoWrite /\ dot = 0
      /\ cpu.stop_wakeup_cycles_remaining \in 0 .. WakeupClocks
  BY <1>1 DEF IInv, TypeOK, OneMode, Running, CpuState
<1>3. /\ cpu' \in CpuState /\ ~cpu'.halted /\ ~cpu'.locked_up /\ ~cpu'.servicing_interrupt
      /\ ~cpu'.halt_bug /\ ~cpu'.ime_enable_pending /\ cpu'.at_instruction_boundary
      /\ ~cpu'.just_halted
      /\ IF cpu'.stop_wakeup_requested
         THEN cpu'.stopped /\ cpu'.stop_wakeup_cycles_remaining > 0
         ELSE cpu'.stop_wakeup_cycles_remaining = 0
  <2>1. CASE cpu.stop_wakeup_cycles_remaining > 4
    <3>1. PICK left \in 0 .. WakeupClocks :
            left = cpu.stop_wakeup_cycles_remaining - 4 /\ left > 0
      BY <1>2, <2>1, CpuControlAssumption
    <3>2. cpu' = [cpu EXCEPT !.stop_wakeup_cycles_remaining = left]
      BY <2>1, <3>1 DEF StoppedCall
    <3> QED
      BY <1>1, <1>2, <3>1, <3>2 DEF CpuState
  <2>2. CASE ~(cpu.stop_wakeup_cycles_remaining > 4)
    <3> DEFINE u == [cpu EXCEPT !.stop_wakeup_cycles_remaining = 0]
               v == [u EXCEPT !.stop_wakeup_requested = FALSE]
               w == [v EXCEPT !.stopped = FALSE]
    <3>1. 0 \in 0 .. WakeupClocks
      BY CpuControlAssumption
    <3>2. u \in CpuState
      BY <1>2, <3>1 DEF CpuState
    <3>3. v \in CpuState /\ w \in CpuState
      BY <3>2 DEF CpuState
    <3>4. cpu' = w
      BY <1>2, <2>2 DEF StoppedCall, CpuState
    <3> QED
      BY <1>1, <1>2, <3>3, <3>4 DEF CpuState
  <2> QED
    BY <2>1, <2>2
<1>4. TypeOK'
  BY <1>1, <1>3 DEF IInv, TypeOK
<1>5. OneMode'
  BY <1>1, <1>2, <1>3 DEF OneMode
<1>6. DecisionsHold'
  BY <1>1, <1>2, <1>3 DEF DecisionsHold
<1> QED
  BY <1>4, <1>5, <1>6 DEF IInv

LEMMA ButtonPreserves == IInv /\ Button => IInv'
<1> SUFFICES ASSUME IInv, Button PROVE IInv'
  OBVIOUS
<1>1. /\ dot = 0 /\ flags' = flags \cup {Joypad}
      /\ ie' = ie /\ delayed' = delayed /\ dot' = dot /\ sampled' = sampled
  BY DEF Button
<1>2. flags' \in SUBSET Sources /\ (Pending => Pending')
  BY <1>1, CpuControlAssumption DEF IInv, TypeOK, Pending
<1>3. CASE cpu' = cpu
  <2>1. TypeOK'
    BY <1>1, <1>2, <1>3 DEF IInv, TypeOK
  <2>2. OneMode'
    BY <1>1, <1>3 DEF IInv, OneMode, Running
  <2>3. DecisionsHold'
    BY <1>1, <1>2, <1>3 DEF IInv, DecisionsHold
  <2> QED
    BY <2>1, <2>2, <2>3 DEF IInv
<1>4. CASE cpu.stopped /\ cpu' = [cpu EXCEPT !.stop_wakeup_requested = TRUE,
                                             !.stop_wakeup_cycles_remaining = WakeupClocks]
  <2> DEFINE u == [cpu EXCEPT !.stop_wakeup_requested = TRUE]
             v == [u EXCEPT !.stop_wakeup_cycles_remaining = WakeupClocks]
  <2>1. WakeupClocks \in 0 .. WakeupClocks /\ WakeupClocks > 0
    BY CpuControlAssumption
  <2>2. cpu \in CpuState /\ u \in CpuState
    BY DEF IInv, TypeOK, CpuState
  <2>3. v \in CpuState
    BY <2>1, <2>2 DEF CpuState
  <2>4. cpu' = v
    BY <1>4, <2>2 DEF CpuState
  <2>5. /\ ~cpu.halted /\ ~cpu.locked_up /\ ~cpu.servicing_interrupt
        /\ ~cpu.halt_bug /\ ~cpu.ime_enable_pending /\ cpu.at_instruction_boundary
        /\ ~cpu.just_halted /\ ~sampled /\ delayed = NoWrite
    BY <1>4, <2>2 DEF IInv, OneMode, Running, CpuState
  <2>6. /\ ~cpu'.halted /\ ~cpu'.locked_up /\ ~cpu'.servicing_interrupt
        /\ ~cpu'.halt_bug /\ ~cpu'.ime_enable_pending /\ cpu'.at_instruction_boundary
        /\ ~cpu'.just_halted /\ cpu'.stopped
        /\ cpu'.stop_wakeup_requested /\ cpu'.stop_wakeup_cycles_remaining > 0
    BY <1>4, <2>1, <2>2, <2>4, <2>5 DEF CpuState
  <2>7. TypeOK'
    BY <1>1, <1>2, <2>3, <2>4 DEF IInv, TypeOK
  <2>8. OneMode'
    BY <1>1, <2>5, <2>6 DEF OneMode
  <2>9. DecisionsHold'
    BY <1>1, <2>5, <2>6 DEF DecisionsHold
  <2> QED
    BY <2>7, <2>8, <2>9 DEF IInv
<1> QED
  BY <1>3, <1>4 DEF Button

LEMMA ResetPreserves == IInv /\ Reset => IInv'
<1> SUFFICES ASSUME IInv, Reset PROVE IInv'
  OBVIOUS
<1>1. /\ dot' \in 0 .. 4 /\ 0 \in 0 .. 4 /\ 0 \in 0 .. WakeupClocks /\ "short" \in Kinds
  BY CpuControlAssumption DEF Reset, Kinds, IInv, TypeOK
<1>2. cpu' \in CpuState
  BY <1>1 DEF Reset, FreshCpu, CpuState
<1>3. TypeOK'
  BY <1>1, <1>2 DEF Reset, TypeOK
<1> QED
  BY <1>3 DEF Reset, IInv, FreshCpu, OneMode, DecisionsHold, Running

LEMMA NextPreserves == IInv /\ [Next]_vars => IInv'
<1> SUFFICES ASSUME IInv, [Next]_vars PROVE IInv'
  OBVIOUS
<1>1. ASSUME NEW kind \in Kinds, FetchOpcode(kind) PROVE IInv'
  BY <1>1, FetchPreserves
<1>2. CASE UNCHANGED vars
  BY <1>2 DEF vars, IInv, TypeOK, OneMode, DecisionsHold, Running, Pending
<1> QED
  BY <1>1, <1>2, DotPreserves, ContinuePreserves, FinishPreserves, DispatchPreserves,
     ServicePreserves, SleepPreserves, StoppedCallPreserves, ButtonPreserves, ResetPreserves
     DEF Next

-----------------------------------------------------------------------------
(* The theorems. *)

LEMMA Invariance == Spec => []IInv
BY InitInv, NextPreserves, PTL DEF Spec

\* The members of the CPU and the interrupt registers keep their ranges.
THEOREM TypeCorrect == Spec => []TypeOK
<1>1. IInv => TypeOK
  BY DEF IInv
<1> QED
  BY <1>1, Invariance, PTL

\* However programs, devices, buttons and resets interleave, the flags of the
\* CPU describe one mode.
THEOREM ModesStayApart == Spec => []OneMode
<1>1. IInv => OneMode
  BY DEF IInv
<1> QED
  BY <1>1, Invariance, PTL

\* What HALT has sampled and what a dispatch was begun for still stands when it
\* is acted upon.
THEOREM DecisionsAreNotStale == Spec => []DecisionsHold
<1>1. IInv => DecisionsHold
  BY DEF IInv
<1> QED
  BY <1>1, Invariance, PTL

\* With IME granted after HALT's decision, the M-cycle after HALT dispatches.
THEOREM HaltBugNeedsImeOff == Spec => BugWithoutIme
<1>1. ASSUME IInv, [Next]_vars, cpu.halt_bug, cpu.ime, dot = 4
      PROVE  cpu'.servicing_interrupt \/ UNCHANGED vars
  <2>1. /\ ~cpu.halted /\ ~cpu.stopped /\ ~cpu.locked_up /\ ~cpu.servicing_interrupt
        /\ cpu.at_instruction_boundary /\ Pending /\ Woken.ime
    BY <1>1, AwakeFields DEF IInv, OneMode, DecisionsHold, Running
  <2>2. CASE Dispatch
    <3> DEFINE s == StartInterrupt(Awake)
               u == InterruptCycle(s)
    <3>1. s \in CpuState /\ s.servicing_interrupt /\ s.interrupt_m_cycle = 0
      BY <1>1, AwakeFields, StartInterruptFields
    <3> HIDE DEF s
    <3>2. u \in CpuState /\ u.servicing_interrupt
      BY <3>1, InterruptCycleFields
    <3>3. cpu' = u \/ cpu' = [u EXCEPT !.ime = TRUE]
      BY <2>2 DEF Dispatch, Promoted, s
    <3> HIDE DEF u
    <3> QED
      BY <3>2, <3>3, PromotedFields
  <2>3. CASE UNCHANGED vars
    BY <2>3
  <2>4. ~Dot /\ ~StoppedCall /\ ~Button /\ ~Reset /\ ~Service /\ ~Sleep
    <3>1. ~(dot < 4) /\ dot # 0
      BY <1>1
    <3>2. ~Dot /\ ~Button /\ ~Reset
      BY <3>1 DEF Dot, Button, Reset
    <3>3. ~StoppedCall /\ ~Service /\ ~Sleep
      BY <2>1 DEF StoppedCall, Service, Sleep
    <3> QED
      BY <3>2, <3>3
  <2>5. ~Continue /\ ~Finish /\ ~Idle /\ \A kind \in Kinds : ~FetchOpcode(kind)
    BY <2>1 DEF Continue, Finish, Idle, FetchOpcode
  <2> QED
    BY <1>1, <2>2, <2>3, <2>4, <2>5 DEF Next
<1>2. IInv /\ [Next]_vars
        => [cpu.halt_bug /\ cpu.ime /\ dot = 4 => cpu'.servicing_interrupt]_vars
  BY <1>1
<1> QED
  BY <1>2, Invariance, PTL DEF Spec, BugWithoutIme

-----------------------------------------------------------------------------
(* The decimal adjustment of module Alu. *)

Digits == 0 .. 9

\* DAA after an addition of two decimal bytes, with or without a carry: the
\* decimal digits of their sum, and a carry from the hundreds.
THEOREM DecimalAddition ==
  ASSUME NEW high \in Digits, NEW low \in Digits, NEW x \in Digits, NEW y \in Digits,
         NEW carry \in BOOLEAN
  PROVE  LET sum == Add8(16 * high + low, 16 * x + y, carry)
             adjusted == DecimalAdjustAccumulator(sum.value, sum.f)
             total == (10 * high + low) + (10 * x + y) + Bit(carry)
         IN  /\ adjusted.value = 16 * ((total % 100) \div 10) + (total % 10)
             /\ adjusted.f.c = (total > 99)
<1> DEFINE u == Bit(carry)
           lhs == 16 * high + low
           rhs == 16 * x + y
           sum == Add8(lhs, rhs, carry)
           l == low + y + u
           h == high + x
           a == (16 * h + l) % 256
           total == (10 * high + low) + (10 * x + y) + u
<1>1. u \in 0 .. 1
  BY DEF Bit
<1>2. /\ l \in 0 .. 19 /\ h \in 0 .. 18 /\ total = 10 * h + l
      /\ lhs % 16 = low /\ rhs % 16 = y /\ lhs + rhs + u = 16 * h + l
  <2> HIDE DEF u
  <2> QED BY <1>1 DEF Digits
<1>3. /\ sum.value = a /\ sum.f.n = FALSE
      /\ sum.f.h = HalfCarry(lhs, rhs, carry) /\ sum.f.c = Carry(lhs, rhs, carry)
  <2> HIDE DEF lhs, rhs, l, h
  <2> QED BY <1>2 DEF Add8, Result
<1>4. HalfCarry(lhs, rhs, carry) <=> l > 15
  <2> HIDE DEF lhs, rhs
  <2> QED BY <1>2, <1>1 DEF HalfCarry
<1>5. Carry(lhs, rhs, carry) <=> 16 * h + l > 255
  <2> HIDE DEF lhs, rhs, l, h
  <2> QED BY <1>2 DEF Carry
<1> HIDE DEF sum, l, h, lhs, rhs, u, total
<1>6. AdjustsLow(a, sum.f) <=> l > 9
  <2>1. a % 16 = l % 16
    BY <1>2
  <2>2. AdjustsLow(a, sum.f) <=> HalfCarry(lhs, rhs, carry) \/ l % 16 > 9
    BY <1>3, <2>1 DEF AdjustsLow
  <2> QED BY <1>2, <1>4, <2>2
<1>7. AdjustsHigh(a, sum.f) <=> total > 99
  <2>1. AdjustsHigh(a, sum.f) <=> Carry(lhs, rhs, carry) \/ a > 153
    BY <1>3 DEF AdjustsHigh
  <2>2. (16 * h + l > 255 \/ a > 153) <=> (10 * h + l > 99)
    <3>1. CASE 16 * h + l > 255
      BY <1>2, <3>1
    <3>2. CASE 16 * h + l <= 255
      <4>1. a = 16 * h + l
        BY <1>2, <3>2
      <4> QED BY <1>2, <3>2, <4>1
    <3> QED BY <1>2, <3>1, <3>2
  <2> QED BY <1>2, <1>5, <2>1, <2>2
<1>8. LET adjusted == DecimalAdjustAccumulator(a, sum.f)
      IN  /\ adjusted.value
               = (a + Adjustment(AdjustsHigh(a, sum.f), AdjustsLow(a, sum.f))) % 256
          /\ adjusted.f.c = AdjustsHigh(a, sum.f)
  <2>1. DecimalAdjustAccumulator(a, sum.f)
          = Result((a + Adjustment(AdjustsHigh(a, sum.f), AdjustsLow(a, sum.f))) % 256,
                   sum.f.n, FALSE, AdjustsHigh(a, sum.f))
    BY <1>3 DEF DecimalAdjustAccumulator
  <2> QED BY <2>1 DEF Result
<1> DEFINE fix == (IF total > 99 THEN 96 ELSE 0) + (IF l > 9 THEN 6 ELSE 0)
<1>9. Adjustment(AdjustsHigh(a, sum.f), AdjustsLow(a, sum.f)) = fix
  BY <1>6, <1>7 DEF Adjustment, Bit
<1>10. (a + fix) % 256
         = 16 * ((total % 100) \div 10) + (total % 10)
  <2>1. CASE total > 99 /\ l > 9
    BY <1>2, <2>1
  <2>2. CASE total > 99 /\ l <= 9
    BY <1>2, <2>2
  <2>3. CASE total <= 99 /\ l > 9
    BY <1>2, <2>3
  <2>4. CASE total <= 99 /\ l <= 9
    BY <1>2, <2>4
  <2> QED BY <1>2, <2>1, <2>2, <2>3, <2>4
<1>11. AdjustsHigh(a, sum.f) = (total > 99)
  BY <1>7 DEF AdjustsHigh
<1> HIDE DEF a, fix
<1>12. DecimalAdjustAccumulator(a, sum.f).value = 16 * ((total % 100) \div 10) + (total % 10)
  BY <1>8, <1>9, <1>10
<1>13. DecimalAdjustAccumulator(a, sum.f).f.c = (total > 99)
  BY <1>8, <1>11
<1> QED BY <1>3, <1>12, <1>13 DEF sum, lhs, rhs, u, total

\* DAA after a subtraction of two decimal bytes, with or without a borrow: the
\* decimal digits of their difference modulo 100, and a borrow below zero.
THEOREM DecimalSubtraction ==
  ASSUME NEW high \in Digits, NEW low \in Digits, NEW x \in Digits, NEW y \in Digits,
         NEW carry \in BOOLEAN
  PROVE  LET difference == Sub8(16 * high + low, 16 * x + y, carry)
             adjusted == DecimalAdjustAccumulator(difference.value, difference.f)
             total == (10 * high + low) - (10 * x + y) - Bit(carry)
         IN  /\ adjusted.value = 16 * ((total % 100) \div 10) + (total % 10)
             /\ adjusted.f.c = (total < 0)
<1> DEFINE u == Bit(carry)
           lhs == 16 * high + low
           rhs == 16 * x + y
           difference == Sub8(lhs, rhs, carry)
           l == low - y - u
           h == high - x
           a == (16 * h + l) % 256
           total == (10 * high + low) - (10 * x + y) - u
<1>1. u \in 0 .. 1
  BY DEF Bit
<1>2. /\ l \in -10 .. 9 /\ h \in -9 .. 9 /\ total = 10 * h + l
      /\ lhs % 16 = low /\ rhs % 16 = y /\ lhs - rhs - u = 16 * h + l
  <2> HIDE DEF u
  <2> QED BY <1>1 DEF Digits
<1>3. /\ difference.value = a /\ difference.f.n = TRUE
      /\ difference.f.h = HalfBorrow(lhs, rhs, carry)
      /\ difference.f.c = Borrow(lhs, rhs, carry)
  <2> HIDE DEF lhs, rhs, l, h
  <2> QED BY <1>2 DEF Sub8, Result
<1>4. HalfBorrow(lhs, rhs, carry) <=> l < 0
  <2>1. low \in Int /\ y \in Int
    BY DEF Digits
  <2> HIDE DEF lhs, rhs, u
  <2> QED BY <1>2, <1>1, <2>1 DEF HalfBorrow, u
<1>5. Borrow(lhs, rhs, carry) <=> total < 0
  <2>1. lhs \in Int /\ rhs \in Int
    BY DEF Digits
  <2>2. Borrow(lhs, rhs, carry) <=> 16 * h + l < 0
    <3> HIDE DEF lhs, rhs, l, h, u
    <3> QED BY <1>1, <1>2, <2>1 DEF Borrow, u
  <2> HIDE DEF l, h, total, lhs, rhs
  <2>3. 16 * h + l < 0 <=> 10 * h + l < 0
    BY <1>2
  <2> QED BY <1>2, <2>2, <2>3
<1> HIDE DEF difference, l, h, lhs, rhs, u, total
<1>6. AdjustsLow(a, difference.f) <=> l < 0
  BY <1>3, <1>4 DEF AdjustsLow
<1>7. AdjustsHigh(a, difference.f) <=> total < 0
  BY <1>3, <1>5 DEF AdjustsHigh
<1>8. LET adjusted == DecimalAdjustAccumulator(a, difference.f)
      IN  /\ adjusted.value
               = (a - Adjustment(AdjustsHigh(a, difference.f), AdjustsLow(a, difference.f))) % 256
          /\ adjusted.f.c = AdjustsHigh(a, difference.f)
  <2>1. DecimalAdjustAccumulator(a, difference.f)
          = Result((a - Adjustment(AdjustsHigh(a, difference.f),
                                   AdjustsLow(a, difference.f))) % 256,
                   difference.f.n, FALSE, AdjustsHigh(a, difference.f))
    BY <1>3 DEF DecimalAdjustAccumulator
  <2> QED BY <2>1 DEF Result
<1> DEFINE fix == (IF total < 0 THEN 96 ELSE 0) + (IF l < 0 THEN 6 ELSE 0)
<1>9. Adjustment(AdjustsHigh(a, difference.f), AdjustsLow(a, difference.f)) = fix
  BY <1>6, <1>7 DEF Adjustment, Bit
<1>10. (a - fix) % 256
         = 16 * ((total % 100) \div 10) + (total % 10)
  <2>1. CASE total < 0 /\ l < 0
    BY <1>2, <2>1
  <2>2. CASE total < 0 /\ l >= 0
    BY <1>2, <2>2
  <2>3. CASE total >= 0 /\ l < 0
    BY <1>2, <2>3
  <2>4. CASE total >= 0 /\ l >= 0
    BY <1>2, <2>4
  <2> QED BY <1>2, <2>1, <2>2, <2>3, <2>4
<1>11. AdjustsHigh(a, difference.f) = (total < 0)
  BY <1>7 DEF AdjustsHigh
<1> HIDE DEF a, fix
<1>12. DecimalAdjustAccumulator(a, difference.f).value = 16 * ((total % 100) \div 10) + (total % 10)
  BY <1>8, <1>9, <1>10
<1>13. DecimalAdjustAccumulator(a, difference.f).f.c = (total < 0)
  BY <1>8, <1>11
<1> QED BY <1>3, <1>12, <1>13 DEF difference, lhs, rhs, u, total
-----------------------------------------------------------------------------
(* The additions of words of module Alu. *)

Byte == 0 .. 255

\* What an adder of bytes with a carry makes of a and b.
IsByteSum(r, a, b, u) ==
  /\ r.value = (IF (a + b) + u > 255 THEN ((a + b) + u) - 256 ELSE (a + b) + u)
  /\ r.f.n = FALSE
  /\ r.f.h = (((a % 16) + (b % 16)) + u > 15)
  /\ r.f.c = ((a + b) + u > 255)

\* Add8 is that adder.
LEMMA ByteSum ==
  ASSUME NEW a \in Byte, NEW b \in Byte, NEW carry \in BOOLEAN
  PROVE  IsByteSum(Add8(a, b, carry), a, b, Bit(carry))
<1> DEFINE u == Bit(carry)
           s == (a + b) + u
           r == Add8(a, b, carry)
           g == (a % 16) + (b % 16)
<1>1. a \in 0 .. 255 /\ b \in 0 .. 255 /\ u \in 0 .. 1
  BY DEF Bit, Byte
<1>2. /\ r.value = s % 256 /\ r.f.n = FALSE
      /\ r.f.h = (g + u > 15) /\ r.f.c = (s > 255)
  BY DEF Add8, Result, HalfCarry, Carry
<1> HIDE DEF u, r, g
<1>3. s % 256 = (IF s > 255 THEN s - 256 ELSE s)
  <2>1. s \in 0 .. 511
    BY <1>1
  <2> HIDE DEF s
  <2>2. CASE s > 255
    BY <2>1, <2>2, SMT
  <2>3. CASE ~(s > 255)
    BY <2>1, <2>3, SMT
  <2> QED
    BY <2>2, <2>3
<1> HIDE DEF s
<1>4. /\ r.value = (IF s > 255 THEN s - 256 ELSE s) /\ r.f.n = FALSE
      /\ r.f.h = (g + u > 15) /\ r.f.c = (s > 255)
  BY <1>2, <1>3
<1> QED
  BY <1>4 DEF IsByteSum, u, s, r, g

\* The carry of one addition goes into the next.
LEMMA CarryIsAdded ==
  ASSUME NEW a \in Byte, NEW b \in Byte
  PROVE  LET r == Add8(a, b, FALSE) IN
         /\ IsByteSum(r, a, b, 0) /\ r.f.c \in BOOLEAN
         /\ Bit(r.f.c) = (IF a + b > 255 THEN 1 ELSE 0)
         /\ r.value = (IF a + b > 255 THEN (a + b) - 256 ELSE a + b)
<1> DEFINE r == Add8(a, b, FALSE)
           s == a + b
<1>1. Bit(FALSE) = 0 /\ FALSE \in BOOLEAN
  BY DEF Bit
<1>2. IsByteSum(r, a, b, 0)
  BY <1>1, ByteSum, Zenon
<1>3. /\ r.f.c = (s + 0 > 255)
      /\ r.value = (IF s + 0 > 255 THEN (s + 0) - 256 ELSE s + 0)
  <2> HIDE DEF r
  <2> QED
    BY <1>2 DEF IsByteSum
<1>4. s \in Int
  BY DEF Byte
<1> HIDE DEF r, s
<1>5. r.f.c = (s > 255) /\ r.value = (IF s > 255 THEN s - 256 ELSE s)
  BY <1>3, <1>4
<1>6. r.f.c \in BOOLEAN /\ Bit(r.f.c) = (IF s > 255 THEN 1 ELSE 0)
  <2> DEFINE j == r.f.c
  <2>1. j = (s > 255)
    BY <1>5
  <2> HIDE DEF j
  <2>2. CASE s > 255
    <3>1. j = TRUE
      BY <2>1, <2>2
    <3> QED
      BY <2>2, <3>1 DEF Bit, j
  <2>3. CASE ~(s > 255)
    <3> DEFINE B == s > 255
    <3>1. j = B /\ B = FALSE
      BY <2>1, <2>3
    <3> HIDE DEF B
    <3>2. j = FALSE
      BY <3>1, Zenon
    <3> QED
      BY <2>3, <3>2 DEF Bit, j
  <2> QED
    BY <2>2, <2>3
<1> QED
  BY <1>2, <1>5, <1>6 DEF r, s

\* The low part of a word, up to the middle of its high byte.
LEMMA LowPart ==
  ASSUME NEW a \in Byte, NEW b \in Byte
  PROVE  (256 * a + b) % 4096 = 256 * (a % 16) + b
<1> DEFINE m == a % 16
           d == a \div 16
<1>1. a = 16 * d + m /\ d \in 0 .. 15 /\ m \in 0 .. 15 /\ b \in 0 .. 255
  BY SMT DEF Byte
<1> HIDE DEF m, d
<1> DEFINE l == 256 * m + b
           w == 256 * a + b
<1>2. w = 4096 * d + l /\ l \in 0 .. 4095
  BY <1>1, SMT
<1> HIDE DEF l, w
<1>3. w % 4096 = l
  BY <1>1, <1>2, SMT
<1> QED
  BY <1>3 DEF l, w, m

\* ADD HL adds the low bytes and then, with the carry, the high ones; its flags are
\* those of the second addition, and Z is left alone.
THEOREM WideAddition ==
  ASSUME NEW a \in Byte, NEW b \in Byte, NEW x \in Byte, NEW y \in Byte, NEW f \in Flags
  PROVE  LET low == Add8(b, y, FALSE)
             high == Add8(a, x, low.f.c)
             sum == AddHl(256 * a + b, 256 * x + y, f)
         IN  /\ sum.value = 256 * high.value + low.value
             /\ sum.f.z = f.z /\ sum.f.n = high.f.n
             /\ sum.f.h = high.f.h /\ sum.f.c = high.f.c
<1> DEFINE low == Add8(b, y, FALSE)
           carry == low.f.c
           u == Bit(carry)
           high == Add8(a, x, carry)
           s == 256 * a + b
           t == 256 * x + y
           sum == AddHl(s, t, f)
           l == low.value
           h == high.value
           p == a % 16
           q == x % 16
           k == s % 4096
           m == t % 4096
<1>1. /\ carry \in BOOLEAN /\ u = (IF b + y > 255 THEN 1 ELSE 0)
      /\ l = (IF b + y > 255 THEN (b + y) - 256 ELSE b + y)
  BY CarryIsAdded
<1>2. IsByteSum(high, a, x, u)
  BY <1>1, ByteSum
<1>3. /\ h = (IF (a + x) + u > 255 THEN ((a + x) + u) - 256 ELSE (a + x) + u)
      /\ high.f.h = ((p + q) + u > 15)
      /\ high.f.c = ((a + x) + u > 255)
  <2> HIDE DEF u, high
  <2> QED
    BY <1>2 DEF IsByteSum
<1>4. /\ sum.value = (s + t) % 65536
      /\ sum.f.h = (k + m > 4095) /\ sum.f.c = (s + t > 65535)
  <2> HIDE DEF s, t
  <2> QED
    BY SMT DEF AddHl
<1>5. sum.f.z = f.z /\ sum.f.n = FALSE
  <2> HIDE DEF s, t
  <2> QED
    BY SMT DEF AddHl
<1>6. high.f.n = FALSE
  <2> HIDE DEF u, high
  <2> QED
    BY <1>2 DEF IsByteSum
<1>7. k = 256 * p + b /\ m = 256 * q + y
  BY LowPart
<1>8. /\ a \in 0 .. 255 /\ b \in 0 .. 255 /\ x \in 0 .. 255 /\ y \in 0 .. 255
      /\ p \in 0 .. 15 /\ q \in 0 .. 15
  BY SMT DEF Byte
<1>9. s = 256 * a + b /\ t = 256 * x + y
  OBVIOUS
<1> HIDE DEF low, carry, u, high, s, t, sum, l, h, p, q, k, m
<1> DEFINE r == s + t
           c == a + x
           e == b + y
<1>10. c \in 0 .. 510 /\ e \in 0 .. 510
  BY <1>8, SMT
<1>11. r = 256 * c + e
  BY <1>8, <1>9, SMT
<1>12. sum.value = r % 65536 /\ sum.f.c = (r > 65535)
  BY <1>4, SMT
<1>13. /\ u = (IF e > 255 THEN 1 ELSE 0) /\ l = (IF e > 255 THEN e - 256 ELSE e)
       /\ h = (IF c + u > 255 THEN (c + u) - 256 ELSE c + u)
       /\ high.f.c = (c + u > 255)
  BY <1>1, <1>3, SMT
<1> HIDE DEF r, c, e
<1>14. r \in Int /\ 0 <= r /\ r < 2 * 65536
  BY <1>10, <1>11, SMT
<1>15. r % 65536 = (IF r > 65535 THEN r - 65536 ELSE r)
  <2>1. CASE r > 65535
    <3>1. r % 65536 = r - 65536
      BY <1>14, <2>1, SMT
    <3> QED
      BY <2>1, <3>1, SMT
  <2>2. CASE ~(r > 65535)
    <3>1. r % 65536 = r
      BY <1>14, <2>2, SMT
    <3> QED
      BY <2>2, <3>1, SMT
  <2> QED
    BY <2>1, <2>2, SMT
<1>16. sum.value = 256 * h + l
  <2> DEFINE v == sum.value
  <2>1. v = (IF r > 65535 THEN r - 65536 ELSE r)
    BY <1>12, <1>15, SMT
  <2> HIDE DEF v
  <2>2. v = 256 * h + l
    BY <1>10, <1>11, <1>13, <2>1, SMT
  <2> QED
    BY <2>2, SMT DEF v
<1>17. (r > 65535) = (c + u > 255)
  BY <1>10, <1>11, <1>13, SMT
<1>18. (k + m > 4095) = ((p + q) + u > 15)
  BY <1>1, <1>7, <1>8, SMT
<1>19. sum.f.h = high.f.h
  <2> DEFINE H == high.f.h
             S == sum.f.h
  <2>1. H = ((p + q) + u > 15) /\ S = (k + m > 4095)
    BY <1>3, <1>4
  <2> HIDE DEF H, S
  <2>2. H = S
    BY <1>18, <2>1, SMT
  <2> QED
    BY <2>2 DEF H, S
<1>20. sum.f.c = high.f.c
  BY <1>12, <1>13, <1>17, SMT
<1>21. sum.f.z = f.z /\ sum.f.n = high.f.n
  BY <1>5, <1>6, Zenon
<1> QED
  BY <1>16, <1>19, <1>20, <1>21 DEF sum, high, low, l, h, carry, s, t

\* ADD SP adds a signed byte: the low bytes and then, with the carry, the byte that
\* extends its sign; its flags are those of the first addition, with Z reset.
THEOREM StackPointerOffset ==
  ASSUME NEW a \in Byte, NEW b \in Byte, NEW y \in Byte
  PROVE  LET low == Add8(b, y, FALSE)
             high == Add8(a, IF y < 128 THEN 0 ELSE 255, low.f.c)
             moved == AddSpOffset(256 * a + b, y)
         IN  /\ moved.value = 256 * high.value + low.value
             /\ moved.f.z = FALSE /\ moved.f.n = low.f.n
             /\ moved.f.h = low.f.h /\ moved.f.c = low.f.c
<1> DEFINE low == Add8(b, y, FALSE)
           carry == low.f.c
           u == Bit(carry)
           x == IF y < 128 THEN 0 ELSE 255
           high == Add8(a, x, carry)
           s == 256 * a + b
           o == IF y < 128 THEN y ELSE y - 256
           moved == AddSpOffset(s, y)
           l == low.value
           h == high.value
           r == s + o
           c == a + x
           e == b + y
<1>1. x \in Byte
  BY SMT DEF Byte
<1>2. /\ IsByteSum(low, b, y, 0) /\ carry \in BOOLEAN /\ u = (IF e > 255 THEN 1 ELSE 0)
      /\ l = (IF e > 255 THEN e - 256 ELSE e)
  BY CarryIsAdded
<1>3. IsByteSum(high, a, x, u)
  BY <1>1, <1>2, ByteSum
<1>4. h = (IF c + u > 255 THEN (c + u) - 256 ELSE c + u)
  <2> HIDE DEF u, high, x
  <2> QED
    BY <1>3 DEF IsByteSum
<1>5. low.f.n = FALSE
  <2> HIDE DEF low
  <2> QED
    BY <1>2 DEF IsByteSum
<1>6. low.f.h = (((b % 16) + (y % 16)) + 0 > 15)
  <2> HIDE DEF low
  <2> QED
    BY <1>2 DEF IsByteSum
<1>7. low.f.c = (e + 0 > 255)
  <2> HIDE DEF low
  <2> QED
    BY <1>2 DEF IsByteSum
<1>8. /\ moved.value = r % 65536 /\ moved.f.h = ((s % 16) + (y % 16) > 15)
      /\ moved.f.c = ((s % 256) + y > 255)
  <2> HIDE DEF s
  <2> QED
    BY SMT DEF AddSpOffset
<1>9. moved.f.z = FALSE /\ moved.f.n = FALSE
  <2> HIDE DEF s
  <2> QED
    BY SMT DEF AddSpOffset
<1>10. a \in 0 .. 255 /\ b \in 0 .. 255 /\ y \in 0 .. 255
  BY SMT DEF Byte
<1>11. s \in Int /\ s = 256 * a + b
  BY <1>10, SMT
<1>12. s % 256 = b /\ s % 16 = b % 16
  <2> HIDE DEF s
  <2>1. s % 256 = b
    BY <1>10, <1>11, SMT
  <2>2. s % 16 = b % 16
    BY <1>10, <1>11, SMT
  <2> QED
    BY <2>1, <2>2
<1>13. x = (IF y < 128 THEN 0 ELSE 255) /\ o = (IF y < 128 THEN y ELSE y - 256)
  OBVIOUS
<1> HIDE DEF low, carry, u, x, high, s, o, moved, l, h
<1>14. x \in 0 .. 255
  BY <1>10, <1>13, SMT
<1>15. c \in 0 .. 510 /\ e \in 0 .. 510
  BY <1>10, <1>14, SMT
<1>16. /\ y < 128 => r = 256 * c + e
       /\ ~(y < 128) => r = (256 * c + e) - 65536
  BY <1>10, <1>11, <1>13, SMT
<1>17. (y < 128 => c \in 0 .. 255) /\ (~(y < 128) => c \in 255 .. 510)
  BY <1>10, <1>13, SMT
<1> HIDE DEF r, c, e
<1>18. r \in Int /\ -65536 <= r /\ r < 2 * 65536
  BY <1>15, <1>16, <1>17, SMT
<1>19. r % 65536 = (IF r > 65535 THEN r - 65536 ELSE IF r < 0 THEN r + 65536 ELSE r)
  <2>1. CASE r > 65535
    <3>1. r % 65536 = r - 65536
      BY <1>18, <2>1, SMT
    <3> QED
      BY <2>1, <3>1, SMT
  <2>2. CASE r < 0
    <3>1. r % 65536 = r + 65536
      BY <1>18, <2>2, SMT
    <3>2. ~(r > 65535)
      BY <1>18, <2>2, SMT
    <3> QED
      BY <2>2, <3>1, <3>2, SMT
  <2>3. CASE ~(r > 65535) /\ ~(r < 0)
    <3>1. r % 65536 = r
      BY <1>18, <2>3, SMT
    <3> QED
      BY <2>3, <3>1, SMT
  <2> QED
    BY <2>1, <2>2, <2>3, SMT
<1>20. moved.value = 256 * h + l
  <2> DEFINE v == moved.value
  <2>1. v = (IF r > 65535 THEN r - 65536 ELSE IF r < 0 THEN r + 65536 ELSE r)
    BY <1>8, <1>19, SMT
  <2> HIDE DEF v
  <2>2. v = 256 * h + l
    <3>1. CASE y < 128
      BY <1>2, <1>4, <1>15, <1>16, <1>17, <2>1, <3>1, SMT
    <3>2. CASE ~(y < 128)
      BY <1>2, <1>4, <1>15, <1>16, <1>17, <2>1, <3>2, SMT
    <3> QED
      BY <3>1, <3>2, SMT
  <2> QED
    BY <2>2, SMT DEF v
<1>21. moved.f.h = low.f.h
  <2> DEFINE H == low.f.h
             M == moved.f.h
             m == b % 16
             n == y % 16
  <2>1. m \in Int /\ n \in Int
    BY <1>10, SMT
  <2>2. H = ((m + n) + 0 > 15) /\ M = (m + n > 15)
    BY <1>6, <1>8, <1>12
  <2> HIDE DEF H, M, m, n
  <2>3. H = M
    BY <2>1, <2>2, SMT
  <2> QED
    BY <2>3 DEF H, M
<1>22. moved.f.c = low.f.c
  <2> DEFINE C == low.f.c
             M == moved.f.c
  <2>1. C = (e + 0 > 255) /\ M = (b + y > 255)
    BY <1>7, <1>8, <1>12
  <2> HIDE DEF C, M
  <2>2. C = M
    BY <1>10, <2>1, SMT DEF e
  <2> QED
    BY <2>2 DEF C, M
<1>23. moved.f.n = low.f.n /\ moved.f.z = FALSE
  BY <1>5, <1>9, Zenon
<1> QED
  BY <1>20, <1>21, <1>22, <1>23 DEF moved, high, low, l, h, carry, x, s

-----------------------------------------------------------------------------
(* The timed writes of module TimedWrites. *)

\* The registers whose writes are scheduled an M-cycle ahead.
Timely == {LCDC, SCY, SCX} \union Palettes

\* Those that show a mixture of the old and the new value for a dot.
Blending(a) == a \in {LCDC} \union Palettes

\* How many dots before the end of its M-cycle a write reaches the register.
Ahead(a) == IF a = SCX THEN 2 ELSE 1

\* The mixture.
Mixed(old, a, v) == old \union (IF a = LCDC THEN v \intersect {"bit0"} ELSE v)

\* A write that the k-th of the M-cycles that are left makes.
Turn(a, v, k) == [address |-> a, value |-> v, turn |-> k]

\* The writes of the instruction's M-cycles r that have been announced.
Told(r, p) ==
  {Turn(r[k].write[1].address, r[k].write[1].value, k) :
     k \in {j \in 1 .. Len(r) : /\ ~p /\ r[j].write # <<>> /\ r[1].write # <<>>
                                /\ j = 1 \/ r[1].announce = <<>>}}

\* What an instruction leaves to do after each of its M-cycles.
Shaped(r, p) ==
  \/ r = <<>>
  \/ \E a \in Addresses, v \in Values :
       r = <<Writing(a, v)>> \/ (~p /\ r = StoreAtFetch(a, v))
  \/ /\ ~p
     /\ \E a, b \in Addresses, v, w \in Values :
          \/ /\ b = a + 1
             /\ \/ r = <<Announcing(<<Announced(a, v, 4), Announced(b, w, 8)>>),
                         Writing(a, v), Writing(b, w)>>
                \/ r = <<Writing(a, v), Writing(b, w)>>
          \/ /\ b = a - 1
             /\ \/ r = <<Announcing(<<Announced(a, v, 4)>>),
                         [announce |-> <<Announced(b, w, 4)>>, write |-> <<WriteOf(a, v)>>],
                         Writing(b, w)>>
                \/ r = <<[announce |-> <<Announced(b, w, 4)>>, write |-> <<WriteOf(a, v)>>],
                         Writing(b, w)>>

BusState ==
  [ timed_writes : [1 .. Slots -> Slot], announced : Seq(Timely),
    scheduling : BOOLEAN, asserted : BOOLEAN, io : Values ]

\* The slot in which a told write w reaches its register, d dots into an M-cycle, and
\* the one that shows the mixture before.
IsFinal(slot, w, d) ==
  /\ slot.address = w.address /\ slot.value = w.value
  /\ slot.dots_remaining = ((4 * w.turn) - d) - Ahead(w.address)

IsBlend(slot, w, d, old, x) ==
  /\ slot.address = w.address /\ Blending(w.address)
  /\ slot.address = x => slot.value = Mixed(old, w.address, w.value)
  /\ slot.dots_remaining = ((4 * w.turn) - d) - 2

IsLate(slot, d) == slot.address = IF_ /\ slot.dots_remaining = 1 /\ d = 0

Busy(s, i) == s.timed_writes[i].dots_remaining # 0

\* Every slot in use holds a told write, or IF's.
SlotsAreTold(s, told, d, x) ==
  \A i \in 1 .. Slots : Busy(s, i) =>
    \/ IsLate(s.timed_writes[i], d)
    \/ \E w \in told : /\ w.address \in Timely
                       /\ IsFinal(s.timed_writes[i], w, d) \/ IsBlend(s.timed_writes[i], w, d, s.io, x)

SlotsDiffer(s) ==
  \A i, j \in 1 .. Slots :
    /\ i # j /\ Busy(s, i) /\ Busy(s, j)
    /\ s.timed_writes[i].address = s.timed_writes[j].address
    => s.timed_writes[i].dots_remaining # s.timed_writes[j].dots_remaining

\* Every told write is in its slots until it is due.
ToldHaveSlots(s, told, d, x) ==
  \A w \in told : w.address \in Timely =>
    /\ ((4 * w.turn) - d) - Ahead(w.address) > 0 =>
         \E i \in 1 .. Slots : IsFinal(s.timed_writes[i], w, d)
    /\ ((4 * w.turn) - d) - 2 > 0 /\ Blending(w.address) =>
         \E i \in 1 .. Slots : IsBlend(s.timed_writes[i], w, d, s.io, x)

\* What is announced is what is told.
AnnouncedAreTold(s, told) ==
  /\ Len(s.announced) <= 2
  /\ Len(s.announced) = 2 => s.announced[1] # s.announced[2]
  /\ \A j \in 1 .. Len(s.announced) : \E w \in told : s.announced[j] = w.address
  /\ \A w \in told : w.address \in Timely =>
       \E j \in 1 .. Len(s.announced) : s.announced[j] = w.address

SlotsKept(s, told, d, x) ==
  SlotsAreTold(s, told, d, x) /\ SlotsDiffer(s) /\ ToldHaveSlots(s, told, d, x)

Kept(s, told, d, x) == SlotsKept(s, told, d, x) /\ AnnouncedAreTold(s, told)

ScheduleInv ==
  /\ State \in BusState /\ bus.scheduling = FALSE /\ bus.asserted = TRUE
  /\ timed_dot \in 0 .. 4 /\ plain \in BOOLEAN /\ watched \in Addresses
  /\ Shaped(rest, plain)
  /\ Kept(State, Told(rest, plain), timed_dot, watched)

ToldOK(told) ==
  /\ \A w \in told : w \in [address : Addresses, value : Values, turn : {1, 2}]
  /\ \A w, y \in told : w.address = y.address => w = y

-----------------------------------------------------------------------------
(* The M-cycles that are left of an instruction. *)

\* The writes to come of the M-cycles r, d dots into the first of them.
StillDue(r, d, p) ==
  {[address |-> r[k].write[1].address, value |-> r[k].write[1].value,
    left |-> (4 * k) - d, plain |-> p] : k \in {j \in 1 .. Len(r) : r[j].write # <<>>}}

ToCome(a, v, l, p) == [address |-> a, value |-> v, left |-> l, plain |-> p]

\* The told writes and those to come of the M-cycles r.
RestIs(r, d, p, told, pending) == Told(r, p) = told /\ StillDue(r, d, p) = pending

\* An M-cycle announces or writes, and not both.
LEMMA CycleFields ==
  ASSUME NEW a, NEW v, NEW q
  PROVE  /\ Announcing(q).announce = q /\ Announcing(q).write = <<>>
         /\ Writing(a, v).announce = <<>> /\ Writing(a, v).write # <<>>
         /\ Writing(a, v).write[1].address = a /\ Writing(a, v).write[1].value = v
         /\ Len(Writing(a, v).write) = 1
BY DEF Announcing, Writing, WriteOf

\* Between two instructions nothing is told and nothing is to come.
LEMMA NothingLeft ==
  ASSUME NEW d, NEW p
  PROVE  RestIs(<<>>, d, p, {}, {})
BY DEF Told, StillDue, RestIs

\* Before its last M-cycle, an instruction has one write to come, which is told.
LEMMA OneWriteLeft ==
  ASSUME NEW a, NEW v, NEW d \in Int, NEW p \in BOOLEAN
  PROVE  RestIs(<<Writing(a, v)>>, d, p,
                (IF p THEN {} ELSE {Turn(a, v, 1)}),
                {ToCome(a, v, 4 - d, p)})
<1> DEFINE r == <<Writing(a, v)>>
           W == {j \in 1 .. Len(r) : r[j].write # <<>>}
           T == {j \in 1 .. Len(r) : /\ ~p /\ r[j].write # <<>> /\ r[1].write # <<>>
                                     /\ j = 1 \/ r[1].announce = <<>>}
<1>1. Len(r) = 1 /\ r[1] = Writing(a, v)
  OBVIOUS
<1>2. /\ r[1].announce = <<>> /\ r[1].write # <<>>
      /\ r[1].write[1].address = a /\ r[1].write[1].value = v
  BY <1>1, CycleFields
<1>3. W = {1} /\ T = IF p THEN {} ELSE {1}
  <2> HIDE DEF r
  <2> QED  BY <1>1, <1>2
<1>4. Told(r, p) = {Turn(r[k].write[1].address, r[k].write[1].value, k) : k \in T}
  BY DEF Told
<1>5. StillDue(r, d, p) = {[address |-> r[k].write[1].address, value |-> r[k].write[1].value,
                           left |-> (4 * k) - d, plain |-> p] : k \in W}
  BY DEF StillDue
<1>6. Told(r, p) = (IF p THEN {} ELSE {Turn(a, v, 1)})
  <2> HIDE DEF r, W, T
  <2> QED  BY <1>2, <1>3, <1>4, <1>5
<1>7. StillDue(r, d, p) = {ToCome(a, v, 4 - d, p)}
  <2>1. (4 * 1) - d = 4 - d /\ (4 * 2) - d = 8 - d /\ (4 * 3) - d = 12 - d
    OBVIOUS
  <2> HIDE DEF r, W, T
  <2> QED  BY <1>2, <1>3, <1>4, <1>5, <2>1, Zenon DEF ToCome
<1> QED
  BY <1>6, <1>7 DEF RestIs

\* Before the announcement of a store its write is to come and not told.
LEMMA StoreLeft ==
  ASSUME NEW a, NEW v, NEW d \in Int
  PROVE  RestIs(StoreAtFetch(a, v), d, FALSE,
                {},
                {ToCome(a, v, 8 - d, FALSE)})
<1> DEFINE r == <<Announcing(<<Announced(a, v, 4)>>), Writing(a, v)>>
           W == {j \in 1 .. Len(r) : r[j].write # <<>>}
           T == {j \in 1 .. Len(r) : /\ ~FALSE /\ r[j].write # <<>> /\ r[1].write # <<>>
                                     /\ j = 1 \/ r[1].announce = <<>>}
<1>1. Len(r) = 2 /\ r[1] = Announcing(<<Announced(a, v, 4)>>) /\ r[2] = Writing(a, v)
  OBVIOUS
<1>2. /\ r[1].write = <<>> /\ r[2].write # <<>>
      /\ r[2].write[1].address = a /\ r[2].write[1].value = v
  BY <1>1, CycleFields
<1>3. W = {2} /\ T = {}
  <2> HIDE DEF r
  <2> QED  BY <1>1, <1>2
<1>4. Told(r, FALSE) = {Turn(r[k].write[1].address, r[k].write[1].value, k) : k \in T}
  BY DEF Told
<1>5. StillDue(r, d, FALSE) = {[address |-> r[k].write[1].address, value |-> r[k].write[1].value,
                               left |-> (4 * k) - d, plain |-> FALSE] : k \in W}
  BY DEF StillDue
<1>6. StoreAtFetch(a, v) = r
  BY DEF StoreAtFetch
<1>7. Told(r, FALSE) = {}
  <2> HIDE DEF r, W, T
  <2> QED  BY <1>2, <1>3, <1>4, <1>5
<1>8. StillDue(r, d, FALSE) = {ToCome(a, v, 8 - d, FALSE)}
  <2>1. (4 * 1) - d = 4 - d /\ (4 * 2) - d = 8 - d /\ (4 * 3) - d = 12 - d
    OBVIOUS
  <2> HIDE DEF r, W, T
  <2> QED  BY <1>2, <1>3, <1>4, <1>5, <2>1, Zenon DEF ToCome
<1> QED
  BY <1>7, <1>8, <1>6 DEF RestIs

\* Before its announcements LD (nn),SP has two writes to come.
LEMMA StoreSpLeft ==
  ASSUME NEW a, NEW v, NEW b, NEW w, NEW d \in Int, NEW q
  PROVE  RestIs(<<Announcing(q), Writing(a, v), Writing(b, w)>>, d, FALSE,
                {},
                {ToCome(a, v, 8 - d, FALSE), ToCome(b, w, 12 - d, FALSE)})
<1> DEFINE r == <<Announcing(q), Writing(a, v), Writing(b, w)>>
           W == {j \in 1 .. Len(r) : r[j].write # <<>>}
           T == {j \in 1 .. Len(r) : /\ ~FALSE /\ r[j].write # <<>> /\ r[1].write # <<>>
                                     /\ j = 1 \/ r[1].announce = <<>>}
<1>1. Len(r) = 3 /\ r[1] = Announcing(q) /\ r[2] = Writing(a, v) /\ r[3] = Writing(b, w)
  OBVIOUS
<1>2. /\ r[1].write = <<>> /\ r[2].write # <<>>
      /\ r[2].write[1].address = a /\ r[2].write[1].value = v
  BY <1>1, CycleFields
<1>3. r[3].write # <<>> /\ r[3].write[1].address = b /\ r[3].write[1].value = w
  BY <1>1, CycleFields
<1>4. W = {2, 3} /\ T = {}
  <2> HIDE DEF r
  <2> QED  BY <1>1, <1>2, <1>3
<1>5. Told(r, FALSE) = {Turn(r[k].write[1].address, r[k].write[1].value, k) : k \in T}
  BY DEF Told
<1>6. StillDue(r, d, FALSE) = {[address |-> r[k].write[1].address, value |-> r[k].write[1].value,
                               left |-> (4 * k) - d, plain |-> FALSE] : k \in W}
  BY DEF StillDue
<1>7. Told(r, FALSE) = {}
  <2> HIDE DEF r, W, T
  <2> QED  BY <1>2, <1>3, <1>4, <1>5, <1>6
<1>8. StillDue(r, d, FALSE) = {ToCome(a, v, 8 - d, FALSE), ToCome(b, w, 12 - d, FALSE)}
  <2>1. (4 * 1) - d = 4 - d /\ (4 * 2) - d = 8 - d /\ (4 * 3) - d = 12 - d
    OBVIOUS
  <2> HIDE DEF r, W, T
  <2> QED  BY <1>2, <1>3, <1>4, <1>5, <1>6, <2>1, Zenon DEF ToCome
<1> QED
  BY <1>7, <1>8 DEF RestIs

\* After them both are told.
LEMMA TwoWritesLeft ==
  ASSUME NEW a, NEW v, NEW b, NEW w, NEW d \in Int
  PROVE  RestIs(<<Writing(a, v), Writing(b, w)>>, d, FALSE,
                {Turn(a, v, 1), Turn(b, w, 2)},
                {ToCome(a, v, 4 - d, FALSE), ToCome(b, w, 8 - d, FALSE)})
<1> DEFINE r == <<Writing(a, v), Writing(b, w)>>
           W == {j \in 1 .. Len(r) : r[j].write # <<>>}
           T == {j \in 1 .. Len(r) : /\ ~FALSE /\ r[j].write # <<>> /\ r[1].write # <<>>
                                     /\ j = 1 \/ r[1].announce = <<>>}
<1>1. Len(r) = 2 /\ r[1] = Writing(a, v) /\ r[2] = Writing(b, w)
  OBVIOUS
<1>2. /\ r[1].write # <<>> /\ r[1].announce = <<>>
      /\ r[1].write[1].address = a /\ r[1].write[1].value = v
  BY <1>1, CycleFields
<1>3. r[2].write # <<>> /\ r[2].write[1].address = b /\ r[2].write[1].value = w
  BY <1>1, CycleFields
<1>4. W = {1, 2} /\ T = {1, 2}
  <2> HIDE DEF r
  <2> QED  BY <1>1, <1>2, <1>3
<1>5. Told(r, FALSE) = {Turn(r[k].write[1].address, r[k].write[1].value, k) : k \in T}
  BY DEF Told
<1>6. StillDue(r, d, FALSE) = {[address |-> r[k].write[1].address, value |-> r[k].write[1].value,
                               left |-> (4 * k) - d, plain |-> FALSE] : k \in W}
  BY DEF StillDue
<1>7. Told(r, FALSE) = {Turn(a, v, 1), Turn(b, w, 2)}
  <2> HIDE DEF r, W, T
  <2> QED  BY <1>2, <1>3, <1>4, <1>5, <1>6
<1>8. StillDue(r, d, FALSE) = {ToCome(a, v, 4 - d, FALSE), ToCome(b, w, 8 - d, FALSE)}
  <2>1. (4 * 1) - d = 4 - d /\ (4 * 2) - d = 8 - d /\ (4 * 3) - d = 12 - d
    OBVIOUS
  <2> HIDE DEF r, W, T
  <2> QED  BY <1>2, <1>3, <1>4, <1>5, <1>6, <2>1, Zenon DEF ToCome
<1> QED
  BY <1>7, <1>8 DEF RestIs

\* The second byte of a push is announced in the M-cycle that writes the first.
Between(a, v, b, w) ==
  [announce |-> <<Announced(b, w, 4)>>, write |-> <<WriteOf(a, v)>>]

\* Before the announcement of its first byte PUSH has two writes to come.
LEMMA PushLeft ==
  ASSUME NEW a, NEW v, NEW b, NEW w, NEW d \in Int, NEW q
  PROVE  RestIs(<<Announcing(q), Between(a, v, b, w), Writing(b, w)>>, d, FALSE,
                {},
                {ToCome(a, v, 8 - d, FALSE), ToCome(b, w, 12 - d, FALSE)})
<1> DEFINE r == <<Announcing(q), Between(a, v, b, w), Writing(b, w)>>
           W == {j \in 1 .. Len(r) : r[j].write # <<>>}
           T == {j \in 1 .. Len(r) : /\ ~FALSE /\ r[j].write # <<>> /\ r[1].write # <<>>
                                     /\ j = 1 \/ r[1].announce = <<>>}
<1>1. Len(r) = 3 /\ r[1] = Announcing(q) /\ r[2] = Between(a, v, b, w) /\ r[3] = Writing(b, w)
  OBVIOUS
<1>2. /\ r[1].write = <<>> /\ r[2].write # <<>>
      /\ r[2].write[1].address = a /\ r[2].write[1].value = v
  BY <1>1, CycleFields DEF Between, WriteOf
<1>3. r[3].write # <<>> /\ r[3].write[1].address = b /\ r[3].write[1].value = w
  BY <1>1, CycleFields
<1>4. W = {2, 3} /\ T = {}
  <2> HIDE DEF r
  <2> QED  BY <1>1, <1>2, <1>3
<1>5. Told(r, FALSE) = {Turn(r[k].write[1].address, r[k].write[1].value, k) : k \in T}
  BY DEF Told
<1>6. StillDue(r, d, FALSE) = {[address |-> r[k].write[1].address, value |-> r[k].write[1].value,
                               left |-> (4 * k) - d, plain |-> FALSE] : k \in W}
  BY DEF StillDue
<1>7. Told(r, FALSE) = {}
  <2> HIDE DEF r, W, T
  <2> QED  BY <1>2, <1>3, <1>4, <1>5, <1>6
<1>8. StillDue(r, d, FALSE) = {ToCome(a, v, 8 - d, FALSE), ToCome(b, w, 12 - d, FALSE)}
  <2>1. (4 * 1) - d = 4 - d /\ (4 * 2) - d = 8 - d /\ (4 * 3) - d = 12 - d
    OBVIOUS
  <2> HIDE DEF r, W, T
  <2> QED  BY <1>2, <1>3, <1>4, <1>5, <1>6, <2>1, Zenon DEF ToCome
<1> QED
  BY <1>7, <1>8 DEF RestIs

\* After it the first is told.
LEMMA PushTailLeft ==
  ASSUME NEW a, NEW v, NEW b, NEW w, NEW d \in Int
  PROVE  RestIs(<<Between(a, v, b, w), Writing(b, w)>>, d, FALSE,
                {Turn(a, v, 1)},
                {ToCome(a, v, 4 - d, FALSE), ToCome(b, w, 8 - d, FALSE)})
<1> DEFINE r == <<Between(a, v, b, w), Writing(b, w)>>
           W == {j \in 1 .. Len(r) : r[j].write # <<>>}
           T == {j \in 1 .. Len(r) : /\ ~FALSE /\ r[j].write # <<>> /\ r[1].write # <<>>
                                     /\ j = 1 \/ r[1].announce = <<>>}
<1>1. Len(r) = 2 /\ r[1] = Between(a, v, b, w) /\ r[2] = Writing(b, w)
  OBVIOUS
<1>2. /\ r[1].write # <<>> /\ r[1].announce # <<>>
      /\ r[1].write[1].address = a /\ r[1].write[1].value = v
  BY <1>1 DEF Between, WriteOf
<1>3. r[2].write # <<>> /\ r[2].write[1].address = b /\ r[2].write[1].value = w
  BY <1>1, CycleFields
<1>4. W = {1, 2} /\ T = {1}
  <2> HIDE DEF r
  <2> QED  BY <1>1, <1>2, <1>3
<1>5. Told(r, FALSE) = {Turn(r[k].write[1].address, r[k].write[1].value, k) : k \in T}
  BY DEF Told
<1>6. StillDue(r, d, FALSE) = {[address |-> r[k].write[1].address, value |-> r[k].write[1].value,
                               left |-> (4 * k) - d, plain |-> FALSE] : k \in W}
  BY DEF StillDue
<1>7. Told(r, FALSE) = {Turn(a, v, 1)}
  <2> HIDE DEF r, W, T
  <2> QED  BY <1>2, <1>3, <1>4, <1>5, <1>6
<1>8. StillDue(r, d, FALSE) = {ToCome(a, v, 4 - d, FALSE), ToCome(b, w, 8 - d, FALSE)}
  <2>1. (4 * 1) - d = 4 - d /\ (4 * 2) - d = 8 - d /\ (4 * 3) - d = 12 - d
    OBVIOUS
  <2> HIDE DEF r, W, T
  <2> QED  BY <1>2, <1>3, <1>4, <1>5, <1>6, <2>1, Zenon DEF ToCome
<1> QED
  BY <1>7, <1>8 DEF RestIs

-----------------------------------------------------------------------------
(* Scheduling a write. *)

Entry(a, v, d) == [address |-> a, value |-> v, dots_remaining |-> d]

Put(s, i, entry) == [s EXCEPT !.timed_writes[i] = entry]

\* The slots in use are the first n.
Room(s, n) == \A i \in 1 .. Slots : Busy(s, i) <=> i <= n

\* What the lemmas need of a state: its ranges, and of its slots one by one.
LEMMA PutFields ==
  ASSUME NEW s \in BusState, NEW i \in 1 .. Slots, NEW entry \in Slot
  PROVE  /\ Put(s, i, entry) \in BusState
         /\ Put(s, i, entry).announced = s.announced /\ Put(s, i, entry).io = s.io
         /\ Put(s, i, entry).scheduling = s.scheduling /\ Put(s, i, entry).asserted = s.asserted
         /\ \A j \in 1 .. Slots :
              Put(s, i, entry).timed_writes[j] = IF j = i THEN entry ELSE s.timed_writes[j]
<1> DEFINE tw == [s.timed_writes EXCEPT ![i] = entry]
<1>1. s.timed_writes \in [1 .. Slots -> Slot]
  BY DEF BusState
<1>2. tw \in [1 .. Slots -> Slot] /\ \A j \in 1 .. Slots : tw[j] = IF j = i THEN entry ELSE s.timed_writes[j]
  BY <1>1
<1>3. Put(s, i, entry) = [s EXCEPT !.timed_writes = tw]
  BY DEF Put
<1> HIDE DEF tw
<1> QED
  BY <1>2, <1>3 DEF BusState

\* The first free slot takes the write, and there is one while four writes fit.
LEMMA ScheduleTakesTheNextSlot ==
  ASSUME SlotsSuffice,
         NEW s \in BusState, NEW n \in 0 .. 3, Room(s, n),
         NEW a, NEW v, NEW d \in 1 .. 7
  PROVE  ScheduleWrite(s, a, v, d) = Put(s, n + 1, Entry(a, v, d))
<1> DEFINE free == {i \in 1 .. Slots : s.timed_writes[i].dots_remaining = 0}
           slot == CHOOSE i \in free : \A j \in free : i <= j
<1>1. Slots \in Nat /\ Slots >= 4
  BY DEF SlotsSuffice
<1>2. n + 1 \in 1 .. Slots
  BY <1>1
<1>3. \A i \in 1 .. Slots : i \in free <=> i > n
  BY <1>1 DEF Room, Busy
<1>4. n + 1 \in free /\ \A j \in free : n + 1 <= j
  BY <1>1, <1>2, <1>3
<1>5. \A i \in free : (\A j \in free : i <= j) => i = n + 1
  BY <1>1, <1>4
<1>6. slot = n + 1
  <2> HIDE DEF free
  <2> QED  BY <1>4, <1>5
<1>7. ~(free = {} \/ d <= 0)
  BY <1>4
<1> HIDE DEF free, slot
<1>8. ScheduleWrite(s, a, v, d) = IF free = {} \/ d <= 0 THEN [s EXCEPT !.asserted = FALSE]
                                  ELSE [s EXCEPT !.timed_writes[slot] = Entry(a, v, d)]
  BY Zenon DEF ScheduleWrite, free, slot, Entry
<1> QED
  BY <1>2, <1>6, <1>7, <1>8 DEF Put

\* A write that is put into the first free slot leaves the next one the first.
LEMMA RoomAfterPut ==
  ASSUME SlotsSuffice,
         NEW s \in BusState, NEW n \in 0 .. 3, Room(s, n), NEW entry \in Slot,
         entry.dots_remaining # 0
  PROVE  Room(Put(s, n + 1, entry), n + 1)
<1>1. Slots \in Nat /\ Slots >= 4
  BY DEF SlotsSuffice
<1>2. n + 1 \in 1 .. Slots
  BY <1>1
<1> DEFINE t == Put(s, n + 1, entry)
<1>3. \A j \in 1 .. Slots : t.timed_writes[j] = IF j = n + 1 THEN entry ELSE s.timed_writes[j]
  BY <1>2, PutFields
<1> HIDE DEF t
<1>4. \A j \in 1 .. Slots : Busy(t, j) <=> j <= n + 1
  BY <1>1, <1>3 DEF Room, Busy
<1> QED
  BY <1>4 DEF Room, t

\* The state with one more address announced.
Announces(s, a) == [s EXCEPT !.announced = Append(@, a)]

\* An announcement is remembered and changes no slot.
LEMMA AnnouncesFields ==
  ASSUME NEW s \in BusState, NEW a \in Timely
  PROVE  /\ Announces(s, a) \in BusState
         /\ Announces(s, a).timed_writes = s.timed_writes /\ Announces(s, a).io = s.io
         /\ Announces(s, a).scheduling = s.scheduling /\ Announces(s, a).asserted = s.asserted
         /\ Announces(s, a).announced = Append(s.announced, a)
<1> DEFINE an == Append(s.announced, a)
<1>1. s.announced \in Seq(Timely)
  BY DEF BusState
<1>2. an \in Seq(Timely)
  BY <1>1
<1>3. Announces(s, a) = [s EXCEPT !.announced = an]
  BY DEF Announces
<1> HIDE DEF an
<1>4. /\ Announces(s, a) \in BusState
      /\ Announces(s, a).timed_writes = s.timed_writes /\ Announces(s, a).io = s.io
      /\ Announces(s, a).scheduling = s.scheduling /\ Announces(s, a).asserted = s.asserted
      /\ Announces(s, a).announced = an
  BY <1>2, <1>3 DEF BusState
<1> QED
  BY <1>4 DEF an

OldAt(s, a) == IF a = watched THEN s.io ELSE {}

\* What an announcement does, d dots before the end of its M-cycle.
TimedResult(s, n, a, v, d) ==
  CASE Blending(a) ->
         Announces(Put(Put(s, n + 1, Entry(a, Mixed(OldAt(s, a), a, v), d - 2)),
                       n + 2, Entry(a, v, d - 1)), a)
    [] a \in {SCY, SCX} -> Announces(Put(s, n + 1, Entry(a, v, d - Ahead(a))), a)
    [] OTHER -> s

\* A mixture is a value.
LEMMA MixedType ==
  ASSUME SlotsSuffice, NEW s \in BusState, NEW a, NEW v \in Values
  PROVE  Mixed(OldAt(s, a), a, v) \in Values
<1>1. OldAt(s, a) \in Values
  BY DEF OldAt, BusState, SlotsSuffice
<1>2. v \intersect {"bit0"} \in Values
  BY DEF SlotsSuffice
<1> QED
  BY <1>1, <1>2 DEF Mixed, SlotsSuffice

\* Two writes that are scheduled take the next two slots.
LEMMA TwoScheduled ==
  ASSUME SlotsSuffice,
         NEW s \in BusState, NEW n, n \in 0 .. 2, Room(s, n), NEW a, a \in 0 .. 255,
         NEW v \in Values, NEW w, NEW d, NEW e, d \in 1 .. 7, e \in 1 .. 7
  PROVE  ScheduleWrite(ScheduleWrite(s, a, v, d), a, w, e)
           = Put(Put(s, n + 1, Entry(a, v, d)), n + 2, Entry(a, w, e))
<1> DEFINE k == n
           m == n + 1
           p1 == Put(s, k + 1, Entry(a, v, d))
<1>1. k \in 0 .. 3 /\ m \in 0 .. 3 /\ m + 1 = n + 2 /\ m \in 1 .. Slots /\ k + 1 = m
  BY DEF SlotsSuffice
<1>2. Room(s, k)
  OBVIOUS
<1>3. Entry(a, v, d) \in Slot /\ Entry(a, v, d).dots_remaining # 0
  BY DEF Entry, Slot
<1> HIDE DEF k, m
<1>4. ScheduleWrite(s, a, v, d) = p1
  BY <1>1, <1>2, ScheduleTakesTheNextSlot
<1>5. p1 \in BusState
  BY <1>1, <1>3, PutFields
<1>6. Room(p1, k + 1)
  BY <1>1, <1>2, <1>3, RoomAfterPut
<1>7. Room(p1, m)
  BY <1>1, <1>6
<1> HIDE DEF p1
<1>8. ScheduleWrite(p1, a, w, e) = Put(p1, m + 1, Entry(a, w, e))
  BY <1>1, <1>5, <1>7, ScheduleTakesTheNextSlot
<1>9. ScheduleWrite(p1, a, w, e) = Put(p1, n + 2, Entry(a, w, e))
  BY <1>1, <1>8
<1>10. p1 = Put(s, n + 1, Entry(a, v, d))
  BY DEF p1, k
<1> QED
  BY <1>4, <1>9, <1>10

BlendTakesTwo(s, n, a, v, d) ==
  ScheduleWrite(ScheduleWrite(s, a, Mixed(OldAt(s, a), a, v), d - 2), a, v, d - 1)
    = Put(Put(s, n + 1, Entry(a, Mixed(OldAt(s, a), a, v), d - 2)), n + 2, Entry(a, v, d - 1))

\* LCDC and the palettes take two slots.
LEMMA BlendScheduled ==
  ASSUME SlotsSuffice,
         NEW s \in BusState, NEW n, n \in 0 .. 2, Room(s, n), NEW a, a \in 0 .. 255,
         NEW v \in Values, NEW d, d \in {4, 8}
  PROVE  BlendTakesTwo(s, n, a, v, d)
<1> DEFINE early == d - 2
           late == d - 1
           mixed == Mixed(OldAt(s, a), a, v)
<1>1. early \in 1 .. 7 /\ late \in 1 .. 7
  OBVIOUS
<1>2. mixed \in Values
  BY MixedType
<1> HIDE DEF early, late, mixed
<1>3. ScheduleWrite(ScheduleWrite(s, a, mixed, early), a, v, late)
        = Put(Put(s, n + 1, Entry(a, mixed, early)), n + 2, Entry(a, v, late))
  BY <1>1, <1>2, TwoScheduled
<1> QED
  BY <1>3 DEF early, late, mixed, BlendTakesTwo

\* SCY and SCX take one.
LEMMA OneScheduled ==
  ASSUME SlotsSuffice,
         NEW s \in BusState, NEW n, n \in 0 .. 3, Room(s, n), NEW a, NEW v, NEW d, d \in 1 .. 7
  PROVE  ScheduleWrite(s, a, v, d) = Put(s, n + 1, Entry(a, v, d))
<1> DEFINE k == n
<1>1. k \in 0 .. 3 /\ Room(s, k)
  OBVIOUS
<1> HIDE DEF k
<1>2. ScheduleWrite(s, a, v, d) = Put(s, k + 1, Entry(a, v, d))
  BY <1>1, ScheduleTakesTheNextSlot
<1> QED
  BY <1>2 DEF k

MayAnnounce(s) == s.scheduling = TRUE /\ Len(s.announced) <= 1

\* schedule_dmg_io_write, slot by slot, while slots and addresses are left.
LEMMA AnnouncementResult ==
  ASSUME SlotsSuffice,
         NEW s \in BusState, MayAnnounce(s), NEW n, n \in 0 .. 2, Room(s, n),
         NEW a, a \in 0 .. 255, NEW v \in Values, NEW d, d \in {4, 8}
  PROVE  ScheduleDmgIoWrite(s, Announced(a, v, d)) = TimedResult(s, n, a, v, d)
<1>0. ScheduleWrite(ScheduleWrite(s, a, Mixed(OldAt(s, a), a, v), d - 2), a, v, d - 1)
        = Put(Put(s, n + 1, Entry(a, Mixed(OldAt(s, a), a, v), d - 2)), n + 2, Entry(a, v, d - 1))
  <2>1. BlendTakesTwo(s, n, a, v, d)
    BY BlendScheduled
  <2> QED
    BY <2>1 DEF BlendTakesTwo
<1> DEFINE A == Announced(a, v, d)
           blend == Mixed(OldAt(s, a), a, v)
           blendA == IF A.address = LCDC THEN OldValue(s, A.address) \union (A.value \intersect {"bit0"})
                     ELSE OldValue(s, A.address) \union A.value
           timed ==
             CASE A.address \in {LCDC} \union Palettes ->
                    ScheduleWrite(ScheduleWrite(s, A.address, blendA, A.dots - 2),
                                  A.address, A.value, A.dots - 1)
               [] A.address = SCY -> ScheduleWrite(s, SCY, A.value, A.dots - 1)
               [] OTHER -> ScheduleWrite(s, SCX, A.value, A.dots - 2)
<1>1. A.address = a /\ A.value = v /\ A.dots = d
  BY DEF Announced
<1>2. d - 2 \in 1 .. 7 /\ d - 1 \in 1 .. 7 /\ n \in 0 .. 3
  OBVIOUS
<1>3. ~(Len(s.announced) >= AddressSlots)
  BY DEF BusState, SlotsSuffice, MayAnnounce
<1>4. ScheduleDmgIoWrite(s, A) =
        IF ~s.scheduling \/ A.address \notin {LCDC, SCY, SCX} \union Palettes THEN s
        ELSE IF Len(s.announced) >= AddressSlots THEN [timed EXCEPT !.asserted = FALSE]
        ELSE [timed EXCEPT !.announced = Append(@, A.address)]
  BY Zenon DEF ScheduleDmgIoWrite
<1>5. blendA = blend
  BY <1>1 DEF OldAt, OldValue, Mixed
<1>6. timed = CASE a \in {LCDC} \union Palettes ->
                     ScheduleWrite(ScheduleWrite(s, a, blend, d - 2), a, v, d - 1)
                [] a = SCY -> ScheduleWrite(s, SCY, v, d - 1)
                [] OTHER -> ScheduleWrite(s, SCX, v, d - 2)
  <2> HIDE DEF A, blend, blendA
  <2> QED  BY <1>1, <1>5
<1> HIDE DEF A, timed
<1>7. ScheduleDmgIoWrite(s, A) =
        IF a \notin {LCDC, SCY, SCX} \union Palettes THEN s ELSE Announces(timed, a)
  BY <1>1, <1>3, <1>4, Zenon DEF Announces, MayAnnounce
<1>8. CASE a \notin Timely
  <2>1. ~Blending(a) /\ a \notin {SCY, SCX}
    BY <1>8, Zenon DEF Blending, Timely
  <2>2. TimedResult(s, n, a, v, d) = s
    BY <2>1, Zenon DEF TimedResult
  <2> QED
    BY <1>7, <1>8, <2>2, Zenon DEF Timely, A
<1>9. CASE Blending(a)
  <2>1. timed = ScheduleWrite(ScheduleWrite(s, a, blend, d - 2), a, v, d - 1)
    <3>1. a \in {LCDC} \union Palettes
      BY <1>9, Zenon DEF Blending
    <3>2. a # SCY
      BY <3>1 DEF LCDC, Palettes, SCY
    <3> QED
      BY <1>6, <3>1, <3>2, Zenon
  <2>2. timed = Put(Put(s, n + 1, Entry(a, blend, d - 2)), n + 2, Entry(a, v, d - 1))
    BY <1>0, <2>1
  <2>3. TimedResult(s, n, a, v, d)
          = Announces(Put(Put(s, n + 1, Entry(a, blend, d - 2)), n + 2, Entry(a, v, d - 1)), a)
    <3>1. a \notin {SCY, SCX}
      BY <1>9 DEF Blending, LCDC, Palettes, SCY, SCX
    <3> QED
      BY <1>9, <3>1, Zenon DEF TimedResult
  <2>4. a \in {LCDC, SCY, SCX} \union Palettes
    BY <1>9 DEF Blending
  <2> QED
    BY <1>7, <2>2, <2>3, <2>4, Zenon DEF A
<1>10. CASE a = SCY
  <2>1. a \notin {LCDC} \union Palettes /\ a # SCX
    BY <1>10 DEF LCDC, Palettes, SCY, SCX
  <2>2. timed = Put(s, n + 1, Entry(a, v, d - 1))
    <3> DEFINE late == d - 1
    <3> HIDE DEF late
    <3>1. late \in 1 .. 7
      BY <1>2 DEF late
    <3>2. timed = ScheduleWrite(s, a, v, late)
      BY <1>6, <1>10, <2>1, Zenon DEF late
    <3>3. ScheduleWrite(s, a, v, late) = Put(s, n + 1, Entry(a, v, late))
      BY <1>2, <3>1, OneScheduled
    <3> QED
      BY <3>2, <3>3 DEF late
  <2>3. ~Blending(a) /\ Ahead(a) = 1
    BY <2>1 DEF Blending, Ahead
  <2>4. TimedResult(s, n, a, v, d) = Announces(Put(s, n + 1, Entry(a, v, d - 1)), a)
    BY <1>10, <2>3, Zenon DEF TimedResult
  <2> QED
    BY <1>7, <1>10, <2>2, <2>4, Zenon DEF A
<1>11. CASE a = SCX
  <2>1. a \notin {LCDC} \union Palettes /\ a # SCY
    BY <1>11 DEF LCDC, Palettes, SCY, SCX
  <2>2. timed = Put(s, n + 1, Entry(a, v, d - 2))
    <3> DEFINE early == d - 2
    <3> HIDE DEF early
    <3>1. early \in 1 .. 7
      BY <1>2 DEF early
    <3>2. timed = ScheduleWrite(s, a, v, early)
      BY <1>6, <1>11, <2>1, Zenon DEF early
    <3>3. ScheduleWrite(s, a, v, early) = Put(s, n + 1, Entry(a, v, early))
      BY <1>2, <3>1, OneScheduled
    <3> QED
      BY <3>2, <3>3 DEF early
  <2>3. ~Blending(a) /\ Ahead(a) = 2
    BY <1>11, <2>1 DEF Blending, Ahead
  <2>4. TimedResult(s, n, a, v, d) = Announces(Put(s, n + 1, Entry(a, v, d - 2)), a)
    BY <1>11, <2>3, Zenon DEF TimedResult
  <2> QED
    BY <1>7, <1>11, <2>2, <2>4, Zenon DEF A
<1> QED
  BY <1>8, <1>9, <1>10, <1>11, Zenon DEF Timely, Blending

-----------------------------------------------------------------------------
(* An announcement keeps the schedule. *)

\* The slots that are new in t, of a write that has d dots left.
Extends(s, e, a) ==
  /\ e \in BusState /\ e.io = s.io /\ e.asserted = s.asserted /\ e.scheduling = s.scheduling
  /\ e.announced = IF a \in Timely THEN Append(s.announced, a) ELSE s.announced

\* An announcement keeps the ranges and adds an address.
LEMMA ResultFields ==
  ASSUME SlotsSuffice, NEW s \in BusState, NEW n, n \in 0 .. 2, Room(s, n),
         NEW a, a \in 0 .. 255, NEW v \in Values, NEW d, d \in {4, 8}
  PROVE  Extends(s, TimedResult(s, n, a, v, d), a)
<1>1. n + 1 \in 1 .. Slots /\ n + 2 \in 1 .. Slots
  BY DEF SlotsSuffice
<1>2. CASE Blending(a)
  <2> DEFINE e1 == Entry(a, Mixed(OldAt(s, a), a, v), d - 2)
             e2 == Entry(a, v, d - 1)
             p1 == Put(s, n + 1, e1)
             p2 == Put(p1, n + 2, e2)
  <2>1. e1 \in Slot /\ e2 \in Slot
    <3>1. Mixed(OldAt(s, a), a, v) \in Values
      BY MixedType
    <3>2. d - 2 \in 0 .. 7 /\ d - 1 \in 0 .. 7
      OBVIOUS
    <3> QED
      BY <3>1, <3>2 DEF Entry, Slot
  <2>2. a \in Timely /\ a \notin {SCY, SCX}
    BY <1>2 DEF Blending, Timely, LCDC, SCY, SCX, Palettes
  <2>3. TimedResult(s, n, a, v, d) = Announces(p2, a)
    BY <1>2, <2>2, Zenon DEF TimedResult
  <2> HIDE DEF e1, e2
  <2>4. /\ p1 \in BusState /\ p1.io = s.io /\ p1.asserted = s.asserted
        /\ p1.scheduling = s.scheduling /\ p1.announced = s.announced
    BY <1>1, <2>1, PutFields
  <2> HIDE DEF p1
  <2>5. /\ p2 \in BusState /\ p2.io = p1.io /\ p2.asserted = p1.asserted
        /\ p2.scheduling = p1.scheduling /\ p2.announced = p1.announced
    BY <1>1, <2>1, <2>4, PutFields
  <2> HIDE DEF p2
  <2> QED
    BY <2>2, <2>3, <2>4, <2>5, AnnouncesFields DEF Extends
<1>3. CASE a \in {SCY, SCX}
  <2> DEFINE e1 == Entry(a, v, d - Ahead(a))
             p1 == Put(s, n + 1, e1)
  <2>1. e1 \in Slot
    BY DEF Entry, Slot, Ahead
  <2>2. a \in Timely /\ ~Blending(a)
    BY <1>3 DEF Blending, Timely, LCDC, SCY, SCX, Palettes
  <2>3. TimedResult(s, n, a, v, d) = Announces(p1, a)
    BY <1>3, <2>2, Zenon DEF TimedResult
  <2> HIDE DEF e1
  <2>4. /\ p1 \in BusState /\ p1.io = s.io /\ p1.asserted = s.asserted
        /\ p1.scheduling = s.scheduling /\ p1.announced = s.announced
    BY <1>1, <2>1, PutFields
  <2> HIDE DEF p1
  <2> QED
    BY <2>2, <2>3, <2>4, AnnouncesFields DEF Extends
<1>4. CASE ~Blending(a) /\ a \notin {SCY, SCX}
  <2>1. TimedResult(s, n, a, v, d) = s
    BY <1>4, Zenon DEF TimedResult
  <2>2. a \notin Timely
    BY <1>4, Zenon DEF Blending, Timely
  <2> QED
    BY <2>1, <2>2 DEF Extends
<1> QED
  BY <1>2, <1>3, <1>4

\* One slot more in use, d dots into the M-cycle: what it takes to keep the order.
LEMMA PutKeeps ==
  ASSUME SlotsSuffice, NEW s \in BusState, NEW n, n \in 0 .. 3, Room(s, n), NEW entry \in Slot,
         entry.dots_remaining # 0, NEW told, NEW d, NEW x,
         SlotsAreTold(s, told, d, x), SlotsDiffer(s),
         IsLate(entry, d) \/ \E w \in told : /\ w.address \in Timely
                                             /\ IsFinal(entry, w, d) \/ IsBlend(entry, w, d, s.io, x),
         \A i \in 1 .. Slots : Busy(s, i) /\ s.timed_writes[i].address = entry.address
                                 => s.timed_writes[i].dots_remaining # entry.dots_remaining
  PROVE  /\ SlotsAreTold(Put(s, n + 1, entry), told, d, x)
         /\ SlotsDiffer(Put(s, n + 1, entry))
<1> DEFINE t == Put(s, n + 1, entry)
           k == n + 1
<1>1. k \in 1 .. Slots
  BY DEF SlotsSuffice
<1>2. t.io = s.io /\ \A j \in 1 .. Slots : t.timed_writes[j] = IF j = k THEN entry ELSE s.timed_writes[j]
  BY <1>1, PutFields
<1> HIDE DEF t, k
<1>3. \A j \in 1 .. Slots : j # k => Busy(t, j) = Busy(s, j)
  BY <1>2 DEF Busy
<1>4. SlotsAreTold(t, told, d, x)
  BY <1>2, <1>3 DEF SlotsAreTold
<1>5. SlotsDiffer(t)
  <2> SUFFICES ASSUME NEW i \in 1 .. Slots, NEW j \in 1 .. Slots, i # j, Busy(t, i), Busy(t, j),
                      t.timed_writes[i].address = t.timed_writes[j].address
               PROVE  t.timed_writes[i].dots_remaining # t.timed_writes[j].dots_remaining
    BY DEF SlotsDiffer
  <2> QED
    BY <1>2, <1>3 DEF SlotsDiffer
<1> QED
  BY <1>4, <1>5 DEF t, k

\* A slot that is taken leaves the others as they are.
LEMMA PutLeaves ==
  ASSUME SlotsSuffice, NEW s \in BusState, NEW n, n \in 0 .. 3, Room(s, n), NEW entry \in Slot,
         NEW told, NEW d, NEW x, ToldHaveSlots(s, told, d, x)
  PROVE  ToldHaveSlots(Put(s, n + 1, entry), told, d, x)
<1> DEFINE t == Put(s, n + 1, entry)
           k == n + 1
<1>1. k \in 1 .. Slots
  BY DEF SlotsSuffice
<1>2. t.io = s.io /\ \A j \in 1 .. Slots : t.timed_writes[j] = IF j = k THEN entry ELSE s.timed_writes[j]
  BY <1>1, PutFields
<1>3. \A j \in 1 .. Slots : s.timed_writes[j].dots_remaining > 0 => j # k
  BY DEF Room, Busy
<1> HIDE DEF t, k
<1>4. ASSUME NEW w \in told, w.address \in Timely, ((4 * w.turn) - d) - Ahead(w.address) > 0
      PROVE  \E i \in 1 .. Slots : IsFinal(t.timed_writes[i], w, d)
  <2>1. PICK i \in 1 .. Slots : IsFinal(s.timed_writes[i], w, d)
    BY <1>4 DEF ToldHaveSlots
  <2>2. s.timed_writes[i].dots_remaining > 0
    BY <1>4, <2>1 DEF IsFinal
  <2>3. t.timed_writes[i] = s.timed_writes[i]
    BY <1>2, <1>3, <2>2
  <2> QED
    BY <2>1, <2>3
<1>5. ASSUME NEW w \in told, w.address \in Timely, ((4 * w.turn) - d) - 2 > 0, Blending(w.address)
      PROVE  \E i \in 1 .. Slots : IsBlend(t.timed_writes[i], w, d, t.io, x)
  <2>1. PICK i \in 1 .. Slots : IsBlend(s.timed_writes[i], w, d, s.io, x)
    BY <1>5 DEF ToldHaveSlots
  <2>2. s.timed_writes[i].dots_remaining > 0
    BY <1>5, <2>1 DEF IsBlend
  <2>3. t.timed_writes[i] = s.timed_writes[i]
    BY <1>2, <1>3, <2>2
  <2> QED
    BY <1>2, <2>1, <2>3
<1> QED
  BY <1>4, <1>5 DEF ToldHaveSlots, t, k

\* Slots that hold what was told still hold it when more is told.
LEMMA ToldGrows ==
  ASSUME NEW s, NEW told, NEW more, told \subseteq more, NEW d, NEW x, SlotsAreTold(s, told, d, x)
  PROVE  SlotsAreTold(s, more, d, x)
BY DEF SlotsAreTold

\* An announcement puts a write that is new into its slots.
LEMMA ResultKeeps ==
  ASSUME SlotsSuffice, NEW s \in BusState, NEW n, n \in 0 .. 2, Room(s, n),
         NEW told, SlotsKept(s, told, 0, watched),
         NEW a, a \in 0 .. 255, NEW v \in Values, NEW k, k \in {1, 2}, NEW d, d = 4 * k,
         \A w \in told : w.address # a
  PROVE  SlotsKept(TimedResult(s, n, a, v, d), told \union {Turn(a, v, k)}, 0, watched)
<1> DEFINE new == Turn(a, v, k)
           more == told \union {new}
<1>1. d \in {4, 8} /\ (4 * k) - 0 = d
  OBVIOUS
<1>2. SlotsAreTold(s, told, 0, watched) /\ SlotsDiffer(s) /\ ToldHaveSlots(s, told, 0, watched)
  BY DEF SlotsKept
<1>3. new.address = a /\ new.value = v /\ new.turn = k
  BY DEF Turn
<1>4. SlotsAreTold(s, more, 0, watched)
  BY <1>2, ToldGrows
<1>5. \A i \in 1 .. Slots : Busy(s, i) /\ a \in Timely => s.timed_writes[i].address # a
  BY <1>2 DEF SlotsAreTold, IsLate, IsFinal, IsBlend, IF_, Timely, LCDC, SCY, SCX, Palettes
<1>6. n + 1 \in 1 .. Slots /\ n + 2 \in 1 .. Slots /\ n + 1 \in 0 .. 3 /\ n \in 0 .. 3 /\ (n + 1) + 1 = n + 2
  BY DEF SlotsSuffice
<1> HIDE DEF new, more
<1>7. CASE Blending(a)
  <2> DEFINE e1 == Entry(a, Mixed(OldAt(s, a), a, v), d - 2)
             e2 == Entry(a, v, d - 1)
             m == n + 1
             p1 == Put(s, n + 1, e1)
             p2 == Put(p1, m + 1, e2)
  <2>1. e1 \in Slot /\ e2 \in Slot
    <3>1. Mixed(OldAt(s, a), a, v) \in Values
      BY MixedType
    <3>2. d - 2 \in 0 .. 7 /\ d - 1 \in 0 .. 7
      BY <1>1
    <3> QED
      BY <3>1, <3>2 DEF Entry, Slot
  <2>2. a \in Timely /\ a \notin {SCY, SCX} /\ Ahead(a) = 1
    BY <1>7 DEF Blending, Timely, LCDC, SCY, SCX, Palettes, Ahead
  <2>3. TimedResult(s, n, a, v, d) = Announces(p2, a)
    <3>1. TimedResult(s, n, a, v, d) = Announces(Put(p1, n + 2, e2), a)
      BY <1>7, <2>2, Zenon DEF TimedResult
    <3> QED
      BY <1>6, <3>1, Zenon
  <2>4. /\ e1.address = a /\ e1.value = Mixed(OldAt(s, a), a, v) /\ e1.dots_remaining = d - 2
        /\ e2.address = a /\ e2.value = v /\ e2.dots_remaining = d - 1
    BY DEF Entry
  <2>5. IsBlend(e1, new, 0, s.io, watched) /\ IsFinal(e2, new, 0)
    <3>1. a = watched => OldAt(s, a) = s.io
      BY DEF OldAt
    <3> HIDE DEF e1, e2
    <3> QED
      BY <1>1, <1>3, <1>7, <2>2, <2>4, <3>1 DEF IsBlend, IsFinal
  <2>6. e1.dots_remaining # 0 /\ e2.dots_remaining # 0 /\ e1.dots_remaining # e2.dots_remaining
    BY <1>1, <2>4
  <2> HIDE DEF e1, e2
  <2>7. p1 \in BusState /\ p1.io = s.io
    BY <1>6, <2>1, PutFields
  <2>8. \A j \in 1 .. Slots : p1.timed_writes[j] = IF j = n + 1 THEN e1 ELSE s.timed_writes[j]
    BY <1>6, <2>1, PutFields
  <2>9. Room(p1, m)
    BY <1>6, <2>1, <2>6, RoomAfterPut
  <2>10. SlotsAreTold(p1, more, 0, watched) /\ SlotsDiffer(p1)
    <3>1. \A i \in 1 .. Slots : Busy(s, i) => s.timed_writes[i].address # e1.address
      BY <1>5, <2>2, <2>4
    <3>2. new \in more /\ new.address \in Timely
      BY <1>3, <2>2 DEF more
    <3> QED
      BY <1>2, <1>4, <1>6, <2>1, <2>5, <2>6, <3>1, <3>2, PutKeeps
  <2>11. m \in 0 .. 3
    BY <1>6
  <2> HIDE DEF p1, m
  <2>12. SlotsAreTold(p2, more, 0, watched) /\ SlotsDiffer(p2)
    <3>1. \A i \in 1 .. Slots : Busy(p1, i) /\ p1.timed_writes[i].address = e2.address
                                  => p1.timed_writes[i].dots_remaining # e2.dots_remaining
      <4>1. \A i \in 1 .. Slots : i # n + 1 => Busy(p1, i) = Busy(s, i)
        BY <2>8 DEF Busy
      <4> QED
        BY <1>5, <2>2, <2>4, <2>6, <2>8, <4>1
    <3>2. new \in more /\ new.address \in Timely
      BY <1>3, <2>2 DEF more
    <3> QED
      BY <2>1, <2>5, <2>6, <2>7, <2>9, <2>10, <2>11, <3>1, <3>2, PutKeeps
  <2>13. ToldHaveSlots(p2, told, 0, watched)
    <3>1. ToldHaveSlots(p1, told, 0, watched)
      BY <1>2, <1>6, <2>1, PutLeaves DEF p1
    <3> QED
      BY <2>1, <2>7, <2>9, <2>11, <3>1, PutLeaves
  <2>14. /\ p2 \in BusState /\ p2.io = s.io
         /\ p2.timed_writes[n + 1] = e1 /\ p2.timed_writes[n + 2] = e2
    <3>1. m + 1 = n + 2 /\ n + 1 # n + 2
      BY DEF m
    <3> QED
      BY <1>6, <2>1, <2>7, <2>8, <3>1, PutFields
  <2> HIDE DEF p2
  <2>15. ToldHaveSlots(p2, more, 0, watched)
    <3>1. IsFinal(p2.timed_writes[n + 2], new, 0) /\ IsBlend(p2.timed_writes[n + 1], new, 0, p2.io, watched)
      BY <2>5, <2>14
    <3> QED
      BY <1>6, <2>13, <3>1 DEF ToldHaveSlots, more
  <2>16. /\ Announces(p2, a).timed_writes = p2.timed_writes /\ Announces(p2, a).io = p2.io
    BY <2>2, <2>14, AnnouncesFields
  <2> QED
    BY <2>3, <2>12, <2>15, <2>16
       DEF SlotsKept, SlotsAreTold, SlotsDiffer, ToldHaveSlots, Busy, more, new
<1>8. CASE a \in {SCY, SCX}
  <2> DEFINE e1 == Entry(a, v, d - Ahead(a))
             p1 == Put(s, n + 1, e1)
  <2>1. e1 \in Slot
    BY <1>1 DEF Entry, Slot, Ahead
  <2>2. a \in Timely /\ ~Blending(a)
    BY <1>8 DEF Blending, Timely, LCDC, SCY, SCX, Palettes
  <2>3. TimedResult(s, n, a, v, d) = Announces(p1, a)
    BY <1>8, <2>2, Zenon DEF TimedResult
  <2>4. e1.address = a /\ e1.value = v /\ e1.dots_remaining = d - Ahead(a)
    BY DEF Entry
  <2>5. IsFinal(e1, new, 0)
    <3> HIDE DEF e1
    <3> QED
      BY <1>1, <1>3, <2>4 DEF IsFinal
  <2>6. e1.dots_remaining # 0
    BY <1>1, <2>4 DEF Ahead
  <2> HIDE DEF e1
  <2>7. p1 \in BusState /\ p1.io = s.io /\ p1.timed_writes[n + 1] = e1
    BY <1>6, <2>1, PutFields
  <2>8. SlotsAreTold(p1, more, 0, watched) /\ SlotsDiffer(p1)
    <3>1. \A i \in 1 .. Slots : Busy(s, i) => s.timed_writes[i].address # e1.address
      BY <1>5, <2>2, <2>4
    <3>2. new \in more /\ new.address \in Timely
      BY <1>3, <2>2 DEF more
    <3> QED
      BY <1>2, <1>4, <1>6, <2>1, <2>5, <2>6, <3>1, <3>2, PutKeeps
  <2>9. ToldHaveSlots(p1, told, 0, watched)
    BY <1>2, <1>6, <2>1, PutLeaves
  <2> HIDE DEF p1
  <2>10. ToldHaveSlots(p1, more, 0, watched)
    <3>1. IsFinal(p1.timed_writes[n + 1], new, 0) /\ ~Blending(new.address)
      BY <1>3, <2>2, <2>5, <2>7
    <3> QED
      BY <1>6, <2>9, <3>1 DEF ToldHaveSlots, more
  <2>11. /\ Announces(p1, a).timed_writes = p1.timed_writes /\ Announces(p1, a).io = p1.io
    BY <2>2, <2>7, AnnouncesFields
  <2> QED
    BY <2>3, <2>8, <2>10, <2>11
       DEF SlotsKept, SlotsAreTold, SlotsDiffer, ToldHaveSlots, Busy, more, new
<1>9. CASE ~Blending(a) /\ a \notin {SCY, SCX}
  <2>1. TimedResult(s, n, a, v, d) = s
    BY <1>9, Zenon DEF TimedResult
  <2>2. new.address \notin Timely
    BY <1>3, <1>9, Zenon DEF Blending, Timely
  <2>3. ToldHaveSlots(s, more, 0, watched)
    BY <1>2, <2>2 DEF ToldHaveSlots, more
  <2> QED
    BY <1>2, <1>4, <2>1, <2>3 DEF SlotsKept, more, new
<1> QED
  BY <1>7, <1>8, <1>9, Zenon

\* The slots that an announcement takes.
Uses(a) == IF Blending(a) THEN 2 ELSE IF a \in {SCY, SCX} THEN 1 ELSE 0

\* An announcement takes as many slots as it uses.
LEMMA ResultRoom ==
  ASSUME SlotsSuffice, NEW s \in BusState, NEW n, n \in 0 .. 2, Room(s, n),
         NEW a, a \in 0 .. 255, NEW v \in Values, NEW d, d \in {4, 8}
  PROVE  Room(TimedResult(s, n, a, v, d), n + Uses(a))
<1>1. n + 1 \in 1 .. Slots /\ n + 2 \in 1 .. Slots /\ n + 1 \in 0 .. 3 /\ n \in 0 .. 3 /\ (n + 1) + 1 = n + 2
  BY DEF SlotsSuffice
<1>2. CASE Blending(a)
  <2> DEFINE e1 == Entry(a, Mixed(OldAt(s, a), a, v), d - 2)
             e2 == Entry(a, v, d - 1)
             m == n + 1
             p1 == Put(s, n + 1, e1)
             p2 == Put(p1, m + 1, e2)
  <2>1. e1 \in Slot /\ e2 \in Slot
    <3>1. Mixed(OldAt(s, a), a, v) \in Values
      BY MixedType
    <3>2. d - 2 \in 0 .. 7 /\ d - 1 \in 0 .. 7
      OBVIOUS
    <3> QED
      BY <3>1, <3>2 DEF Entry, Slot
  <2>2. a \in Timely /\ a \notin {SCY, SCX}
    BY <1>2 DEF Blending, Timely, LCDC, SCY, SCX, Palettes
  <2>3. TimedResult(s, n, a, v, d) = Announces(p2, a)
    <3>1. TimedResult(s, n, a, v, d) = Announces(Put(p1, n + 2, e2), a)
      BY <1>2, <2>2, Zenon DEF TimedResult
    <3> QED
      BY <1>1, <3>1, Zenon
  <2>4. e1.dots_remaining # 0 /\ e2.dots_remaining # 0
    BY DEF Entry
  <2> HIDE DEF e1, e2
  <2>5. p1 \in BusState /\ Room(p1, n + 1)
    BY <1>1, <2>1, <2>4, PutFields, RoomAfterPut
  <2>6. m \in 0 .. 3 /\ m + 1 = n + 2 /\ Room(p1, m)
    BY <1>1, <2>5
  <2> HIDE DEF p1, m
  <2>7. p2 \in BusState /\ Room(p2, m + 1)
    BY <1>1, <2>1, <2>4, <2>5, <2>6, PutFields, RoomAfterPut
  <2>8. Uses(a) = 2
    BY <1>2 DEF Uses
  <2> HIDE DEF p2
  <2>9. Announces(p2, a).timed_writes = p2.timed_writes
    BY <2>2, <2>7, AnnouncesFields
  <2> QED
    BY <2>3, <2>6, <2>7, <2>8, <2>9 DEF Room, Busy
<1>3. CASE a \in {SCY, SCX}
  <2> DEFINE e1 == Entry(a, v, d - Ahead(a))
             p1 == Put(s, n + 1, e1)
  <2>1. e1 \in Slot /\ e1.dots_remaining # 0
    BY DEF Entry, Slot, Ahead
  <2>2. a \in Timely /\ ~Blending(a)
    BY <1>3 DEF Blending, Timely, LCDC, SCY, SCX, Palettes
  <2>3. TimedResult(s, n, a, v, d) = Announces(p1, a)
    BY <1>3, <2>2, Zenon DEF TimedResult
  <2> HIDE DEF e1
  <2>4. p1 \in BusState /\ Room(p1, n + 1)
    BY <1>1, <2>1, PutFields, RoomAfterPut
  <2>5. Uses(a) = 1
    BY <1>3, <2>2 DEF Uses
  <2> HIDE DEF p1
  <2>6. Announces(p1, a).timed_writes = p1.timed_writes
    BY <2>2, <2>4, AnnouncesFields
  <2> QED
    BY <2>3, <2>4, <2>5, <2>6 DEF Room, Busy
<1>4. CASE ~Blending(a) /\ a \notin {SCY, SCX}
  <2>1. TimedResult(s, n, a, v, d) = s
    BY <1>4, Zenon DEF TimedResult
  <2>2. Uses(a) = 0
    BY <1>4 DEF Uses
  <2> QED
    BY <2>1, <2>2
<1> QED
  BY <1>2, <1>3, <1>4, Zenon

\* What a sequence is after an append.
LEMMA AppendFacts ==
  ASSUME NEW r \in Seq(Timely), NEW a \in Timely
  PROVE  /\ Len(r) \in Nat /\ Len(Append(r, a)) = Len(r) + 1
         /\ Append(r, a)[Len(r) + 1] = a
         /\ \A j \in 1 .. Len(r) : Append(r, a)[j] = r[j]
OBVIOUS

\* What is announced grows with what is told.
LEMMA AnnouncedGrow ==
  ASSUME NEW s \in BusState, MayAnnounce(s), NEW told, AnnouncedAreTold(s, told),
         NEW a, NEW v, NEW k, \A w \in told : w.address # a,
         NEW t, t.announced = IF a \in Timely THEN Append(s.announced, a) ELSE s.announced
  PROVE  AnnouncedAreTold(t, told \union {Turn(a, v, k)})
<1> DEFINE new == Turn(a, v, k)
           more == told \union {new}
<1>1. new.address = a /\ new \in more /\ told \subseteq more /\ \A w \in more : w \in told \/ w = new
  BY DEF Turn
<1>2. s.announced \in Seq(Timely) /\ Len(s.announced) <= 1
  BY DEF BusState, MayAnnounce
<1> HIDE DEF new, more
<1>3. /\ \A j \in 1 .. Len(s.announced) : \E w \in told : s.announced[j] = w.address
      /\ \A w \in told : w.address \in Timely =>
           \E j \in 1 .. Len(s.announced) : s.announced[j] = w.address
  BY DEF AnnouncedAreTold
<1>4. CASE a \in Timely
  <2>1. t.announced = Append(s.announced, a)
    BY <1>4
  <2>2. /\ Len(t.announced) = Len(s.announced) + 1 /\ t.announced[Len(s.announced) + 1] = a
        /\ \A j \in 1 .. Len(s.announced) : t.announced[j] = s.announced[j]
    <3>1. s.announced \in Seq(Timely) /\ t.announced = Append(s.announced, a)
      BY <1>2, <2>1
    <3> QED
      BY <1>4, <3>1, AppendFacts
  <2>3. Len(s.announced) \in 0 .. 1
    <3> DEFINE m == Len(s.announced)
    <3>1. m \in Nat
      BY <1>2, <1>4, AppendFacts
    <3>2. m <= 1
      BY <1>2
    <3> HIDE DEF m
    <3>3. m \in 0 .. 1
      BY <3>1, <3>2
    <3> QED
      BY <3>3 DEF m
  <2> DEFINE l == Len(s.announced)
             q == t.announced
             p == s.announced
  <2>4. Len(q) = l + 1 /\ q[l + 1] = a /\ l \in 0 .. 1 /\ \A j \in 1 .. l : q[j] = p[j]
    BY <2>2, <2>3
  <2>5. /\ \A j \in 1 .. l : \E w \in told : p[j] = w.address
        /\ \A w \in told : w.address \in Timely => \E j \in 1 .. l : p[j] = w.address
    BY <1>3
  <2> HIDE DEF l, p, q
  <2>6. Len(q) = 2 => q[1] # q[2]
    <3> SUFFICES ASSUME Len(q) = 2  PROVE q[1] # q[2]
      OBVIOUS
    <3>1. l = 1 /\ q[2] = a /\ q[1] = p[1]
      BY <2>4
    <3> QED
      BY <2>5, <3>1
  <2>7. \A j \in 1 .. Len(q) : \E w \in more : q[j] = w.address
    <3> SUFFICES ASSUME NEW j \in 1 .. Len(q)  PROVE \E w \in more : q[j] = w.address
      OBVIOUS
    <3>1. CASE j = l + 1
      BY <1>1, <2>4, <3>1
    <3>2. CASE j \in 1 .. l
      BY <1>1, <2>4, <2>5, <3>2
    <3> QED
      BY <2>4, <3>1, <3>2
  <2>8. \A w \in more : w.address \in Timely => \E j \in 1 .. Len(q) : q[j] = w.address
    <3> SUFFICES ASSUME NEW w \in more, w.address \in Timely
                 PROVE  \E j \in 1 .. Len(q) : q[j] = w.address
      OBVIOUS
    <3>1. CASE w = new
      <4>1. l + 1 \in 1 .. Len(q)
        BY <2>4
      <4> QED
        BY <1>1, <2>4, <3>1, <4>1
    <3>2. CASE w \in told
      <4>1. PICK j \in 1 .. l : p[j] = w.address
        BY <2>5, <3>2
      <4>2. j \in 1 .. Len(q)
        BY <2>4
      <4> QED
        BY <2>4, <4>1, <4>2
    <3> QED
      BY <1>1, <3>1, <3>2
  <2>9. Len(q) <= 2
    BY <2>4
  <2> QED
    BY <2>6, <2>7, <2>8, <2>9, Zenon DEF AnnouncedAreTold, q, more, new
<1>5. CASE a \notin Timely
  <2>1. t.announced = s.announced
    BY <1>5
  <2>2. \A j \in 1 .. Len(s.announced) : \E w \in more : s.announced[j] = w.address
    BY <1>1, <1>3
  <2>3. \A w \in more : w.address \in Timely =>
           \E j \in 1 .. Len(s.announced) : s.announced[j] = w.address
    BY <1>1, <1>3, <1>5
  <2>4. Len(s.announced) <= 2 /\ (Len(s.announced) = 2 => s.announced[1] # s.announced[2])
    BY DEF AnnouncedAreTold
  <2> QED
    BY <2>1, <2>2, <2>3, <2>4, ZenonT(60) DEF AnnouncedAreTold, more, new
<1> QED
  BY <1>4, <1>5

-----------------------------------------------------------------------------
(* One dot. *)

Ticked(slot) ==
  IF slot.dots_remaining <= 1 THEN EmptySlot
  ELSE [slot EXCEPT !.dots_remaining = @ - 1]

Lands(s, i) == s.timed_writes[i].dots_remaining = 1 /\ s.timed_writes[i].address = watched

\* A slot after a dot.
LEMMA TickedFields ==
  ASSUME SlotsSuffice, NEW slot \in Slot
  PROVE  /\ Ticked(slot) \in Slot
         /\ slot.dots_remaining <= 1 => Ticked(slot).dots_remaining = 0 /\ Ticked(slot).address = 0
         /\ slot.dots_remaining > 1 =>
              /\ Ticked(slot).dots_remaining = slot.dots_remaining - 1
              /\ Ticked(slot).address = slot.address /\ Ticked(slot).value = slot.value
<1>1. /\ slot.address \in 0 .. 255 /\ slot.value \in Values /\ slot.dots_remaining \in 0 .. 7
  BY DEF Slot
<1>2. CASE slot.dots_remaining <= 1
  <2>1. Ticked(slot) = EmptySlot
    BY <1>2 DEF Ticked
  <2>2. EmptySlot \in Slot
    BY DEF EmptySlot, Slot, SlotsSuffice
  <2>3. EmptySlot.dots_remaining = 0 /\ EmptySlot.address = 0
    BY DEF EmptySlot
  <2>4. ~(slot.dots_remaining > 1)
    BY <1>1, <1>2
  <2> QED
    BY <2>1, <2>2, <2>3, <2>4, Zenon
<1>3. CASE slot.dots_remaining > 1
  <2>1. Ticked(slot) = [slot EXCEPT !.dots_remaining = slot.dots_remaining - 1]
    BY <1>1, <1>3 DEF Ticked
  <2>2. slot.dots_remaining - 1 \in 0 .. 7
    BY <1>1, <1>3
  <2> QED
    BY <1>3, <2>1, <2>2 DEF Slot
<1> QED
  BY <1>1, <1>2, <1>3

\* The slots tick on their own, and what lands is the only write that does.
LEMMA TickFields ==
  ASSUME SlotsSuffice, NEW s \in BusState, SlotsDiffer(s)
  PROVE  /\ TickScheduledWrites(s) \in BusState
         /\ TickScheduledWrites(s).announced = s.announced
         /\ TickScheduledWrites(s).scheduling = s.scheduling
         /\ TickScheduledWrites(s).asserted = s.asserted
         /\ \A i \in 1 .. Slots :
              TickScheduledWrites(s).timed_writes[i] = Ticked(s.timed_writes[i])
         /\ \A i \in 1 .. Slots : Lands(s, i) => TickScheduledWrites(s).io = s.timed_writes[i].value
         /\ (\A i \in 1 .. Slots : ~Lands(s, i)) => TickScheduledWrites(s).io = s.io
<1> DEFINE landing == {i \in 1 .. Slots : /\ s.timed_writes[i].dots_remaining = 1
                                          /\ s.timed_writes[i].address = watched}
           last == CHOOSE i \in landing : \A j \in landing : j <= i
           tw == [i \in 1 .. Slots |-> Ticked(s.timed_writes[i])]
           new == IF landing = {} THEN s.io ELSE s.timed_writes[last].value
<1>1. s.timed_writes \in [1 .. Slots -> Slot] /\ s.io \in Values /\ Slots \in Nat
  BY DEF BusState, SlotsSuffice
<1>2. TickScheduledWrites(s) = [s EXCEPT !.timed_writes = tw, !.io = new]
  BY Zenon DEF TickScheduledWrites, Ticked
<1>3. tw \in [1 .. Slots -> Slot]
  BY <1>1, TickedFields
<1>4. \A i \in 1 .. Slots : Lands(s, i) <=> i \in landing
  BY DEF Lands
<1>5. ASSUME NEW i \in 1 .. Slots, Lands(s, i)
      PROVE  last = i /\ landing # {}
  <2>1. i \in landing
    BY <1>4, <1>5
  <2>2. ASSUME NEW j \in landing  PROVE j = i
    <3>1. j \in 1 .. Slots /\ Lands(s, j)
      BY <1>4, <2>2
    <3> QED
      BY <1>5, <3>1 DEF SlotsDiffer, Lands, Busy
  <2>3. \A j \in landing : j <= i
    BY <2>2
  <2> HIDE DEF landing
  <2>4. last \in landing
    BY <2>1, <2>3
  <2> QED
    BY <2>1, <2>2, <2>4
<1>6. new \in Values
  <2>1. CASE landing = {}
    BY <1>1, <2>1
  <2>2. CASE landing # {}
    <3>1. PICK i \in 1 .. Slots : Lands(s, i)
      BY <1>4, <2>2
    <3>2. new = s.timed_writes[i].value
      BY <1>5, <2>2, <3>1
    <3>3. s.timed_writes[i].value \in Values
      BY <1>1 DEF Slot
    <3> QED
      BY <3>2, <3>3
  <2> QED
    BY <2>1, <2>2
<1>7. \A i \in 1 .. Slots : tw[i] = Ticked(s.timed_writes[i])
  OBVIOUS
<1>8. \A i \in 1 .. Slots : Lands(s, i) => new = s.timed_writes[i].value
  BY <1>5
<1>9. (\A i \in 1 .. Slots : ~Lands(s, i)) => new = s.io
  BY <1>4
<1> HIDE DEF tw, new, landing, last
<1>10. /\ TickScheduledWrites(s) \in BusState
       /\ TickScheduledWrites(s).announced = s.announced
       /\ TickScheduledWrites(s).scheduling = s.scheduling
       /\ TickScheduledWrites(s).asserted = s.asserted
       /\ TickScheduledWrites(s).timed_writes = tw
       /\ TickScheduledWrites(s).io = new
  BY <1>2, <1>3, <1>6 DEF BusState
<1> QED
  BY <1>7, <1>8, <1>9, <1>10

\* A mixture that is to come is of what the register holds until then.
LEMMA NothingLandsBefore ==
  ASSUME NEW s \in BusState, NEW told, ToldOK(told), NEW d, d \in 0 .. 3,
         SlotsAreTold(s, told, d, watched), NEW w, w \in told,
         w.address = watched, Blending(w.address),
         ((4 * w.turn) - d) - 2 > 1
  PROVE  \A j \in 1 .. Slots : ~Lands(s, j)
<1> SUFFICES ASSUME NEW j \in 1 .. Slots, Lands(s, j)  PROVE FALSE
  OBVIOUS
<1>1. w.address # IF_ /\ Ahead(w.address) = 1 /\ w.address \in Timely
  BY DEF Blending, IF_, LCDC, Palettes, Ahead, SCX, Timely
<1>2. ~IsLate(s.timed_writes[j], d) /\ Busy(s, j)
  BY <1>1 DEF Lands, IsLate, Busy
<1>3. PICK y \in told : IsFinal(s.timed_writes[j], y, d) \/ IsBlend(s.timed_writes[j], y, d, s.io, watched)
  BY <1>2 DEF SlotsAreTold
<1>4. y = w
  BY <1>3 DEF ToldOK, Lands, IsFinal, IsBlend
<1>5. w.turn \in {1, 2}
  BY DEF ToldOK
<1> QED
  BY <1>1, <1>3, <1>4, <1>5 DEF Lands, IsFinal, IsBlend

\* A dot keeps the slots those of the told writes.
LEMMA TickKeeps ==
  ASSUME SlotsSuffice, NEW s \in BusState, NEW told, ToldOK(told), NEW d, d \in 0 .. 3,
         SlotsKept(s, told, d, watched)
  PROVE  SlotsKept(TickScheduledWrites(s), told, d + 1, watched)
<1> DEFINE t == TickScheduledWrites(s)
           e == d + 1
<1>1. SlotsAreTold(s, told, d, watched) /\ SlotsDiffer(s) /\ ToldHaveSlots(s, told, d, watched)
  BY DEF SlotsKept
<1>2. /\ \A i \in 1 .. Slots : t.timed_writes[i] = Ticked(s.timed_writes[i])
      /\ (\A i \in 1 .. Slots : ~Lands(s, i)) => t.io = s.io
  BY <1>1, TickFields
<1>3. \A i \in 1 .. Slots : s.timed_writes[i] \in Slot /\ s.timed_writes[i].dots_remaining \in 0 .. 7
  BY DEF BusState, Slot
<1>4. \A w \in told : w.turn \in {1, 2} /\ Ahead(w.address) \in {1, 2}
  BY DEF ToldOK, Ahead
<1> HIDE DEF t
<1>5. \A i \in 1 .. Slots :
        /\ Busy(t, i) <=> s.timed_writes[i].dots_remaining > 1
        /\ s.timed_writes[i].dots_remaining > 1 =>
             /\ t.timed_writes[i].dots_remaining = s.timed_writes[i].dots_remaining - 1
             /\ t.timed_writes[i].address = s.timed_writes[i].address
             /\ t.timed_writes[i].value = s.timed_writes[i].value
  BY <1>2, <1>3, TickedFields DEF Busy
<1>6. e \in 1 .. 4 /\ e = d + 1
  OBVIOUS
<1> HIDE DEF e
<1>7. ASSUME NEW w \in told, NEW i \in 1 .. Slots, s.timed_writes[i].dots_remaining > 1,
             IsFinal(s.timed_writes[i], w, d)
      PROVE  IsFinal(t.timed_writes[i], w, e)
  BY <1>3, <1>4, <1>5, <1>6, <1>7 DEF IsFinal
<1>8. ASSUME NEW w \in told, NEW i \in 1 .. Slots, s.timed_writes[i].dots_remaining > 1,
             IsBlend(s.timed_writes[i], w, d, s.io, watched)
      PROVE  IsBlend(t.timed_writes[i], w, e, t.io, watched)
  <2>1. t.timed_writes[i].dots_remaining = ((4 * w.turn) - e) - 2
    BY <1>3, <1>4, <1>5, <1>6, <1>8 DEF IsBlend
  <2>2. t.timed_writes[i].address = watched => t.io = s.io
    <3> SUFFICES ASSUME t.timed_writes[i].address = watched  PROVE t.io = s.io
      OBVIOUS
    <3>1. w.address = watched /\ Blending(w.address) /\ ((4 * w.turn) - d) - 2 > 1
      BY <1>5, <1>8 DEF IsBlend
    <3>2. \A j \in 1 .. Slots : ~Lands(s, j)
      BY <1>1, <3>1, NothingLandsBefore
    <3> QED
      BY <1>2, <3>2
  <2> QED
    BY <1>5, <1>8, <2>1, <2>2 DEF IsBlend
<1>9. SlotsAreTold(t, told, e, watched)
  <2> SUFFICES ASSUME NEW i \in 1 .. Slots, Busy(t, i)
               PROVE  \E w \in told : /\ t.timed_writes[i].address \in Timely
                                      /\ w.address \in Timely
                                      /\ IsFinal(t.timed_writes[i], w, e)
                                           \/ IsBlend(t.timed_writes[i], w, e, t.io, watched)
    BY DEF SlotsAreTold
  <2>1. s.timed_writes[i].dots_remaining > 1
    BY <1>5
  <2>2. Busy(s, i) /\ ~IsLate(s.timed_writes[i], d)
    BY <2>1 DEF Busy, IsLate
  <2>3. PICK w \in told : /\ w.address \in Timely
                          /\ IsFinal(s.timed_writes[i], w, d) \/ IsBlend(s.timed_writes[i], w, d, s.io, watched)
    BY <1>1, <2>2 DEF SlotsAreTold
  <2>4. IsFinal(t.timed_writes[i], w, e) \/ IsBlend(t.timed_writes[i], w, e, t.io, watched)
    BY <1>7, <1>8, <2>1, <2>3
  <2>5. t.timed_writes[i].address = w.address
    BY <2>4 DEF IsFinal, IsBlend
  <2> QED
    BY <2>3, <2>4, <2>5
<1>10. SlotsDiffer(t)
  <2> SUFFICES ASSUME NEW i \in 1 .. Slots, NEW j \in 1 .. Slots, i # j, Busy(t, i), Busy(t, j),
                      t.timed_writes[i].address = t.timed_writes[j].address
               PROVE  t.timed_writes[i].dots_remaining # t.timed_writes[j].dots_remaining
    BY DEF SlotsDiffer
  <2>1. s.timed_writes[i].dots_remaining > 1 /\ s.timed_writes[j].dots_remaining > 1
    BY <1>5
  <2>2. Busy(s, i) /\ Busy(s, j) /\ s.timed_writes[i].address = s.timed_writes[j].address
    BY <1>5, <2>1 DEF Busy
  <2>3. s.timed_writes[i].dots_remaining # s.timed_writes[j].dots_remaining
    BY <1>1, <2>2 DEF SlotsDiffer
  <2> QED
    BY <1>3, <1>5, <2>1, <2>3
<1>11. ToldHaveSlots(t, told, e, watched)
  <2>1. ASSUME NEW w \in told, w.address \in Timely, ((4 * w.turn) - e) - Ahead(w.address) > 0
        PROVE  \E i \in 1 .. Slots : IsFinal(t.timed_writes[i], w, e)
    <3>1. ((4 * w.turn) - d) - Ahead(w.address) > 1
      BY <1>4, <1>6, <2>1
    <3>2. ((4 * w.turn) - d) - Ahead(w.address) > 0
      BY <1>4, <3>1
    <3>3. PICK i \in 1 .. Slots : IsFinal(s.timed_writes[i], w, d)
      BY <1>1, <2>1, <3>2 DEF ToldHaveSlots
    <3>4. s.timed_writes[i].dots_remaining > 1
      BY <3>1, <3>3 DEF IsFinal
    <3> QED
      BY <1>7, <3>3, <3>4
  <2>2. ASSUME NEW w \in told, w.address \in Timely, ((4 * w.turn) - e) - 2 > 0, Blending(w.address)
        PROVE  \E i \in 1 .. Slots : IsBlend(t.timed_writes[i], w, e, t.io, watched)
    <3>1. ((4 * w.turn) - d) - 2 > 1
      BY <1>4, <1>6, <2>2
    <3>2. ((4 * w.turn) - d) - 2 > 0
      BY <1>4, <3>1
    <3>3. PICK i \in 1 .. Slots : IsBlend(s.timed_writes[i], w, d, s.io, watched)
      BY <1>1, <2>2, <3>2 DEF ToldHaveSlots
    <3>4. s.timed_writes[i].dots_remaining > 1
      BY <3>1, <3>3 DEF IsBlend
    <3> QED
      BY <1>8, <3>3, <3>4
  <2> QED
    BY <2>1, <2>2 DEF ToldHaveSlots
<1> QED
  BY <1>9, <1>10, <1>11 DEF SlotsKept, t, e

-----------------------------------------------------------------------------
(* The end of an M-cycle. *)

\* What the next M-cycle inherits.
Later(told) == {Turn(w.address, w.value, 1) : w \in {y \in told : y.turn = 2}}

\* No write of IF is on its way.
NoneLate(s) == \A i \in 1 .. Slots : Busy(s, i) => s.timed_writes[i].address # IF_

\* At the end of an M-cycle the slots are those of the next M-cycle's writes.
LEMMA TurnKeeps ==
  ASSUME SlotsSuffice, NEW s \in BusState, NEW told, ToldOK(told), SlotsKept(s, told, 4, watched)
  PROVE  SlotsKept(s, Later(told), 0, watched) /\ NoneLate(s)
<1>1. SlotsAreTold(s, told, 4, watched) /\ SlotsDiffer(s) /\ ToldHaveSlots(s, told, 4, watched)
  BY DEF SlotsKept
<1>2. \A w \in told : w.turn \in {1, 2} /\ Ahead(w.address) \in {1, 2}
  BY DEF ToldOK, Ahead
<1>3. \A i \in 1 .. Slots : s.timed_writes[i].dots_remaining \in 0 .. 7
  BY DEF BusState, Slot
<1>4. ASSUME NEW i \in 1 .. Slots, Busy(s, i)
      PROVE  \E w \in told : /\ w.turn = 2 /\ w.address \in Timely
                             /\ IsFinal(s.timed_writes[i], w, 4)
                                  \/ IsBlend(s.timed_writes[i], w, 4, s.io, watched)
  <2>1. ~IsLate(s.timed_writes[i], 4)
    BY DEF IsLate
  <2>2. PICK w \in told : /\ w.address \in Timely
                          /\ IsFinal(s.timed_writes[i], w, 4)
                               \/ IsBlend(s.timed_writes[i], w, 4, s.io, watched)
    BY <1>1, <1>4, <2>1 DEF SlotsAreTold
  <2>3. s.timed_writes[i].dots_remaining > 0
    BY <1>3, <1>4 DEF Busy
  <2>4. w.turn = 2
    BY <1>2, <2>2, <2>3 DEF IsFinal, IsBlend
  <2> QED
    BY <2>2, <2>4
<1> DEFINE next(w) == Turn(w.address, w.value, 1)
<1>5. ASSUME NEW w \in told, w.turn = 2, NEW slot
      PROVE  /\ IsFinal(slot, w, 4) <=> IsFinal(slot, next(w), 0)
             /\ IsBlend(slot, w, 4, s.io, watched) <=> IsBlend(slot, next(w), 0, s.io, watched)
             /\ next(w).address = w.address
  BY <1>2, <1>5 DEF IsFinal, IsBlend, Turn
<1>6. \A w \in told : w.turn = 2 => next(w) \in Later(told)
  BY DEF Later
<1>7. \A y \in Later(told) : \E w \in told : w.turn = 2 /\ y = next(w)
  BY DEF Later
<1> HIDE DEF next
<1>8. SlotsAreTold(s, Later(told), 0, watched)
  <2> SUFFICES ASSUME NEW i \in 1 .. Slots, Busy(s, i)
               PROVE  \E y \in Later(told) : /\ y.address \in Timely
                                             /\ IsFinal(s.timed_writes[i], y, 0)
                                                  \/ IsBlend(s.timed_writes[i], y, 0, s.io, watched)
    BY DEF SlotsAreTold
  <2>1. PICK w \in told : /\ w.turn = 2 /\ w.address \in Timely
                          /\ IsFinal(s.timed_writes[i], w, 4)
                               \/ IsBlend(s.timed_writes[i], w, 4, s.io, watched)
    BY <1>4
  <2>2. /\ next(w).address \in Timely
        /\ IsFinal(s.timed_writes[i], next(w), 0)
             \/ IsBlend(s.timed_writes[i], next(w), 0, s.io, watched)
    BY <1>5, <2>1
  <2> QED
    BY <1>6, <2>1, <2>2
<1>9. ToldHaveSlots(s, Later(told), 0, watched)
  <2> SUFFICES ASSUME NEW y \in Later(told), y.address \in Timely
               PROVE  /\ ((4 * y.turn) - 0) - Ahead(y.address) > 0 =>
                           \E i \in 1 .. Slots : IsFinal(s.timed_writes[i], y, 0)
                      /\ ((4 * y.turn) - 0) - 2 > 0 /\ Blending(y.address) =>
                           \E i \in 1 .. Slots : IsBlend(s.timed_writes[i], y, 0, s.io, watched)
    BY DEF ToldHaveSlots
  <2>1. PICK w \in told : w.turn = 2 /\ y = next(w)
    BY <1>7
  <2>2. w.address = y.address
    BY <1>5, <2>1
  <2>3. ((4 * w.turn) - 4) - Ahead(w.address) > 0 /\ ((4 * w.turn) - 4) - 2 > 0
    BY <1>2, <2>1
  <2>4. \E i \in 1 .. Slots : IsFinal(s.timed_writes[i], w, 4)
    BY <1>1, <2>2, <2>3 DEF ToldHaveSlots
  <2>5. Blending(w.address) => \E i \in 1 .. Slots : IsBlend(s.timed_writes[i], w, 4, s.io, watched)
    BY <1>1, <2>2, <2>3 DEF ToldHaveSlots
  <2> QED
    BY <1>5, <2>1, <2>2, <2>4, <2>5
<1>10. NoneLate(s)
  BY <1>4 DEF NoneLate, IsFinal, IsBlend, Timely, IF_, LCDC, SCY, SCX, Palettes
<1> QED
  BY <1>1, <1>8, <1>9, <1>10 DEF SlotsKept

\* Where nothing is told that has a timing of its own, nothing is in flight.
LEMMA EmptyRoom ==
  ASSUME SlotsSuffice, NEW s \in BusState, NEW told, SlotsKept(s, told, 0, watched), NoneLate(s),
         \A w \in told : w.address \notin Timely
  PROVE  Room(s, 0)
<1>1. \A i \in 1 .. Slots : ~Busy(s, i)
  BY DEF SlotsKept, SlotsAreTold, NoneLate, IsLate
<1>2. Slots \in Nat
  BY DEF SlotsSuffice
<1>3. \A i \in 1 .. Slots : ~(i <= 0)
  BY <1>2
<1> QED
  BY <1>1, <1>3 DEF Room

\* An announcement never brings a write of IF.
LEMMA ResultNoneLate ==
  ASSUME SlotsSuffice, NEW s \in BusState, NEW n, n \in 0 .. 2, Room(s, n), NoneLate(s),
         NEW a, a \in 0 .. 255, NEW v \in Values, NEW d, d \in {4, 8}
  PROVE  NoneLate(TimedResult(s, n, a, v, d))
<1>1. n + 1 \in 1 .. Slots /\ n + 2 \in 1 .. Slots
  BY DEF SlotsSuffice
<1>2. CASE Blending(a)
  <2> DEFINE e1 == Entry(a, Mixed(OldAt(s, a), a, v), d - 2)
             e2 == Entry(a, v, d - 1)
             p1 == Put(s, n + 1, e1)
             p2 == Put(p1, n + 2, e2)
  <2>1. e1 \in Slot /\ e2 \in Slot
    <3>1. Mixed(OldAt(s, a), a, v) \in Values
      BY MixedType
    <3>2. d - 2 \in 0 .. 7 /\ d - 1 \in 0 .. 7
      OBVIOUS
    <3> QED
      BY <3>1, <3>2 DEF Entry, Slot
  <2>2. a \in Timely /\ a \notin {SCY, SCX} /\ a # IF_
    BY <1>2 DEF Blending, Timely, LCDC, SCY, SCX, Palettes, IF_
  <2>3. TimedResult(s, n, a, v, d) = Announces(p2, a)
    BY <1>2, <2>2, Zenon DEF TimedResult
  <2>4. e1.address = a /\ e2.address = a
    BY DEF Entry
  <2> HIDE DEF e1, e2
  <2>5. p1 \in BusState /\ \A j \in 1 .. Slots : p1.timed_writes[j] = IF j = n + 1 THEN e1 ELSE s.timed_writes[j]
    BY <1>1, <2>1, PutFields
  <2> HIDE DEF p1
  <2>6. p2 \in BusState /\ \A j \in 1 .. Slots : p2.timed_writes[j] = IF j = n + 2 THEN e2 ELSE p1.timed_writes[j]
    BY <1>1, <2>1, <2>5, PutFields
  <2> HIDE DEF p2
  <2>7. Announces(p2, a).timed_writes = p2.timed_writes
    BY <2>2, <2>6, AnnouncesFields
  <2> QED
    BY <2>2, <2>3, <2>4, <2>5, <2>6, <2>7 DEF NoneLate, Busy
<1>3. CASE a \in {SCY, SCX}
  <2> DEFINE e1 == Entry(a, v, d - Ahead(a))
             p1 == Put(s, n + 1, e1)
  <2>1. e1 \in Slot /\ e1.address = a
    BY DEF Entry, Slot, Ahead
  <2>2. a \in Timely /\ ~Blending(a) /\ a # IF_
    BY <1>3 DEF Blending, Timely, LCDC, SCY, SCX, Palettes, IF_
  <2>3. TimedResult(s, n, a, v, d) = Announces(p1, a)
    BY <1>3, <2>2, Zenon DEF TimedResult
  <2> HIDE DEF e1
  <2>4. p1 \in BusState /\ \A j \in 1 .. Slots : p1.timed_writes[j] = IF j = n + 1 THEN e1 ELSE s.timed_writes[j]
    BY <1>1, <2>1, PutFields
  <2> HIDE DEF p1
  <2>5. Announces(p1, a).timed_writes = p1.timed_writes
    BY <2>2, <2>4, AnnouncesFields
  <2> QED
    BY <2>1, <2>2, <2>3, <2>4, <2>5 DEF NoneLate, Busy
<1>4. CASE ~Blending(a) /\ a \notin {SCY, SCX}
  BY <1>4, Zenon DEF TimedResult
<1> QED
  BY <1>2, <1>3, <1>4, Zenon

\* Write8 of an announced address takes the announcement back.
Taken(s, first) ==
  [s EXCEPT !.announced = [k \in 1 .. Len(@) - 1 |-> IF k < first THEN @[k] ELSE @[k + 1]]]

\* What a sequence is after one of its elements is removed.
LEMMA RemovedSequence ==
  ASSUME NEW q \in Seq(Timely), NEW f, f \in 1 .. Len(q), NEW l, l = Len(q), l <= 2
  PROVE  /\ [k \in 1 .. l - 1 |-> IF k < f THEN q[k] ELSE q[k + 1]] \in Seq(Timely)
         /\ Len([k \in 1 .. l - 1 |-> IF k < f THEN q[k] ELSE q[k + 1]]) = l - 1
<1> DEFINE r == [k \in 1 .. l - 1 |-> IF k < f THEN q[k] ELSE q[k + 1]]
           n == l - 1
<1>1. l \in Nat /\ f \in 1 .. l /\ \A k \in 1 .. l : q[k] \in Timely
  OBVIOUS
<1>2. n \in Nat /\ n + 1 = l
  BY <1>1
<1>3. \A k \in 1 .. n : (IF k < f THEN q[k] ELSE q[k + 1]) \in Timely
  BY <1>1, <1>2
<1>4. r \in [1 .. n -> Timely]
  BY <1>3
<1> HIDE DEF r, n
<1>5. r \in Seq(Timely) /\ Len(r) = n
  BY <1>2, <1>4
<1> QED
  BY <1>5 DEF r, n

\* What is told without the write to a.
Remain(told, a, later) ==
  /\ \A y \in told : y.address = a \/ \E z \in later : z.address = y.address
  /\ \A z \in later : z.address # a /\ \E y \in told : z.address = y.address

\* An announced write is forgotten, and the other announcements are kept.
LEMMA TakenKeeps ==
  ASSUME NEW s \in BusState, NEW told, AnnouncedAreTold(s, told), NEW a,
         Places(s, a) # {}, NEW w, w.address = a, NEW later, Remain(told, a, later)
  PROVE  /\ Write8(s, w) \in BusState /\ AnnouncedAreTold(Write8(s, w), later)
         /\ Write8(s, w).timed_writes = s.timed_writes /\ Write8(s, w).io = s.io
         /\ Write8(s, w).scheduling = s.scheduling /\ Write8(s, w).asserted = s.asserted
<1> DEFINE q == s.announced
           l == Len(q)
           P == Places(s, a)
           first == CHOOSE k \in P : \A j \in P : k <= j
           r == [k \in 1 .. l - 1 |-> IF k < first THEN q[k] ELSE q[k + 1]]
<1>1. /\ l <= 2 /\ (l = 2 => q[1] # q[2])
      /\ \A j \in 1 .. l : \E y \in told : q[j] = y.address
      /\ \A y \in told : y.address \in Timely => \E j \in 1 .. l : q[j] = y.address
  BY Zenon DEF AnnouncedAreTold
<1>2. q \in Seq(Timely)
  BY DEF BusState
<1>3. l \in Nat
  BY <1>2
<1>4. Write8(s, w) = [s EXCEPT !.announced = r]
  <2>1. Write8(s, w) = [s EXCEPT !.announced =
                          [k \in 1 .. Len(@) - 1 |-> IF k < first THEN @[k] ELSE @[k + 1]]]
    BY Zenon DEF Write8
  <2> QED
    BY <2>1, Zenon
<1>5. \A k \in 1 .. l : k \in P <=> q[k] = a
  BY DEF Places
<1>6. P \subseteq 1 .. l /\ P # {}
  BY DEF Places
<1> HIDE DEF q, l, P
<1>7. PICK f \in 1 .. l : f \in P
  BY <1>6
<1>8. \A k \in P : k = f
  BY <1>1, <1>3, <1>5, <1>6, <1>7
<1>9. first = f
  <2>1. \A j \in P : f <= j
    BY <1>3, <1>7, <1>8
  <2>2. first \in P
    BY <1>7, <2>1
  <2> QED
    BY <1>8, <2>2
<1>10. r \in Seq(Timely) /\ Len(r) = l - 1
  <2>1. r = [k \in 1 .. l - 1 |-> IF k < f THEN q[k] ELSE q[k + 1]]
    BY <1>9
  <2>2. f \in 1 .. Len(q) /\ l = Len(q)
    BY <1>7 DEF l
  <2> QED
    BY <1>1, <1>2, <2>1, <2>2, RemovedSequence
<1>11. \A j \in 1 .. l - 1 : r[j] = IF j < f THEN q[j] ELSE q[j + 1]
  BY <1>9
<1> HIDE DEF r, first
<1>12. /\ Write8(s, w) \in BusState /\ Write8(s, w).announced = r
       /\ Write8(s, w).timed_writes = s.timed_writes /\ Write8(s, w).io = s.io
       /\ Write8(s, w).scheduling = s.scheduling /\ Write8(s, w).asserted = s.asserted
  BY <1>4, <1>10 DEF BusState
<1>13. l = 1 \/ l = 2
  BY <1>1, <1>3, <1>7
<1>14. \A j \in 1 .. l - 1 : \E k \in 1 .. l : k # f /\ r[j] = q[k]
  BY <1>7, <1>11, <1>13
<1>15. \A k \in 1 .. l : k # f => \E j \in 1 .. l - 1 : r[j] = q[k]
  BY <1>7, <1>11, <1>13
<1>16. \A j \in 1 .. l - 1 : \E z \in later : r[j] = z.address
  <2> SUFFICES ASSUME NEW j \in 1 .. l - 1  PROVE \E z \in later : r[j] = z.address
    OBVIOUS
  <2>1. PICK k \in 1 .. l : k # f /\ r[j] = q[k]
    BY <1>14
  <2>2. q[k] # a
    BY <1>5, <1>8, <2>1
  <2>3. PICK y \in told : q[k] = y.address
    BY <1>1
  <2> QED
    BY <2>1, <2>2, <2>3 DEF Remain
<1>17. \A z \in later : z.address \in Timely => \E j \in 1 .. l - 1 : r[j] = z.address
  <2> SUFFICES ASSUME NEW z \in later, z.address \in Timely
               PROVE  \E j \in 1 .. l - 1 : r[j] = z.address
    OBVIOUS
  <2>1. z.address # a /\ \E y \in told : z.address = y.address
    BY DEF Remain
  <2>2. PICK k \in 1 .. l : q[k] = z.address
    BY <1>1, <2>1
  <2>3. k # f
    BY <1>5, <1>7, <2>1, <2>2
  <2> QED
    BY <1>15, <2>2, <2>3
<1>18. AnnouncedAreTold(Write8(s, w), later)
  <2>1. l - 1 <= 2 /\ l - 1 # 2
    BY <1>13
  <2> QED
    BY <1>10, <1>12, <1>16, <1>17, <2>1, Zenon DEF AnnouncedAreTold
<1> QED
  BY <1>12, <1>18

\* A write of IF is on its way for a dot.
LEMMA LateKeeps ==
  ASSUME SlotsSuffice, NEW s \in BusState, NEW told, SlotsKept(s, told, 0, watched), Room(s, 0),
         NoneLate(s), NEW w, w.address = IF_, w.value \in Values, Places(s, IF_) = {},
         s.scheduling = TRUE
  PROVE  /\ Write8(s, w) \in BusState /\ SlotsKept(Write8(s, w), told, 0, watched)
         /\ Write8(s, w).announced = s.announced /\ Write8(s, w).io = s.io
         /\ Write8(s, w).scheduling = s.scheduling /\ Write8(s, w).asserted = s.asserted
         /\ \A i \in 1 .. Slots : Busy(Write8(s, w), i) <=> i = 1
         /\ Write8(s, w).timed_writes[1] = Entry(IF_, w.value, 1)
<1> DEFINE e == Entry(IF_, w.value, 1)
           z == 0
           t == Put(s, z + 1, e)
<1>1. z \in 0 .. 3 /\ z + 1 = 1 /\ Room(s, z) /\ 1 \in 1 .. Slots /\ Slots \in Nat /\ z \in 0 .. 2
  BY DEF SlotsSuffice
<1>2. e \in Slot /\ e.dots_remaining = 1 /\ e.address = IF_
  BY DEF Entry, Slot, IF_
<1> HIDE DEF z, e
<1>3. Write8(s, w) = t
  <2>1. Write8(s, w) = ScheduleWrite(s, IF_, w.value, 1)
    BY Zenon DEF Write8
  <2> DEFINE one == 1
  <2>2. one \in 1 .. 7
    OBVIOUS
  <2> HIDE DEF one
  <2>3. ScheduleWrite(s, IF_, w.value, one) = Put(s, z + 1, Entry(IF_, w.value, one))
    BY <1>1, <2>2, OneScheduled
  <2> QED
    BY <2>1, <2>3 DEF one, e
<1>4. /\ t \in BusState /\ t.announced = s.announced /\ t.io = s.io
      /\ t.scheduling = s.scheduling /\ t.asserted = s.asserted
      /\ \A j \in 1 .. Slots : t.timed_writes[j] = IF j = 1 THEN e ELSE s.timed_writes[j]
  <2> DEFINE one == z + 1
  <2>1. one = 1 /\ one \in 1 .. Slots
    BY <1>1
  <2> HIDE DEF one
  <2>2. /\ Put(s, one, e) \in BusState /\ Put(s, one, e).announced = s.announced
        /\ Put(s, one, e).io = s.io
        /\ Put(s, one, e).scheduling = s.scheduling /\ Put(s, one, e).asserted = s.asserted
        /\ \A j \in 1 .. Slots : Put(s, one, e).timed_writes[j] = IF j = one THEN e ELSE s.timed_writes[j]
    BY <1>2, <2>1, PutFields
  <2>3. t = Put(s, one, e)
    BY DEF one
  <2> HIDE DEF t
  <2> QED
    BY <2>1, <2>2, <2>3
<1>5. SlotsAreTold(t, told, 0, watched) /\ SlotsDiffer(t)
  <2>1. IsLate(e, 0)
    BY <1>2 DEF IsLate
  <2>2. \A i \in 1 .. Slots : Busy(s, i) => s.timed_writes[i].address # e.address
    BY <1>2 DEF NoneLate
  <2>3. SlotsAreTold(s, told, 0, watched) /\ SlotsDiffer(s)
    BY DEF SlotsKept
  <2> QED
    BY <1>1, <1>2, <2>1, <2>2, <2>3, PutKeeps
<1>6. ToldHaveSlots(t, told, 0, watched)
  <2>1. ToldHaveSlots(s, told, 0, watched)
    BY DEF SlotsKept
  <2> QED
    BY <1>1, <1>2, <2>1, PutLeaves
<1> HIDE DEF t
<1>7. \A i \in 1 .. Slots : Busy(t, i) <=> i = 1
  <2>1. \A i \in 1 .. Slots : ~Busy(s, i)
    BY <1>1 DEF Room, z
  <2> QED
    BY <1>1, <1>2, <1>4, <2>1 DEF Busy
<1> QED
  BY <1>1, <1>3, <1>4, <1>5, <1>6, <1>7 DEF SlotsKept, e

\* A write of another register reaches it now.
LEMMA NowKeeps ==
  ASSUME NEW s \in BusState, NEW told, SlotsKept(s, told, 0, watched), NoneLate(s),
         NEW w, w.address # IF_, w.value \in Values, Places(s, w.address) = {},
         \A y \in told : y.address # w.address
  PROVE  /\ Write8(s, w) \in BusState /\ SlotsKept(Write8(s, w), told, 0, watched)
         /\ Write8(s, w).announced = s.announced /\ Write8(s, w).timed_writes = s.timed_writes
         /\ Write8(s, w).io = IF w.address = watched THEN w.value ELSE s.io
         /\ Write8(s, w).scheduling = s.scheduling /\ Write8(s, w).asserted = s.asserted
<1> DEFINE t == WriteNow(s, w.address, w.value)
<1>1. Write8(s, w) = t
  BY Zenon DEF Write8
<1>2. /\ t \in BusState /\ t.announced = s.announced /\ t.timed_writes = s.timed_writes
      /\ t.io = (IF w.address = watched THEN w.value ELSE s.io)
      /\ t.scheduling = s.scheduling /\ t.asserted = s.asserted
  BY DEF WriteNow, BusState
<1> HIDE DEF t
<1>3. SlotsAreTold(s, told, 0, watched) /\ SlotsDiffer(s) /\ ToldHaveSlots(s, told, 0, watched)
  BY DEF SlotsKept
<1>4. ASSUME NEW y \in told, NEW slot
      PROVE  IsBlend(slot, y, 0, s.io, watched) <=> IsBlend(slot, y, 0, t.io, watched)
  BY <1>2 DEF IsBlend
<1>5. SlotsAreTold(t, told, 0, watched)
  BY <1>2, <1>3, <1>4 DEF SlotsAreTold, Busy
<1>6. SlotsDiffer(t)
  BY <1>2, <1>3 DEF SlotsDiffer, Busy
<1>7. ToldHaveSlots(t, told, 0, watched)
  BY <1>2, <1>3, <1>4 DEF ToldHaveSlots
<1> QED
  BY <1>1, <1>2, <1>5, <1>6, <1>7 DEF SlotsKept

\* The access of an M-cycle: two announcements at most, then the write.
LEMMA ExecuteUnfolds ==
  ASSUME NEW s, NEW c, NEW x, NEW y,
         x = IF 1 <= Len(c.announce) THEN ScheduleDmgIoWrite(s, c.announce[1]) ELSE s,
         y = IF 2 <= Len(c.announce) THEN ScheduleDmgIoWrite(x, c.announce[2]) ELSE x
  PROVE  Execute(s, c) = IF c.write = <<>> THEN y ELSE Write8(y, c.write[1])
BY Zenon DEF Execute

\* What an M-cycle makes of the bus, by what it announces and writes.
LEMMA ExecuteNothing ==
  ASSUME NEW s
  PROVE  Execute(s, Announcing(<<>>)) = s
<1> DEFINE c == Announcing(<<>>)
<1>1. Len(c.announce) = 0 /\ c.write = <<>>
  BY DEF Announcing
<1> DEFINE x == s
           y == s
<1> HIDE DEF c
<1>2. x = (IF 1 <= Len(c.announce) THEN ScheduleDmgIoWrite(s, c.announce[1]) ELSE s)
  BY <1>1
<1>3. y = (IF 2 <= Len(c.announce) THEN ScheduleDmgIoWrite(x, c.announce[2]) ELSE x)
  BY <1>1
<1> HIDE DEF x, y
<1>4. Execute(s, c) = IF c.write = <<>> THEN y ELSE Write8(y, c.write[1])
  BY <1>2, <1>3, ExecuteUnfolds
<1> QED
  BY <1>1, <1>4, Zenon DEF x, y, c

\* One announcement.
LEMMA ExecuteOne ==
  ASSUME NEW s, NEW A
  PROVE  Execute(s, Announcing(<<A>>)) = ScheduleDmgIoWrite(s, A)
<1> DEFINE c == Announcing(<<A>>)
<1>1. Len(c.announce) = 1 /\ c.announce[1] = A /\ c.write = <<>>
  BY DEF Announcing
<1> DEFINE x == ScheduleDmgIoWrite(s, A)
           y == ScheduleDmgIoWrite(s, A)
<1> HIDE DEF c
<1>2. x = (IF 1 <= Len(c.announce) THEN ScheduleDmgIoWrite(s, c.announce[1]) ELSE s)
  BY <1>1
<1>3. y = (IF 2 <= Len(c.announce) THEN ScheduleDmgIoWrite(x, c.announce[2]) ELSE x)
  BY <1>1
<1> HIDE DEF x, y
<1>4. Execute(s, c) = IF c.write = <<>> THEN y ELSE Write8(y, c.write[1])
  BY <1>2, <1>3, ExecuteUnfolds
<1> QED
  BY <1>1, <1>4, Zenon DEF x, y, c

\* Two announcements.
LEMMA ExecuteTwo ==
  ASSUME NEW s, NEW A, NEW B
  PROVE  Execute(s, Announcing(<<A, B>>)) = ScheduleDmgIoWrite(ScheduleDmgIoWrite(s, A), B)
<1> DEFINE c == Announcing(<<A, B>>)
<1>1. Len(c.announce) = 2 /\ c.announce[1] = A /\ c.announce[2] = B /\ c.write = <<>>
  BY DEF Announcing
<1> DEFINE x == ScheduleDmgIoWrite(s, A)
           y == ScheduleDmgIoWrite(ScheduleDmgIoWrite(s, A), B)
<1> HIDE DEF c
<1>2. x = (IF 1 <= Len(c.announce) THEN ScheduleDmgIoWrite(s, c.announce[1]) ELSE s)
  BY <1>1
<1>3. y = (IF 2 <= Len(c.announce) THEN ScheduleDmgIoWrite(x, c.announce[2]) ELSE x)
  BY <1>1
<1> HIDE DEF x, y
<1>4. Execute(s, c) = IF c.write = <<>> THEN y ELSE Write8(y, c.write[1])
  BY <1>2, <1>3, ExecuteUnfolds
<1> QED
  BY <1>1, <1>4, Zenon DEF x, y, c

\* A write.
LEMMA ExecuteWrites ==
  ASSUME NEW s, NEW a, NEW v
  PROVE  Execute(s, Writing(a, v)) = Write8(s, WriteOf(a, v))
<1> DEFINE c == Writing(a, v)
<1>1. Len(c.announce) = 0 /\ c.write # <<>> /\ c.write[1] = WriteOf(a, v)
  BY DEF Writing
<1> DEFINE x == s
           y == s
<1> HIDE DEF c
<1>2. x = (IF 1 <= Len(c.announce) THEN ScheduleDmgIoWrite(s, c.announce[1]) ELSE s)
  BY <1>1
<1>3. y = (IF 2 <= Len(c.announce) THEN ScheduleDmgIoWrite(x, c.announce[2]) ELSE x)
  BY <1>1
<1> HIDE DEF x, y
<1>4. Execute(s, c) = IF c.write = <<>> THEN y ELSE Write8(y, c.write[1])
  BY <1>2, <1>3, ExecuteUnfolds
<1> QED
  BY <1>1, <1>4, Zenon DEF x, y, c

\* An announcement, and the write of the byte before.
LEMMA ExecuteBetween ==
  ASSUME NEW s, NEW a, NEW v, NEW b, NEW w
  PROVE  Execute(s, Between(a, v, b, w)) = Write8(ScheduleDmgIoWrite(s, Announced(b, w, 4)), WriteOf(a, v))
<1> DEFINE c == Between(a, v, b, w)
<1>1. /\ Len(c.announce) = 1 /\ c.announce[1] = Announced(b, w, 4)
      /\ c.write # <<>> /\ c.write[1] = WriteOf(a, v)
  BY DEF Between
<1> DEFINE x == ScheduleDmgIoWrite(s, Announced(b, w, 4))
           y == ScheduleDmgIoWrite(s, Announced(b, w, 4))
<1> HIDE DEF c
<1>2. x = (IF 1 <= Len(c.announce) THEN ScheduleDmgIoWrite(s, c.announce[1]) ELSE s)
  BY <1>1
<1>3. y = (IF 2 <= Len(c.announce) THEN ScheduleDmgIoWrite(x, c.announce[2]) ELSE x)
  BY <1>1
<1> HIDE DEF x, y
<1>4. Execute(s, c) = IF c.write = <<>> THEN y ELSE Write8(y, c.write[1])
  BY <1>2, <1>3, ExecuteUnfolds
<1> QED
  BY <1>1, <1>4, Zenon DEF x, y, c

\* Writes of IF on their way, in the terms of module BusWrites.
LateDue(s, p) ==
  {ToCome(IF_, s.timed_writes[i].value, 0, p) :
     i \in {j \in 1 .. Slots : s.timed_writes[j].address = IF_ /\ s.timed_writes[j].dots_remaining # 0}}

\* What the write of v to a at the end of an M-cycle leaves behind.
Outcome(t, r, a, v, later, p) ==
  /\ r \in BusState /\ r.asserted = t.asserted /\ Kept(r, later, 0, watched)
  /\ r.io = IF a = watched /\ a # IF_ /\ (p \/ a \notin Timely) THEN v ELSE t.io
  /\ LateDue(r, p) = IF a = IF_ THEN {ToCome(IF_, v, 0, p)} ELSE {}

\* The announcements do not depend on the slots.
LEMMA SameAnnounced ==
  ASSUME NEW s, NEW t, t.announced = s.announced, NEW told, AnnouncedAreTold(s, told)
  PROVE  AnnouncedAreTold(t, told)
BY DEF AnnouncedAreTold

\* The write that ends an M-cycle is forgotten, delayed or done, whichever its address asks for.
LEMMA WriteEnds ==
  ASSUME SlotsSuffice, NEW t \in BusState, t.scheduling = TRUE, NEW told, NEW later,
         AnnouncedAreTold(t, told), SlotsKept(t, later, 0, watched), NoneLate(t),
         NEW a, NEW v \in Values, NEW p \in BOOLEAN, a = IF_ => Room(t, 0),
         Remain(told, a, later),
         p => told = {}, ~p => \E y \in told : y.address = a
  PROVE  Outcome(t, Write8(t, WriteOf(a, v)), a, v, later, p)
<1> DEFINE w == WriteOf(a, v)
           r == Write8(t, w)
<1>1. w.address = a /\ w.value = v
  BY DEF WriteOf
<1> HIDE DEF w
<1>2. t.announced \in Seq(Timely)
  BY DEF BusState
<1>3. Places(t, a) # {} => a \in Timely /\ ~p
  <2> SUFFICES ASSUME NEW k \in 1 .. Len(t.announced), t.announced[k] = a
               PROVE  a \in Timely /\ ~p
    BY DEF Places
  <2>1. a \in Timely
    BY <1>2
  <2>2. told # {}
    BY DEF AnnouncedAreTold
  <2> QED
    BY <2>1, <2>2
<1>4. a \in Timely /\ ~p => Places(t, a) # {}
  BY DEF AnnouncedAreTold, Places
<1>5. IF_ \notin Timely
  BY DEF Timely, IF_, LCDC, SCY, SCX, Palettes
<1>6. CASE Places(t, a) # {}
  <2>1. /\ r \in BusState /\ AnnouncedAreTold(r, later)
        /\ r.timed_writes = t.timed_writes /\ r.io = t.io
        /\ r.scheduling = t.scheduling /\ r.asserted = t.asserted
    <3>1. Places(t, a) # {}
      BY <1>6
    <3> HIDE DEF r
    <3>2. /\ Write8(t, w) \in BusState /\ AnnouncedAreTold(Write8(t, w), later)
          /\ Write8(t, w).timed_writes = t.timed_writes /\ Write8(t, w).io = t.io
          /\ Write8(t, w).scheduling = t.scheduling /\ Write8(t, w).asserted = t.asserted
      BY <1>1, <3>1, TakenKeeps
    <3> QED
      BY <3>2 DEF r
  <2>2. SlotsKept(r, later, 0, watched)
    BY <2>1 DEF SlotsKept, SlotsAreTold, SlotsDiffer, ToldHaveSlots, Busy
  <2>3. LateDue(r, p) = {}
    BY <2>1 DEF LateDue, NoneLate, Busy
  <2>4. a # IF_ /\ ~(p \/ a \notin Timely)
    BY <1>3, <1>5, <1>6
  <2> QED
    BY <2>1, <2>2, <2>3, <2>4, Zenon DEF Outcome, Kept, r, w
<1>7. CASE a = IF_
  <2>1. Places(t, IF_) = {}
    BY <1>3, <1>5, <1>7
  <2>2. /\ r \in BusState /\ SlotsKept(r, later, 0, watched)
        /\ r.announced = t.announced /\ r.io = t.io
        /\ r.scheduling = t.scheduling /\ r.asserted = t.asserted
        /\ \A i \in 1 .. Slots : Busy(r, i) <=> i = 1
        /\ r.timed_writes[1] = Entry(IF_, v, 1)
    <3>1. Room(t, 0)
      BY <1>7
    <3>2. w.address = IF_ /\ w.value \in Values
      BY <1>1, <1>7
    <3> HIDE DEF r
    <3>3. /\ Write8(t, w) \in BusState /\ SlotsKept(Write8(t, w), later, 0, watched)
          /\ Write8(t, w).announced = t.announced /\ Write8(t, w).io = t.io
          /\ Write8(t, w).scheduling = t.scheduling /\ Write8(t, w).asserted = t.asserted
          /\ \A i \in 1 .. Slots : Busy(Write8(t, w), i) <=> i = 1
          /\ Write8(t, w).timed_writes[1] = Entry(IF_, w.value, 1)
      BY <2>1, <3>1, <3>2, LateKeeps
    <3> QED
      BY <1>1, <3>3 DEF r
  <2>3. AnnouncedAreTold(r, later)
    <3>1. \A j \in 1 .. Len(t.announced) : \E z \in later : t.announced[j] = z.address
      <4> SUFFICES ASSUME NEW j \in 1 .. Len(t.announced)
                   PROVE  \E z \in later : t.announced[j] = z.address
        OBVIOUS
      <4>1. PICK y \in told : t.announced[j] = y.address
        BY DEF AnnouncedAreTold
      <4>2. y.address # a
        BY <1>7, <2>1, <4>1 DEF Places
      <4> QED
        BY <4>1, <4>2 DEF Remain
    <3>2. \A z \in later : z.address \in Timely => \E j \in 1 .. Len(t.announced) : t.announced[j] = z.address
      BY DEF AnnouncedAreTold, Remain
    <3>3. Len(t.announced) <= 2 /\ (Len(t.announced) = 2 => t.announced[1] # t.announced[2])
      BY Zenon DEF AnnouncedAreTold
    <3>4. AnnouncedAreTold(t, later)
      BY <3>1, <3>2, <3>3, Zenon DEF AnnouncedAreTold
    <3> HIDE DEF r
    <3> QED
      BY <2>2, <3>4, SameAnnounced
  <2>4. LateDue(r, p) = {ToCome(IF_, v, 0, p)}
    <3>1. 1 \in 1 .. Slots
      BY DEF SlotsSuffice
    <3>2. /\ r.timed_writes[1].address = IF_ /\ r.timed_writes[1].value = v
          /\ r.timed_writes[1].dots_remaining # 0
      BY <2>2 DEF Entry
    <3> HIDE DEF r
    <3>3. {j \in 1 .. Slots : r.timed_writes[j].address = IF_ /\ r.timed_writes[j].dots_remaining # 0} = {1}
      BY <2>2, <3>1, <3>2 DEF Busy
    <3> QED
      BY <3>2, <3>3 DEF LateDue
  <2> HIDE DEF r
  <2>5. Outcome(t, r, a, v, later, p)
    BY <1>7, <2>2, <2>3, <2>4, Zenon DEF Outcome, Kept
  <2> QED
    BY <2>5 DEF r, w
<1>8. CASE a # IF_ /\ Places(t, a) = {}
  <2>1. /\ r \in BusState /\ SlotsKept(r, later, 0, watched)
        /\ r.announced = t.announced /\ r.timed_writes = t.timed_writes
        /\ r.io = (IF a = watched THEN v ELSE t.io)
        /\ r.scheduling = t.scheduling /\ r.asserted = t.asserted
    BY <1>1, <1>8, NowKeeps DEF Remain
  <2>2. p \/ a \notin Timely
    BY <1>4, <1>8
  <2> HIDE DEF r
  <2>3. AnnouncedAreTold(r, later)
    <3>1. \A j \in 1 .. Len(t.announced) : \E z \in later : t.announced[j] = z.address
      <4> SUFFICES ASSUME NEW j \in 1 .. Len(t.announced)
                   PROVE  \E z \in later : t.announced[j] = z.address
        OBVIOUS
      <4>1. PICK y \in told : t.announced[j] = y.address
        BY DEF AnnouncedAreTold
      <4>2. y.address # a
        BY <1>8, <4>1 DEF Places
      <4> QED
        BY <4>1, <4>2 DEF Remain
    <3>2. \A z \in later : z.address \in Timely => \E j \in 1 .. Len(t.announced) : t.announced[j] = z.address
      BY DEF AnnouncedAreTold, Remain
    <3>3. Len(t.announced) <= 2 /\ (Len(t.announced) = 2 => t.announced[1] # t.announced[2])
      BY Zenon DEF AnnouncedAreTold
    <3>4. AnnouncedAreTold(t, later)
      BY <3>1, <3>2, <3>3, Zenon DEF AnnouncedAreTold
    <3> QED
      BY <2>1, <3>4, SameAnnounced
  <2>4. LateDue(r, p) = {}
    BY <2>1 DEF LateDue, NoneLate, Busy
  <2>5. Outcome(t, r, a, v, later, p)
    BY <1>8, <2>1, <2>2, <2>3, <2>4, Zenon DEF Outcome, Kept
  <2> QED
    BY <2>5 DEF r, w
<1> QED
  BY <1>6, <1>7, <1>8

\* With the writes of one address announced there is room for another.
LEMMA AnnouncedFew ==
  ASSUME NEW s \in BusState, s.scheduling = TRUE, NEW told, AnnouncedAreTold(s, told),
         \A w, y \in told : w.address = y.address
  PROVE  MayAnnounce(s)
<1> DEFINE l == Len(s.announced)
           q == s.announced
<1>1. s.announced \in Seq(Timely)
  BY DEF BusState
<1>2. /\ l <= 2 /\ (l = 2 => q[1] # q[2])
      /\ \A j \in 1 .. l : \E w \in told : q[j] = w.address
  BY Zenon DEF AnnouncedAreTold
<1>3. l \in Nat
  BY <1>1
<1> HIDE DEF l, q
<1>4. l # 2
  <2> SUFFICES ASSUME l = 2  PROVE FALSE
    OBVIOUS
  <2>1. q[1] # q[2] /\ 1 \in 1 .. l /\ 2 \in 1 .. l
    BY <1>2
  <2>2. PICK w \in told : q[1] = w.address
    BY <1>2, <2>1
  <2>3. PICK y \in told : q[2] = y.address
    BY <1>2, <2>1
  <2> QED
    BY <2>1, <2>2, <2>3
<1>5. l <= 1
  BY <1>2, <1>3, <1>4
<1> QED
  BY <1>5 DEF MayAnnounce, l

\* What one announcement at the end of an M-cycle leaves behind.
Announcement(s, e, told, new) ==
  /\ e \in BusState /\ e.asserted = s.asserted /\ e.io = s.io /\ e.scheduling = TRUE
  /\ SlotsKept(e, {new}, 0, watched) /\ NoneLate(e)
  /\ AnnouncedAreTold(e, told \union {new})
  /\ new.address \notin Timely => Room(e, 0)
  /\ Room(e, Uses(new.address))

\* An announcement uses two slots at most.
LEMMA UsesTwoAtMost ==
  ASSUME NEW a
  PROVE  Uses(a) \in 0 .. 2 /\ (a \notin Timely => Uses(a) = 0)
BY DEF Uses, Timely, Blending

\* One announcement fits.
LEMMA OneAnnounced ==
  ASSUME SlotsSuffice, NEW s \in BusState, s.scheduling = TRUE,
         SlotsKept(s, {}, 0, watched), NoneLate(s), NEW told, AnnouncedAreTold(s, told),
         MayAnnounce(s), NEW a, a \in 0 .. 255, NEW v \in Values, \A w \in told : w.address # a
  PROVE  Announcement(s, ScheduleDmgIoWrite(s, Announced(a, v, 4)), told, Turn(a, v, 1))
<1> DEFINE n == 0
           d == 4
           k == 1
           e == TimedResult(s, n, a, v, d)
           none == {}
<1>1. Room(s, 0)
  BY EmptyRoom
<1>2. n \in 0 .. 2 /\ Room(s, n) /\ d \in {4, 8} /\ d = 4 * k /\ k \in {1, 2}
  BY <1>1
<1>3. SlotsKept(s, none, 0, watched) /\ \A w \in none : w.address # a
  OBVIOUS
<1> HIDE DEF n, d, k, none
<1>4. ScheduleDmgIoWrite(s, Announced(a, v, d)) = e
  BY <1>2, AnnouncementResult
<1>5. /\ e \in BusState /\ e.io = s.io /\ e.asserted = s.asserted /\ e.scheduling = s.scheduling
      /\ e.announced = IF a \in Timely THEN Append(s.announced, a) ELSE s.announced
  <2>1. Extends(s, e, a)
    BY <1>2, ResultFields
  <2> HIDE DEF e
  <2> QED
    BY <2>1 DEF Extends
<1>6. SlotsKept(e, none \union {Turn(a, v, k)}, 0, watched)
  BY <1>2, <1>3, ResultKeeps
<1>7. NoneLate(e)
  BY <1>2, ResultNoneLate
<1>8. Room(e, n + Uses(a))
  BY <1>2, ResultRoom
<1> HIDE DEF e
<1>9. AnnouncedAreTold(e, told \union {Turn(a, v, k)})
  BY <1>5, AnnouncedGrow
<1>10. Turn(a, v, k).address = a
  BY DEF Turn
<1>11. Room(e, Uses(a))
  <2>1. n + Uses(a) = Uses(a)
    BY UsesTwoAtMost DEF n
  <2> QED
    BY <1>8, <2>1
<1>12. a \notin Timely => Room(e, 0)
  BY <1>11, UsesTwoAtMost
<1>13. none \union {Turn(a, v, k)} = {Turn(a, v, k)}
  BY DEF none
<1>14. SlotsKept(e, {Turn(a, v, k)}, 0, watched)
  BY <1>6, <1>13
<1>15. Announcement(s, e, told, Turn(a, v, k))
  BY <1>5, <1>7, <1>9, <1>10, <1>11, <1>12, <1>14, Zenon DEF Announcement
<1> QED
  BY <1>4, <1>15 DEF d, k

\* What two announcements leave behind.
Announcements(s, e, told) ==
  /\ e \in BusState /\ e.asserted = s.asserted /\ e.io = s.io
  /\ Kept(e, told, 0, watched) /\ NoneLate(e)

\* Two announcements in one M-cycle fit.
LEMMA TwoAnnounced ==
  ASSUME SlotsSuffice, NEW s \in BusState, s.scheduling = TRUE,
         SlotsKept(s, {}, 0, watched), NoneLate(s), AnnouncedAreTold(s, {}),
         NEW a, a \in 0 .. 255, NEW v \in Values, NEW b, b \in 0 .. 255, NEW w \in Values, a # b,
         NEW e, e = ScheduleDmgIoWrite(ScheduleDmgIoWrite(s, Announced(a, v, 4)), Announced(b, w, 8))
  PROVE  Announcements(s, e, {Turn(a, v, 1), Turn(b, w, 2)})
<1> DEFINE f == ScheduleDmgIoWrite(s, Announced(a, v, 4))
           none == {}
           first == {Turn(a, v, 1)}
           d == 8
           k == 2
           n == Uses(a)
<1>1. MayAnnounce(s)
  <2>1. AnnouncedAreTold(s, none) /\ \A x, y \in none : x.address = y.address
    OBVIOUS
  <2> HIDE DEF none
  <2> QED
    BY <2>1, AnnouncedFew
<1>2. Announcement(s, f, none, Turn(a, v, 1))
  <2>1. AnnouncedAreTold(s, none) /\ \A x \in none : x.address # a
    OBVIOUS
  <2> HIDE DEF none
  <2> QED
    BY <1>1, <2>1, OneAnnounced
<1>3. Turn(a, v, 1).address = a
  BY DEF Turn
<1>4. none \union {Turn(a, v, 1)} = first
  OBVIOUS
<1> HIDE DEF f
<1>5. /\ f \in BusState /\ f.asserted = s.asserted /\ f.io = s.io /\ f.scheduling = TRUE
      /\ SlotsKept(f, first, 0, watched) /\ NoneLate(f) /\ Room(f, Uses(a))
      /\ AnnouncedAreTold(f, first)
  <2> HIDE DEF none
  <2> QED
    BY <1>2, <1>3, <1>4, Zenon DEF Announcement, first
<1>6. \A x \in first : x.address = a /\ x.address # b
  BY <1>3
<1> HIDE DEF first
<1>7. MayAnnounce(f)
  BY <1>5, <1>6, AnnouncedFew
<1>8. n \in 0 .. 2 /\ Room(f, n) /\ d \in {4, 8} /\ d = 4 * k /\ k \in {1, 2}
  BY <1>5, UsesTwoAtMost
<1> HIDE DEF n, d, k
<1> DEFINE g == TimedResult(f, n, b, w, d)
<1>9. ScheduleDmgIoWrite(f, Announced(b, w, d)) = g
  BY <1>5, <1>7, <1>8, AnnouncementResult
<1>10. /\ g \in BusState /\ g.io = f.io /\ g.asserted = f.asserted
       /\ g.announced = IF b \in Timely THEN Append(f.announced, b) ELSE f.announced
  <2>1. Extends(f, g, b)
    BY <1>5, <1>8, ResultFields
  <2> HIDE DEF g
  <2> QED
    BY <2>1 DEF Extends
<1>11. SlotsKept(g, first \union {Turn(b, w, k)}, 0, watched)
  <2>1. \A x \in first : x.address # b
    BY <1>6
  <2> QED
    BY <1>5, <1>8, <2>1, ResultKeeps
<1>12. NoneLate(g)
  BY <1>5, <1>8, ResultNoneLate
<1> HIDE DEF g
<1>13. AnnouncedAreTold(g, first \union {Turn(b, w, k)})
  <2>1. \A x \in first : x.address # b
    BY <1>6
  <2> QED
    BY <1>5, <1>7, <1>10, <2>1, AnnouncedGrow
<1>14. first \union {Turn(b, w, k)} = {Turn(a, v, 1), Turn(b, w, 2)}
  BY DEF first, k
<1>15. e = g
  BY <1>9 DEF f, d
<1> QED
  BY <1>5, <1>10, <1>11, <1>12, <1>13, <1>14, <1>15 DEF Kept, Announcements

-----------------------------------------------------------------------------
(* The steps of the CPU, and those of module BusWrites. *)

\* The writes that are due, by where they come from.
LEMMA DueIs == Due = StillDue(rest, timed_dot, plain) \union LateDue(State, plain)
BY DEF Due, StillDue, LateDue, State, ToCome

\* The same after a step.
LEMMA DueIsAfter == Due' = StillDue(rest', timed_dot', plain') \union LateDue(State', plain')
BY DEF Due, StillDue, LateDue, State, ToCome

\* Without a write of IF in a slot none of IF is late.
LEMMA NoneLateDue ==
  ASSUME NEW s, NEW p, NoneLate(s)
  PROVE  LateDue(s, p) = {}
BY DEF NoneLate, LateDue, Busy

\* A step to a state of the CPU is a step to that state.
LEMMA BecomesIs ==
  ASSUME NEW s \in BusState, Becomes(s)
  PROVE  /\ State' = s /\ io' = s.io
         /\ bus'.scheduling = s.scheduling /\ bus'.asserted = s.asserted
<1>1. State' = [timed_writes |-> s.timed_writes, announced |-> s.announced,
                scheduling |-> s.scheduling, asserted |-> s.asserted, io |-> s.io]
  BY DEF Becomes, State
<1>2. s = [timed_writes |-> s.timed_writes, announced |-> s.announced,
           scheduling |-> s.scheduling, asserted |-> s.asserted, io |-> s.io]
  BY DEF BusState
<1>3. State' = s
  BY <1>1, <1>2, Zenon
<1> QED
  BY <1>3 DEF Becomes

\* The slots do not depend on the announcements.
LEMMA SameSlots ==
  ASSUME NEW s, NEW t, t.timed_writes = s.timed_writes, t.io = s.io,
         NEW told, NEW d, NEW x, SlotsKept(s, told, d, x)
  PROVE  SlotsKept(t, told, d, x)
BY DEF SlotsKept, SlotsAreTold, SlotsDiffer, ToldHaveSlots, Busy

\* Nobody but write8 asks whether writes are scheduled.
LEMMA SchedulingEnds ==
  ASSUME NEW s \in BusState, NEW b \in BOOLEAN, NEW t, t = [s EXCEPT !.scheduling = b]
  PROVE  /\ t \in BusState /\ t.scheduling = b /\ t.asserted = s.asserted /\ t.io = s.io
         /\ \A told, d, x : SlotsKept(t, told, d, x) <=> SlotsKept(s, told, d, x)
         /\ \A told : AnnouncedAreTold(t, told) <=> AnnouncedAreTold(s, told)
         /\ NoneLate(t) <=> NoneLate(s)
         /\ \A p : LateDue(t, p) = LateDue(s, p)
<1>1. /\ t \in BusState /\ t.scheduling = b /\ t.asserted = s.asserted /\ t.io = s.io
      /\ t.timed_writes = s.timed_writes /\ t.announced = s.announced
  BY DEF BusState
<1>2. \A told, d, x : SlotsKept(t, told, d, x) <=> SlotsKept(s, told, d, x)
  BY <1>1, SameSlots
<1>3. \A told : AnnouncedAreTold(t, told) <=> AnnouncedAreTold(s, told)
  BY <1>1, SameAnnounced
<1>4. NoneLate(t) <=> NoneLate(s)
  BY <1>1, Zenon DEF NoneLate, Busy
<1>5. \A p : LateDue(t, p) = LateDue(s, p)
  BY <1>1 DEF LateDue
<1> QED
  BY <1>1, <1>2, <1>3, <1>4, <1>5

\* An instruction tells two writes at most, to two addresses.
LEMMA ShapedTold ==
  ASSUME SlotsSuffice, NEW r, NEW p \in BOOLEAN, Shaped(r, p)
  PROVE  ToldOK(Told(r, p))
<1>1. ToldOK({})
  BY DEF ToldOK
<1>2. ASSUME NEW a \in Addresses, NEW v \in Values  PROVE ToldOK({Turn(a, v, 1)})
  BY DEF ToldOK, Turn
<1>3. ASSUME NEW a \in Addresses, NEW v \in Values, NEW b \in Addresses, NEW w \in Values, a # b
      PROVE  ToldOK({Turn(a, v, 1), Turn(b, w, 2)})
  BY <1>3 DEF ToldOK, Turn
<1> DEFINE d == 0
<1>4. d \in Int
  OBVIOUS
<1> HIDE DEF d
<1>5. CASE r = <<>>
  <2>1. RestIs(<<>>, d, p, {}, {})
    BY NothingLeft
  <2> QED
    BY <1>1, <1>5, <2>1 DEF RestIs
<1>6. ASSUME NEW a \in Addresses, NEW v \in Values,
             r = <<Writing(a, v)>> \/ (~p /\ r = StoreAtFetch(a, v))
      PROVE  ToldOK(Told(r, p))
  <2>1. CASE r = <<Writing(a, v)>>
    <3>1. RestIs(<<Writing(a, v)>>, d, p, IF p THEN {} ELSE {Turn(a, v, 1)}, {ToCome(a, v, 4 - d, p)})
      BY <1>4, OneWriteLeft
    <3> QED
      BY <1>1, <1>2, <2>1, <3>1 DEF RestIs
  <2>2. CASE ~p /\ r = StoreAtFetch(a, v)
    <3>1. p = FALSE
      BY <2>2
    <3>2. RestIs(StoreAtFetch(a, v), d, FALSE, {}, {ToCome(a, v, 8 - d, FALSE)})
      BY <1>4, StoreLeft
    <3> QED
      BY <1>1, <2>2, <3>1, <3>2 DEF RestIs
  <2> QED
    BY <1>6, <2>1, <2>2
<1>7. ASSUME ~p, NEW a \in Addresses, NEW b \in Addresses, NEW v \in Values, NEW w \in Values,
             a # b,
             \/ r = <<Announcing(<<Announced(a, v, 4), Announced(b, w, 8)>>),
                      Writing(a, v), Writing(b, w)>>
             \/ r = <<Writing(a, v), Writing(b, w)>>
             \/ r = <<Announcing(<<Announced(a, v, 4)>>), Between(a, v, b, w), Writing(b, w)>>
             \/ r = <<Between(a, v, b, w), Writing(b, w)>>
      PROVE  ToldOK(Told(r, p))
  <2>0. p = FALSE
    BY <1>7
  <2>1. CASE r = <<Announcing(<<Announced(a, v, 4), Announced(b, w, 8)>>), Writing(a, v), Writing(b, w)>>
    <3> DEFINE q == <<Announced(a, v, 4), Announced(b, w, 8)>>
    <3> HIDE DEF q
    <3>1. RestIs(<<Announcing(q), Writing(a, v), Writing(b, w)>>, d, FALSE,
                 {}, {ToCome(a, v, 8 - d, FALSE), ToCome(b, w, 12 - d, FALSE)})
      BY <1>4, StoreSpLeft
    <3>2. Told(r, p) = {}
      BY <2>0, <2>1, <3>1, Zenon DEF RestIs, q
    <3> QED
      BY <1>1, <3>2
  <2>2. CASE r = <<Writing(a, v), Writing(b, w)>>
    <3>0. RestIs(<<Writing(a, v), Writing(b, w)>>, d, FALSE, {Turn(a, v, 1), Turn(b, w, 2)},
                 {ToCome(a, v, 4 - d, FALSE), ToCome(b, w, 8 - d, FALSE)})
      BY <1>4, TwoWritesLeft
    <3>1. Told(r, p) = {Turn(a, v, 1), Turn(b, w, 2)}
      BY <2>0, <2>2, <3>0, Zenon DEF RestIs
    <3> QED
      BY <1>3, <1>7, <3>1
  <2>3. CASE r = <<Announcing(<<Announced(a, v, 4)>>), Between(a, v, b, w), Writing(b, w)>>
    <3> DEFINE q == <<Announced(a, v, 4)>>
    <3> HIDE DEF q
    <3>1. RestIs(<<Announcing(q), Between(a, v, b, w), Writing(b, w)>>, d, FALSE,
                 {}, {ToCome(a, v, 8 - d, FALSE), ToCome(b, w, 12 - d, FALSE)})
      BY <1>4, PushLeft
    <3>2. Told(r, p) = {}
      BY <2>0, <2>3, <3>1, Zenon DEF RestIs, q
    <3> QED
      BY <1>1, <3>2
  <2>4. CASE r = <<Between(a, v, b, w), Writing(b, w)>>
    <3>0. RestIs(<<Between(a, v, b, w), Writing(b, w)>>, d, FALSE, {Turn(a, v, 1)},
                 {ToCome(a, v, 4 - d, FALSE), ToCome(b, w, 8 - d, FALSE)})
      BY <1>4, PushTailLeft
    <3>1. Told(r, p) = {Turn(a, v, 1)}
      BY <2>0, <2>4, <3>0, Zenon DEF RestIs
    <3> QED
      BY <1>2, <3>1
  <2> QED
    BY <1>7, <2>1, <2>2, <2>3, <2>4
<1>8. \A a, b \in Addresses : b = a + 1 \/ b = a - 1 => a # b
  BY DEF SlotsSuffice
<1>9. CASE ~p /\ \E a, b \in Addresses, v, w \in Values :
          \/ /\ b = a + 1
             /\ \/ r = <<Announcing(<<Announced(a, v, 4), Announced(b, w, 8)>>),
                         Writing(a, v), Writing(b, w)>>
                \/ r = <<Writing(a, v), Writing(b, w)>>
          \/ /\ b = a - 1
             /\ \/ r = <<Announcing(<<Announced(a, v, 4)>>), Between(a, v, b, w), Writing(b, w)>>
                \/ r = <<Between(a, v, b, w), Writing(b, w)>>
  BY <1>7, <1>8, <1>9
<1> QED
  BY <1>5, <1>6, <1>9, Zenon DEF Shaped, Between

\* The CPU as it begins the access that ends an M-cycle.
Ready(b) == [State EXCEPT !.scheduling = b]

\* What that access finds.
IsReady(s, b, told) ==
  /\ s \in BusState /\ s.scheduling = b /\ s.asserted = TRUE /\ s.io = io
  /\ ToldOK(told) /\ SlotsKept(s, Later(told), 0, watched) /\ NoneLate(s)
  /\ AnnouncedAreTold(s, told)

\* At the end of an M-cycle all that is told is for the next one, and nothing is late.
LEMMA MCycleIsReady ==
  ASSUME SlotsSuffice, ScheduleInv, timed_dot = 4, NEW b \in BOOLEAN,
         NEW told, NEW pending, RestIs(rest, timed_dot, plain, told, pending)
  PROVE  IsReady(Ready(b), b, told) /\ Due = pending
<1> DEFINE s == Ready(b)
<1>1. /\ State \in BusState /\ bus.asserted = TRUE /\ plain \in BOOLEAN /\ Shaped(rest, plain)
      /\ SlotsKept(State, told, timed_dot, watched) /\ AnnouncedAreTold(State, told)
  BY Zenon DEF ScheduleInv, Kept, RestIs
<1>2. State.asserted = bus.asserted /\ State.io = io
  BY DEF State
<1>3. ToldOK(told)
  BY <1>1, ShapedTold DEF RestIs
<1>4. SlotsKept(State, told, 4, watched)
  BY <1>1
<1>5. SlotsKept(State, Later(told), 0, watched) /\ NoneLate(State)
  BY <1>1, <1>3, <1>4, TurnKeeps
<1>6. LateDue(State, plain) = {}
  BY <1>5, NoneLateDue
<1>7. Due = pending
  BY <1>6, DueIs DEF RestIs
<1>8. s = [State EXCEPT !.scheduling = b]
  BY DEF Ready
<1> HIDE DEF s
<1>9. /\ s \in BusState /\ s.scheduling = b /\ s.asserted = State.asserted /\ s.io = State.io
      /\ \A x, d, y : SlotsKept(s, x, d, y) <=> SlotsKept(State, x, d, y)
      /\ \A x : AnnouncedAreTold(s, x) <=> AnnouncedAreTold(State, x)
      /\ NoneLate(s) <=> NoneLate(State)
  BY <1>1, <1>8, SchedulingEnds
<1>10. IsReady(s, b, told)
  BY <1>1, <1>2, <1>3, <1>5, <1>9 DEF IsReady
<1> QED
  BY <1>7, <1>10 DEF s

\* What the access leaves, for the M-cycles r.
Left(e, r, p, told) ==
  /\ e \in BusState /\ e.asserted = TRUE /\ p \in BOOLEAN /\ Shaped(r, p)
  /\ Kept(e, told, 0, watched)

\* The end of an M-cycle keeps the invariant if its access does.
LEMMA MCycleKeeps ==
  ASSUME SlotsSuffice, ScheduleInv, NEW b \in BOOLEAN, NEW cycles, RunMCycle(cycles, b),
         NEW e, e = Execute(Ready(b), Head(cycles)),
         NEW told, NEW pending, RestIs(rest', 0, plain', told, pending),
         Left(e, rest', plain', told)
  PROVE  ScheduleInv' /\ io' = e.io /\ Due' = pending \union LateDue(e, plain')
<1> DEFINE f == [e EXCEPT !.scheduling = FALSE]
<1>1. e \in BusState /\ e.asserted = TRUE /\ plain' \in BOOLEAN /\ Shaped(rest', plain')
  BY DEF Left
<1>2. SlotsKept(e, told, 0, watched) /\ AnnouncedAreTold(e, told)
  BY DEF Left, Kept
<1>3. Becomes(f) /\ watched' = watched /\ timed_dot' = 0
  BY Zenon DEF RunMCycle, Ready
<1>4. f = [e EXCEPT !.scheduling = FALSE]
  OBVIOUS
<1> HIDE DEF f
<1>5. /\ f \in BusState /\ f.scheduling = FALSE /\ f.asserted = e.asserted /\ f.io = e.io
      /\ \A x, d, y : SlotsKept(f, x, d, y) <=> SlotsKept(e, x, d, y)
      /\ \A x : AnnouncedAreTold(f, x) <=> AnnouncedAreTold(e, x)
      /\ \A p : LateDue(f, p) = LateDue(e, p)
  <2> DEFINE no == FALSE
  <2>1. no \in BOOLEAN /\ f = [e EXCEPT !.scheduling = no]
    BY <1>4
  <2> HIDE DEF no
  <2>2. /\ f \in BusState /\ f.scheduling = no /\ f.asserted = e.asserted /\ f.io = e.io
        /\ \A x, d, y : SlotsKept(f, x, d, y) <=> SlotsKept(e, x, d, y)
        /\ \A x : AnnouncedAreTold(f, x) <=> AnnouncedAreTold(e, x)
        /\ \A p : LateDue(f, p) = LateDue(e, p)
    BY <1>1, <2>1, SchedulingEnds
  <2> QED
    BY <2>2 DEF no
<1>6. State' = f /\ io' = f.io /\ bus'.scheduling = f.scheduling /\ bus'.asserted = f.asserted
  BY <1>3, <1>5, BecomesIs
<1>7. SlotsKept(f, told, 0, watched) /\ AnnouncedAreTold(f, told)
  BY <1>2, <1>5
<1>8. Told(rest', plain') = told /\ StillDue(rest', 0, plain') = pending
  BY DEF RestIs
<1>9. Kept(State', Told(rest', plain'), timed_dot', watched')
  BY <1>3, <1>6, <1>7, <1>8, Zenon DEF Kept
<1>10. watched \in Addresses
  BY DEF ScheduleInv
<1>11. timed_dot' \in 0 .. 4
  BY <1>3
<1>12. State' \in BusState /\ bus'.scheduling = FALSE /\ bus'.asserted = TRUE
  BY <1>1, <1>5, <1>6
<1>13. ScheduleInv'
  BY <1>1, <1>3, <1>9, <1>10, <1>11, <1>12, Zenon DEF ScheduleInv
<1>14. Due' = StillDue(rest', timed_dot', plain') \union LateDue(State', plain')
  BY DueIsAfter
<1>15. Due' = pending \union LateDue(e, plain')
  BY <1>3, <1>5, <1>6, <1>8, <1>14
<1> QED
  BY <1>5, <1>6, <1>13, <1>15

-----------------------------------------------------------------------------
(* The end of an M-cycle in module BusWrites. *)

\* How far a register is ahead, in the terms of module BusWrites.
LEMMA LeadIs ==
  ASSUME NEW a, NEW v, NEW l, NEW p \in BOOLEAN
  PROVE  /\ ToCome(a, v, l, p).address = a /\ ToCome(a, v, l, p).value = v
         /\ ToCome(a, v, l, p).left = l /\ ToCome(a, v, l, p).plain = p
         /\ Registers!Lead(ToCome(a, v, l, p)) = 0 <=> a # IF_ /\ (p \/ a \notin Timely)
         /\ Registers!Lead(ToCome(a, v, l, p))
              = IF a = IF_ THEN -1 ELSE IF p \/ a \notin Timely THEN 0 ELSE Ahead(a)
         /\ Registers!Blends(ToCome(a, v, l, p)) <=> ~p /\ Blending(a)
BY DEF ToCome, Registers!Lead, Registers!Blends, IF_, Timely, LCDC, SCY, SCX, Palettes, Ahead,
   Blending

\* An M-cycle without a write is one of module BusWrites.
LEMMA NothingWritten ==
  ASSUME timed_dot = 4, timed_dot' = 0, watched' = watched, io' = io,
         NEW R, \A w \in R : w.left # 0 /\ w.left > 0, Due = R, Due' = R
  PROVE  Registers!EndMCycle
<1>1. {w \in Due : w.left = 0 /\ w.address = watched /\ Registers!Lead(w) = 0} = {}
  OBVIOUS
<1>2. {w \in Due : w.left > 0 \/ w.address = 15} = R
  OBVIOUS
<1> QED
  BY <1>1, <1>2, Zenon DEF Registers!EndMCycle

\* So is the first M-cycle of an instruction.
LEMMA InstructionBegins ==
  ASSUME timed_dot = 4, timed_dot' = 0, watched' = watched, io' = io, Due = {},
         NEW W, Due' = W, \A w \in W : w.left # 0 /\ w.left > 0, Registers!Instruction(W)
  PROVE  Registers!EndMCycle
<1>1. {w \in Due : w.left = 0 /\ w.address = watched /\ Registers!Lead(w) = 0} = {}
  OBVIOUS
<1>2. {w \in Due : w.left > 0 \/ w.address = 15} = {}
  OBVIOUS
<1>3. {w \in Due' : w.left > 0} = W /\ {w \in Due' : w.left = 0} = {}
  OBVIOUS
<1>4. \A w \in Due : w.left = 0
  OBVIOUS
<1>5. Registers!Instruction({w \in Due' : w.left > 0})
  BY <1>3
<1>6. {w \in Due : w.left > 0 \/ w.address = 15} = {w \in Due' : w.left = 0}
  BY <1>2, <1>3
<1> QED
  BY <1>1, <1>4, <1>5, <1>6, Zenon DEF Registers!EndMCycle

\* So is an M-cycle with a write.
LEMMA ByteWritten ==
  ASSUME timed_dot = 4, timed_dot' = 0, watched' = watched,
         NEW R, \A w \in R : w.left # 0 /\ w.left > 0,
         NEW a, NEW v, NEW p \in BOOLEAN, Due = {ToCome(a, v, 0, p)} \union R,
         Due' = R \union (IF a = IF_ THEN {ToCome(IF_, v, 0, p)} ELSE {}),
         io' = IF a = watched /\ a # IF_ /\ (p \/ a \notin Timely) THEN v ELSE io
  PROVE  Registers!EndMCycle
<1> DEFINE w0 == ToCome(a, v, 0, p)
           now == {w \in Due : w.left = 0 /\ w.address = watched /\ Registers!Lead(w) = 0}
           later == {w \in Due : w.left > 0 \/ w.address = 15}
<1>1. /\ w0.address = a /\ w0.value = v /\ w0.left = 0
      /\ Registers!Lead(w0) = 0 <=> a # IF_ /\ (p \/ a \notin Timely)
  BY LeadIs
<1>2. later = Due'
  BY <1>1 DEF IF_
<1>3. now = IF a = watched /\ a # IF_ /\ (p \/ a \notin Timely) THEN {w0} ELSE {}
  <2> HIDE DEF w0
  <2> QED  BY <1>1 DEF w0
<1> HIDE DEF w0, now, later
<1>4. \/ \E w \in now : Registers!Takes(w, w.value)
      \/ now = {} /\ io' = io
  <2>1. CASE a = watched /\ a # IF_ /\ (p \/ a \notin Timely)
    BY <1>1, <1>3, <2>1 DEF Registers!Takes
  <2>2. CASE ~(a = watched /\ a # IF_ /\ (p \/ a \notin Timely))
    BY <1>3, <2>2
  <2> QED
    BY <2>1, <2>2
<1> QED
  BY <1>2, <1>4, Zenon DEF Registers!EndMCycle, now, later

-----------------------------------------------------------------------------
(* The end of an M-cycle, whatever it does. *)

Positive(R) == \A w \in R : w.left # 0 /\ w.left > 0

\* One write to come is not due yet.
LEMMA PositiveOne ==
  ASSUME NEW a, NEW v, NEW l, l \in {4, 8, 12}, NEW p
  PROVE  Positive({ToCome(a, v, l, p)})
<1>1. ToCome(a, v, l, p).left = l
  BY DEF ToCome
<1>2. l # 0 /\ l > 0
  OBVIOUS
<1> DEFINE x == ToCome(a, v, l, p)
<1> HIDE DEF x
<1> QED
  BY <1>1, <1>2 DEF Positive, x

\* Nor are two.
LEMMA PositiveTwo ==
  ASSUME NEW a, NEW v, NEW l, l \in {4, 8, 12}, NEW b, NEW w, NEW k, k \in {4, 8, 12}, NEW p
  PROVE  Positive({ToCome(a, v, l, p), ToCome(b, w, k, p)})
<1>1. ToCome(a, v, l, p).left = l /\ ToCome(b, w, k, p).left = k
  BY DEF ToCome
<1>2. l # 0 /\ l > 0 /\ k # 0 /\ k > 0
  OBVIOUS
<1> DEFINE x == ToCome(a, v, l, p)
           y == ToCome(b, w, k, p)
<1> HIDE DEF x, y
<1> QED
  BY <1>1, <1>2 DEF Positive, x, y

\* The end of an M-cycle that writes nothing.
LEMMA QuietStep ==
  ASSUME SlotsSuffice, ScheduleInv, NEW b \in BOOLEAN, NEW cycles, RunMCycle(cycles, b),
         NEW e, e = Execute(Ready(b), Head(cycles)), NoneLate(e), e.io = io,
         NEW told, NEW R, RestIs(rest', 0, plain', told, R), Left(e, rest', plain', told)
  PROVE  /\ ScheduleInv' /\ io' = io /\ Due' = R
         /\ timed_dot = 4 /\ timed_dot' = 0 /\ watched' = watched
<1>1. ScheduleInv' /\ io' = e.io /\ Due' = R \union LateDue(e, plain')
  BY MCycleKeeps
<1>2. LateDue(e, plain') = {}
  BY NoneLateDue
<1> QED
  BY <1>1, <1>2 DEF RunMCycle

\* What the write of v to a leaves of the CPU and of the register.
Written(e, a, v, later, p) ==
  /\ e \in BusState /\ e.asserted = TRUE /\ Kept(e, later, 0, watched)
  /\ e.io = IF a = watched /\ a # IF_ /\ (p \/ a \notin Timely) THEN v ELSE io
  /\ LateDue(e, p) = IF a = IF_ THEN {ToCome(IF_, v, 0, p)} ELSE {}

\* The end of an M-cycle that writes.
LEMMA WriteStep ==
  ASSUME SlotsSuffice, ScheduleInv, NEW b \in BOOLEAN, NEW cycles, RunMCycle(cycles, b),
         NEW e, e = Execute(Ready(b), Head(cycles)),
         NEW a, NEW v, NEW later, NEW p \in BOOLEAN, plain' = p, Written(e, a, v, later, p),
         NEW R, RestIs(rest', 0, p, later, R), Positive(R), Shaped(rest', p),
         Due = {ToCome(a, v, 0, p)} \union R
  PROVE  ScheduleInv' /\ Registers!EndMCycle
<1>1. /\ e \in BusState /\ e.asserted = TRUE /\ Kept(e, later, 0, watched)
      /\ e.io = IF a = watched /\ a # IF_ /\ (p \/ a \notin Timely) THEN v ELSE io
      /\ LateDue(e, p) = IF a = IF_ THEN {ToCome(IF_, v, 0, p)} ELSE {}
  BY Zenon DEF Written
<1>2. Left(e, rest', plain', later)
  BY <1>1 DEF Left
<1>3. RestIs(rest', 0, plain', later, R)
  OBVIOUS
<1>4. ScheduleInv' /\ io' = e.io /\ Due' = R \union LateDue(e, plain')
  BY <1>2, <1>3, MCycleKeeps
<1>5. timed_dot = 4 /\ timed_dot' = 0 /\ watched' = watched
  BY DEF RunMCycle
<1>6. \A w \in R : w.left # 0 /\ w.left > 0
  BY DEF Positive
<1>7. Due' = R \union (IF a = IF_ THEN {ToCome(IF_, v, 0, p)} ELSE {})
  BY <1>1, <1>4
<1>8. io' = IF a = watched /\ a # IF_ /\ (p \/ a \notin Timely) THEN v ELSE io
  BY <1>1, <1>4, Zenon
<1>9. Registers!EndMCycle
  BY <1>5, <1>6, <1>7, <1>8, ByteWritten
<1> QED
  BY <1>4, <1>9

\* The last write leaves nothing to tell.
LEMMA LaterNone ==
  ASSUME NEW a, NEW v
  PROVE  Later({Turn(a, v, 1)}) = {}
<1>1. Turn(a, v, 1).turn = 1
  BY DEF Turn
<1> QED
  BY <1>1 DEF Later

\* The first of two writes leaves the second.
LEMMA LaterTwo ==
  ASSUME NEW a, NEW v, NEW c, NEW w
  PROVE  Later({Turn(a, v, 1), Turn(c, w, 2)}) = {Turn(c, w, 1)}
<1>1. /\ Turn(a, v, 1).turn = 1 /\ Turn(c, w, 2).turn = 2
      /\ Turn(c, w, 2).address = c /\ Turn(c, w, 2).value = w
  BY DEF Turn
<1>2. {y \in {Turn(a, v, 1), Turn(c, w, 2)} : y.turn = 2} = {Turn(c, w, 2)}
  BY <1>1
<1> QED
  BY <1>1, <1>2 DEF Later

\* Nothing told leaves nothing to tell.
LEMMA LaterEmpty == Later({}) = {}
BY DEF Later

-----------------------------------------------------------------------------
(* The M-cycles after the first of an instruction. *)

\* The last M-cycle of an instruction that writes.
LEMMA LastByte ==
  ASSUME SlotsSuffice, ScheduleInv, TimedContinue, NEW a \in Addresses, NEW v \in Values,
         rest = <<Writing(a, v)>>
  PROVE  ScheduleInv' /\ Registers!EndMCycle
<1> DEFINE b == TRUE
           p == plain
           s == Ready(b)
           e == Execute(s, Head(rest))
           told == IF p THEN {} ELSE {Turn(a, v, 1)}
           later == {}
           R == {}
<1>1. /\ RunMCycle(rest, b) /\ plain' = p /\ p \in BOOLEAN /\ b \in BOOLEAN /\ timed_dot = 4
      /\ Head(rest) = Writing(a, v) /\ rest' = <<>>
  BY DEF TimedContinue, RunMCycle, ScheduleInv
<1>2. RestIs(rest, timed_dot, plain, told, {ToCome(a, v, 4 - timed_dot, p)})
  <2> DEFINE d == timed_dot
  <2>1. d \in Int /\ p \in BOOLEAN
    BY <1>1
  <2> HIDE DEF p, d
  <2>2. RestIs(<<Writing(a, v)>>, d, p, IF p THEN {} ELSE {Turn(a, v, 1)}, {ToCome(a, v, 4 - d, p)})
    BY <2>1, OneWriteLeft
  <2> QED
    BY <2>2 DEF p, d
<1>3. Later(told) = later
  BY LaterNone, LaterEmpty
<1>4. Turn(a, v, 1).address = a
  BY DEF Turn
<1>5. Remain(told, a, later) /\ (p => told = {}) /\ (~p => \E y \in told : y.address = a)
  BY <1>4 DEF Remain
<1>6. RestIs(rest', 0, p, later, R)
  BY <1>1, NothingLeft
<1>7. Positive(R) /\ Shaped(rest', p)
  BY <1>1 DEF Positive, Shaped
<1>8. \A w \in later : w.address \notin Timely
  OBVIOUS
<1> HIDE DEF told, later
<1>9. IsReady(s, b, told) /\ Due = {ToCome(a, v, 4 - timed_dot, p)}
  BY <1>1, <1>2, MCycleIsReady
<1>10. Due = {ToCome(a, v, 0, p)} \union R
  BY <1>1, <1>9
<1> HIDE DEF s, R, p
<1>11. /\ s \in BusState /\ s.scheduling = TRUE /\ s.asserted = TRUE /\ s.io = io
       /\ SlotsKept(s, later, 0, watched) /\ NoneLate(s) /\ AnnouncedAreTold(s, told)
  BY <1>3, <1>9 DEF IsReady
<1>12. Room(s, 0)
  BY <1>8, <1>11, EmptyRoom
<1>13. Outcome(s, Write8(s, WriteOf(a, v)), a, v, later, p)
  BY <1>1, <1>5, <1>11, <1>12, WriteEnds
<1>14. e = Write8(s, WriteOf(a, v))
  BY <1>1, ExecuteWrites
<1>15. Written(e, a, v, later, p)
  BY <1>11, <1>13, <1>14, Zenon DEF Outcome, Written
<1>16. e = Execute(Ready(b), Head(rest))
  BY DEF s
<1> HIDE DEF b, e
<1> QED
  BY <1>1, <1>6, <1>7, <1>10, <1>15, <1>16, WriteStep

\* The third M-cycle of LD (nn),SP.
LEMMA FirstOfTwoBytes ==
  ASSUME SlotsSuffice, ScheduleInv, TimedContinue, plain = FALSE,
         NEW a \in Addresses, NEW v \in Values, NEW c \in Addresses, NEW w \in Values, a # c,
         rest = <<Writing(a, v), Writing(c, w)>>, a = IF_ => c \notin Timely
  PROVE  ScheduleInv' /\ Registers!EndMCycle
<1> DEFINE b == TRUE
           p == FALSE
           s == Ready(b)
           e == Execute(s, Head(rest))
           told == {Turn(a, v, 1), Turn(c, w, 2)}
           later == {Turn(c, w, 1)}
           R == {ToCome(c, w, 4, FALSE)}
<1>1. /\ RunMCycle(rest, b) /\ plain' = p /\ p \in BOOLEAN /\ b \in BOOLEAN /\ timed_dot = 4
      /\ Head(rest) = Writing(a, v) /\ rest' = <<Writing(c, w)>>
  BY DEF TimedContinue, RunMCycle
<1>2. RestIs(rest, timed_dot, plain, told, {ToCome(a, v, 4 - timed_dot, FALSE), ToCome(c, w, 8 - timed_dot, FALSE)})
  <2>1. timed_dot \in Int
    BY <1>1
  <2> QED
    BY <1>1, <2>1, TwoWritesLeft
<1>3. Later(told) = later
  BY LaterTwo
<1>4. /\ Turn(a, v, 1).address = a /\ Turn(c, w, 2).address = c /\ Turn(c, w, 1).address = c
  BY DEF Turn
<1>5. Remain(told, a, later) /\ (p => told = {}) /\ (~p => \E y \in told : y.address = a)
  BY <1>4 DEF Remain
<1>6. RestIs(rest', 0, p, later, R)
  <2> DEFINE d == 0
  <2>1. d \in Int /\ 4 - d = 4 /\ p \in BOOLEAN
    OBVIOUS
  <2> HIDE DEF d
  <2>2. RestIs(<<Writing(c, w)>>, d, FALSE, IF FALSE THEN {} ELSE {Turn(c, w, 1)}, {ToCome(c, w, 4 - d, FALSE)})
    BY <2>1, OneWriteLeft
  <2>3. (IF FALSE THEN {} ELSE {Turn(c, w, 1)}) = later /\ {ToCome(c, w, 4 - d, FALSE)} = R
    BY <2>1
  <2>4. RestIs(<<Writing(c, w)>>, d, FALSE, later, R)
    <3> HIDE DEF later, R
    <3> QED
      BY <2>2, <2>3, Zenon
  <2> QED
    BY <1>1, <2>4 DEF d
<1>7. Positive(R) /\ Shaped(rest', p)
  <2>1. Positive(R)
    BY PositiveOne
  <2> QED
    BY <1>1, <2>1 DEF Shaped
<1>8. a = IF_ => \A x \in later : x.address \notin Timely
  BY <1>4
<1> HIDE DEF told, later
<1>9. IsReady(s, b, told) /\ Due = {ToCome(a, v, 4 - timed_dot, FALSE), ToCome(c, w, 8 - timed_dot, FALSE)}
  BY <1>1, <1>2, MCycleIsReady
<1>10. Due = {ToCome(a, v, 0, p)} \union R
  <2>1. 4 - timed_dot = 0 /\ 8 - timed_dot = 4
    BY <1>1
  <2>2. Due = {ToCome(a, v, 4 - timed_dot, FALSE), ToCome(c, w, 8 - timed_dot, FALSE)}
    BY <1>9
  <2>3. Due = {ToCome(a, v, 0, FALSE), ToCome(c, w, 4, FALSE)}
    BY <2>1, <2>2, Zenon
  <2> QED
    BY <2>3
<1> HIDE DEF s, R, p
<1>11. /\ s \in BusState /\ s.scheduling = TRUE /\ s.asserted = TRUE /\ s.io = io
       /\ SlotsKept(s, later, 0, watched) /\ NoneLate(s) /\ AnnouncedAreTold(s, told)
  BY <1>3, <1>9 DEF IsReady
<1>12. a = IF_ => Room(s, 0)
  BY <1>8, <1>11, EmptyRoom
<1>13. Outcome(s, Write8(s, WriteOf(a, v)), a, v, later, p)
  BY <1>1, <1>5, <1>11, <1>12, WriteEnds
<1>14. e = Write8(s, WriteOf(a, v))
  BY <1>1, ExecuteWrites
<1>15. Written(e, a, v, later, p)
  BY <1>11, <1>13, <1>14, Zenon DEF Outcome, Written
<1>16. e = Execute(Ready(b), Head(rest))
  BY DEF s
<1> HIDE DEF b, e
<1> QED
  BY <1>1, <1>6, <1>7, <1>10, <1>15, <1>16, WriteStep

\* The third M-cycle of PUSH, which writes a byte and announces the next.
LEMMA BetweenBytes ==
  ASSUME SlotsSuffice, ScheduleInv, TimedContinue, plain = FALSE,
         NEW a \in Addresses, NEW v \in Values, NEW c \in Addresses, NEW w \in Values, a # c,
         rest = <<Between(a, v, c, w), Writing(c, w)>>, a = IF_ => c \notin Timely
  PROVE  ScheduleInv' /\ Registers!EndMCycle
<1> DEFINE b == TRUE
           p == FALSE
           s == Ready(b)
           f == ScheduleDmgIoWrite(s, Announced(c, w, 4))
           e == Execute(s, Head(rest))
           told == {Turn(a, v, 1)}
           both == told \union {Turn(c, w, 1)}
           none == {}
           later == {Turn(c, w, 1)}
           R == {ToCome(c, w, 4, FALSE)}
<1>1. /\ RunMCycle(rest, b) /\ plain' = p /\ p \in BOOLEAN /\ b \in BOOLEAN /\ timed_dot = 4
      /\ Head(rest) = Between(a, v, c, w) /\ rest' = <<Writing(c, w)>>
  BY DEF TimedContinue, RunMCycle
<1>2. RestIs(rest, timed_dot, plain, told, {ToCome(a, v, 4 - timed_dot, FALSE), ToCome(c, w, 8 - timed_dot, FALSE)})
  <2>1. timed_dot \in Int
    BY <1>1
  <2> QED
    BY <1>1, <2>1, PushTailLeft
<1>3. Later(told) = none
  BY LaterNone
<1>4. Turn(a, v, 1).address = a /\ Turn(c, w, 1).address = c
  BY DEF Turn
<1>5. Remain(both, a, later) /\ (p => both = {}) /\ (~p => \E y \in both : y.address = a)
  BY <1>4 DEF Remain
<1>6. RestIs(rest', 0, p, later, R)
  <2> DEFINE d == 0
  <2>1. d \in Int /\ 4 - d = 4 /\ p \in BOOLEAN
    OBVIOUS
  <2> HIDE DEF d
  <2>2. RestIs(<<Writing(c, w)>>, d, FALSE, IF FALSE THEN {} ELSE {Turn(c, w, 1)}, {ToCome(c, w, 4 - d, FALSE)})
    BY <2>1, OneWriteLeft
  <2>3. (IF FALSE THEN {} ELSE {Turn(c, w, 1)}) = later /\ {ToCome(c, w, 4 - d, FALSE)} = R
    BY <2>1
  <2>4. RestIs(<<Writing(c, w)>>, d, FALSE, later, R)
    <3> HIDE DEF later, R
    <3> QED
      BY <2>2, <2>3, Zenon
  <2> QED
    BY <1>1, <2>4 DEF d
<1>7. Positive(R) /\ Shaped(rest', p)
  <2>1. Positive(R)
    BY PositiveOne
  <2> QED
    BY <1>1, <2>1 DEF Shaped
<1>8. /\ \A x, y \in told : x.address = y.address
      /\ \A x \in told : x.address # c
  BY <1>4
<1> HIDE DEF told, none
<1>9. IsReady(s, b, told) /\ Due = {ToCome(a, v, 4 - timed_dot, FALSE), ToCome(c, w, 8 - timed_dot, FALSE)}
  BY <1>1, <1>2, MCycleIsReady
<1>10. Due = {ToCome(a, v, 0, p)} \union R
  <2>1. 4 - timed_dot = 0 /\ 8 - timed_dot = 4
    BY <1>1
  <2>2. Due = {ToCome(a, v, 4 - timed_dot, FALSE), ToCome(c, w, 8 - timed_dot, FALSE)}
    BY <1>9
  <2>3. Due = {ToCome(a, v, 0, FALSE), ToCome(c, w, 4, FALSE)}
    BY <2>1, <2>2, Zenon
  <2> QED
    BY <2>3
<1> HIDE DEF s, R, p
<1>11. /\ s \in BusState /\ s.scheduling = TRUE /\ s.asserted = TRUE /\ s.io = io
       /\ SlotsKept(s, none, 0, watched) /\ NoneLate(s) /\ AnnouncedAreTold(s, told)
  BY <1>3, <1>9 DEF IsReady
<1>12. MayAnnounce(s)
  BY <1>8, <1>11, AnnouncedFew
<1>13. c \in 0 .. 255 /\ SlotsKept(s, {}, 0, watched)
  BY <1>11 DEF SlotsSuffice, none
<1>14. Announcement(s, f, told, Turn(c, w, 1))
  BY <1>8, <1>11, <1>12, <1>13, OneAnnounced
<1> HIDE DEF f
<1>15. /\ f \in BusState /\ f.scheduling = TRUE /\ f.asserted = TRUE /\ f.io = io
       /\ SlotsKept(f, later, 0, watched) /\ NoneLate(f) /\ AnnouncedAreTold(f, both)
       /\ c \notin Timely => Room(f, 0)
  BY <1>4, <1>11, <1>14, Zenon DEF Announcement
<1> HIDE DEF later, both
<1>16. Outcome(f, Write8(f, WriteOf(a, v)), a, v, later, p)
  BY <1>1, <1>5, <1>15, WriteEnds
<1>17. e = Write8(f, WriteOf(a, v))
  BY <1>1, ExecuteBetween DEF f
<1>18. Written(e, a, v, later, p)
  BY <1>15, <1>16, <1>17, Zenon DEF Outcome, Written
<1>19. e = Execute(Ready(b), Head(rest))
  BY DEF s
<1> HIDE DEF b, e
<1> QED
  BY <1>1, <1>6, <1>7, <1>10, <1>18, <1>19, WriteStep

-----------------------------------------------------------------------------
(* The M-cycles that write nothing. *)

\* What an M-cycle leaves that writes nothing.
Quiet(e, told) ==
  /\ e \in BusState /\ e.asserted = TRUE /\ e.io = io /\ NoneLate(e)
  /\ Kept(e, told, 0, watched)

\* An access that does nothing is quiet.
LEMMA ReadyIsQuiet ==
  ASSUME NEW s, NEW b, IsReady(s, b, {})
  PROVE  Quiet(s, {})
BY LaterEmpty DEF IsReady, Quiet, Kept

\* An M-cycle that the branch of the halted CPU runs announces nothing.
LEMMA NothingAnnounced ==
  ASSUME NEW s, NEW a, NEW v, NEW b, NEW w, s.scheduling = FALSE
  PROVE  /\ ScheduleDmgIoWrite(s, Announced(a, v, 4)) = s
BY Zenon DEF ScheduleDmgIoWrite

\* So is one announcement.
LEMMA OneIsQuiet ==
  ASSUME SlotsSuffice, NEW s, IsReady(s, TRUE, {}), NEW a \in Addresses, NEW v \in Values
  PROVE  Quiet(ScheduleDmgIoWrite(s, Announced(a, v, 4)), {Turn(a, v, 1)})
<1> DEFINE none == {}
           f == ScheduleDmgIoWrite(s, Announced(a, v, 4))
<1>1. /\ s \in BusState /\ s.scheduling = TRUE /\ s.asserted = TRUE /\ s.io = io
      /\ SlotsKept(s, {}, 0, watched) /\ NoneLate(s) /\ AnnouncedAreTold(s, none)
  BY LaterEmpty DEF IsReady
<1>2. /\ \A x, y \in none : x.address = y.address
      /\ \A x \in none : x.address # a
      /\ none \union {Turn(a, v, 1)} = {Turn(a, v, 1)}
  OBVIOUS
<1> HIDE DEF none
<1>3. MayAnnounce(s)
  BY <1>1, <1>2, AnnouncedFew
<1>4. a \in 0 .. 255
  BY DEF SlotsSuffice
<1>5. Announcement(s, f, none, Turn(a, v, 1))
  BY <1>1, <1>2, <1>3, <1>4, OneAnnounced
<1> HIDE DEF f
<1>6. Quiet(f, {Turn(a, v, 1)})
  BY <1>1, <1>2, <1>5, Zenon DEF Announcement, Quiet, Kept
<1> QED
  BY <1>6 DEF f

\* So are two.
LEMMA TwoAreQuiet ==
  ASSUME SlotsSuffice, NEW s, IsReady(s, TRUE, {}),
         NEW a \in Addresses, NEW v \in Values, NEW b \in Addresses, NEW w \in Values, a # b
  PROVE  Quiet(ScheduleDmgIoWrite(ScheduleDmgIoWrite(s, Announced(a, v, 4)), Announced(b, w, 8)),
               {Turn(a, v, 1), Turn(b, w, 2)})
<1> DEFINE e == ScheduleDmgIoWrite(ScheduleDmgIoWrite(s, Announced(a, v, 4)), Announced(b, w, 8))
<1>1. /\ s \in BusState /\ s.scheduling = TRUE /\ s.asserted = TRUE /\ s.io = io
      /\ SlotsKept(s, {}, 0, watched) /\ NoneLate(s) /\ AnnouncedAreTold(s, {})
  BY LaterEmpty DEF IsReady
<1>2. a \in 0 .. 255 /\ b \in 0 .. 255
  BY DEF SlotsSuffice
<1>3. e = ScheduleDmgIoWrite(ScheduleDmgIoWrite(s, Announced(a, v, 4)), Announced(b, w, 8))
  OBVIOUS
<1> HIDE DEF e
<1>4. /\ e \in BusState /\ e.asserted = s.asserted /\ e.io = s.io
      /\ Kept(e, {Turn(a, v, 1), Turn(b, w, 2)}, 0, watched) /\ NoneLate(e)
  <2>1. Announcements(s, e, {Turn(a, v, 1), Turn(b, w, 2)})
    BY <1>1, <1>2, <1>3, TwoAnnounced
  <2> QED
    BY <2>1 DEF Announcements
<1>5. Quiet(e, {Turn(a, v, 1), Turn(b, w, 2)})
  BY <1>1, <1>4, Zenon DEF Quiet
<1> QED
  BY <1>5 DEF e

\* An M-cycle inside an instruction that announces or does nothing.
LEMMA ContinueQuietly ==
  ASSUME SlotsSuffice, ScheduleInv, TimedContinue, NEW told, NEW R,
         Due = R, Positive(R), RestIs(rest', 0, plain, told, R), Shaped(rest', plain),
         Quiet(Execute(Ready(TRUE), Head(rest)), told)
  PROVE  ScheduleInv' /\ Registers!EndMCycle
<1> DEFINE b == TRUE
           e == Execute(Ready(b), Head(rest))
<1>1. /\ RunMCycle(rest, b) /\ plain' = plain /\ plain \in BOOLEAN /\ b \in BOOLEAN
      /\ e = Execute(Ready(b), Head(rest))
  BY DEF TimedContinue, ScheduleInv
<1> HIDE DEF b, e
<1>2. /\ e \in BusState /\ e.asserted = TRUE /\ e.io = io /\ NoneLate(e)
      /\ Kept(e, told, 0, watched)
  BY Zenon DEF Quiet, e, b
<1>3. Left(e, rest', plain', told) /\ RestIs(rest', 0, plain', told, R)
  BY <1>1, <1>2, Zenon DEF Left
<1>4. /\ ScheduleInv' /\ io' = io /\ Due' = R
      /\ timed_dot = 4 /\ timed_dot' = 0 /\ watched' = watched
  BY <1>1, <1>2, <1>3, QuietStep
<1>5. Registers!EndMCycle
  BY <1>4, NothingWritten DEF Positive
<1> QED
  BY <1>4, <1>5

\* The first M-cycle of an instruction.
LEMMA BeginQuietly ==
  ASSUME SlotsSuffice, ScheduleInv, NEW b \in BOOLEAN, NEW cycles, RunMCycle(cycles, b),
         rest = <<>>, plain' \in BOOLEAN, NEW told, NEW R,
         Positive(R), Registers!Instruction(R), RestIs(rest', 0, plain', told, R), Shaped(rest', plain'),
         Quiet(Execute(Ready(b), Head(cycles)), told)
  PROVE  ScheduleInv' /\ Registers!EndMCycle
<1> DEFINE e == Execute(Ready(b), Head(cycles))
<1>1. e = Execute(Ready(b), Head(cycles))
  OBVIOUS
<1> HIDE DEF e
<1>2. /\ e \in BusState /\ e.asserted = TRUE /\ e.io = io /\ NoneLate(e)
      /\ Kept(e, told, 0, watched)
  BY Zenon DEF Quiet, e
<1>3. Left(e, rest', plain', told)
  BY <1>2, Zenon DEF Left
<1>4. /\ ScheduleInv' /\ io' = io /\ Due' = R
      /\ timed_dot = 4 /\ timed_dot' = 0 /\ watched' = watched
  BY <1>1, <1>2, <1>3, QuietStep
<1>5. Due = {}
  <2>1. RestIs(rest, timed_dot, plain, {}, {})
    BY NothingLeft
  <2> QED
    BY <1>4, <2>1, MCycleIsReady
<1>6. Registers!EndMCycle
  BY <1>4, <1>5, InstructionBegins DEF Positive
<1> QED
  BY <1>4, <1>6

-----------------------------------------------------------------------------
(* What is left as an M-cycle begins. *)

\* A store that was announced.
LEMMA OneToCome ==
  ASSUME NEW a, NEW v
  PROVE  RestIs(<<Writing(a, v)>>, 0, FALSE, {Turn(a, v, 1)}, {ToCome(a, v, 4, FALSE)})
<1> DEFINE d == 0
           p == FALSE
<1>1. d \in Int /\ 4 - d = 4 /\ p \in BOOLEAN /\ ~p
  OBVIOUS
<1> HIDE DEF d, p
<1>2. RestIs(<<Writing(a, v)>>, d, p, IF p THEN {} ELSE {Turn(a, v, 1)}, {ToCome(a, v, 4 - d, p)})
  BY <1>1, OneWriteLeft
<1>3. RestIs(<<Writing(a, v)>>, d, p, {Turn(a, v, 1)}, {ToCome(a, v, 4, p)})
  BY <1>1, <1>2, Zenon
<1> QED
  BY <1>3 DEF d, p

\* A store that was not.
LEMMA OneToComePlain ==
  ASSUME NEW a, NEW v
  PROVE  RestIs(<<Writing(a, v)>>, 0, TRUE, {}, {ToCome(a, v, 4, TRUE)})
<1> DEFINE d == 0
           p == TRUE
<1>1. d \in Int /\ 4 - d = 4 /\ p \in BOOLEAN /\ p
  OBVIOUS
<1> HIDE DEF d, p
<1>2. RestIs(<<Writing(a, v)>>, d, p, IF p THEN {} ELSE {Turn(a, v, 1)}, {ToCome(a, v, 4 - d, p)})
  BY <1>1, OneWriteLeft
<1>3. RestIs(<<Writing(a, v)>>, d, p, {}, {ToCome(a, v, 4, p)})
  BY <1>1, <1>2, Zenon
<1> QED
  BY <1>3 DEF d, p

\* A store that is to be announced.
LEMMA StoreToCome ==
  ASSUME NEW a, NEW v
  PROVE  RestIs(StoreAtFetch(a, v), 0, FALSE, {}, {ToCome(a, v, 8, FALSE)})
<1> DEFINE d == 0
<1>1. d \in Int /\ 8 - d = 8
  OBVIOUS
<1> HIDE DEF d
<1>2. RestIs(StoreAtFetch(a, v), d, FALSE, {}, {ToCome(a, v, 8 - d, FALSE)})
  BY <1>1, StoreLeft
<1>3. RestIs(StoreAtFetch(a, v), d, FALSE, {}, {ToCome(a, v, 8, FALSE)})
  BY <1>1, <1>2, Zenon
<1> QED
  BY <1>3 DEF d

\* LD (nn),SP after its announcements.
LEMMA TwoToCome ==
  ASSUME NEW a, NEW v, NEW b, NEW w
  PROVE  RestIs(<<Writing(a, v), Writing(b, w)>>, 0, FALSE, {Turn(a, v, 1), Turn(b, w, 2)},
                {ToCome(a, v, 4, FALSE), ToCome(b, w, 8, FALSE)})
<1> DEFINE d == 0
<1>1. d \in Int /\ 4 - d = 4 /\ 8 - d = 8
  OBVIOUS
<1> HIDE DEF d
<1>2. RestIs(<<Writing(a, v), Writing(b, w)>>, d, FALSE, {Turn(a, v, 1), Turn(b, w, 2)},
             {ToCome(a, v, 4 - d, FALSE), ToCome(b, w, 8 - d, FALSE)})
  BY <1>1, TwoWritesLeft
<1>3. RestIs(<<Writing(a, v), Writing(b, w)>>, d, FALSE, {Turn(a, v, 1), Turn(b, w, 2)},
             {ToCome(a, v, 4, FALSE), ToCome(b, w, 8, FALSE)})
  BY <1>1, <1>2, Zenon
<1> QED
  BY <1>3 DEF d

\* PUSH after its first announcement.
LEMMA PushTailToCome ==
  ASSUME NEW a, NEW v, NEW b, NEW w
  PROVE  RestIs(<<Between(a, v, b, w), Writing(b, w)>>, 0, FALSE, {Turn(a, v, 1)},
                {ToCome(a, v, 4, FALSE), ToCome(b, w, 8, FALSE)})
<1> DEFINE d == 0
<1>1. d \in Int /\ 4 - d = 4 /\ 8 - d = 8
  OBVIOUS
<1> HIDE DEF d
<1>2. RestIs(<<Between(a, v, b, w), Writing(b, w)>>, d, FALSE, {Turn(a, v, 1)},
             {ToCome(a, v, 4 - d, FALSE), ToCome(b, w, 8 - d, FALSE)})
  BY <1>1, PushTailLeft
<1>3. RestIs(<<Between(a, v, b, w), Writing(b, w)>>, d, FALSE, {Turn(a, v, 1)},
             {ToCome(a, v, 4, FALSE), ToCome(b, w, 8, FALSE)})
  BY <1>1, <1>2, Zenon
<1> QED
  BY <1>3 DEF d

\* LD (nn),SP before its announcements.
LEMMA StoreSpToCome ==
  ASSUME NEW a, NEW v, NEW b, NEW w, NEW q
  PROVE  RestIs(<<Announcing(q), Writing(a, v), Writing(b, w)>>, 0, FALSE, {},
                {ToCome(a, v, 8, FALSE), ToCome(b, w, 12, FALSE)})
<1> DEFINE d == 0
<1>1. d \in Int /\ 8 - d = 8 /\ 12 - d = 12
  OBVIOUS
<1> HIDE DEF d
<1>2. RestIs(<<Announcing(q), Writing(a, v), Writing(b, w)>>, d, FALSE, {},
             {ToCome(a, v, 8 - d, FALSE), ToCome(b, w, 12 - d, FALSE)})
  BY <1>1, StoreSpLeft
<1>3. RestIs(<<Announcing(q), Writing(a, v), Writing(b, w)>>, d, FALSE, {},
             {ToCome(a, v, 8, FALSE), ToCome(b, w, 12, FALSE)})
  BY <1>1, <1>2, Zenon
<1> QED
  BY <1>3 DEF d

\* PUSH before its first announcement.
LEMMA PushToCome ==
  ASSUME NEW a, NEW v, NEW b, NEW w, NEW q
  PROVE  RestIs(<<Announcing(q), Between(a, v, b, w), Writing(b, w)>>, 0, FALSE, {},
                {ToCome(a, v, 8, FALSE), ToCome(b, w, 12, FALSE)})
<1> DEFINE d == 0
<1>1. d \in Int /\ 8 - d = 8 /\ 12 - d = 12
  OBVIOUS
<1> HIDE DEF d
<1>2. RestIs(<<Announcing(q), Between(a, v, b, w), Writing(b, w)>>, d, FALSE, {},
             {ToCome(a, v, 8 - d, FALSE), ToCome(b, w, 12 - d, FALSE)})
  BY <1>1, PushLeft
<1>3. RestIs(<<Announcing(q), Between(a, v, b, w), Writing(b, w)>>, d, FALSE, {},
             {ToCome(a, v, 8, FALSE), ToCome(b, w, 12, FALSE)})
  BY <1>1, <1>2, Zenon
<1> QED
  BY <1>3 DEF d

\* What stands at the end of an M-cycle, from what stood at its beginning.
LEMMA ReadyToAnnounce ==
  ASSUME SlotsSuffice, ScheduleInv, timed_dot = 4, NEW b \in BOOLEAN, NEW R, RestIs(rest, timed_dot, plain, {}, R)
  PROVE  IsReady(Ready(b), b, {}) /\ Due = R
<1> DEFINE none == {}
<1>1. RestIs(rest, timed_dot, plain, none, R)
  OBVIOUS
<1> HIDE DEF none
<1>2. IsReady(Ready(b), b, none) /\ Due = R
  BY <1>1, MCycleIsReady
<1> QED
  BY <1>2 DEF none

\* The M-cycle in which a store is announced.
LEMMA StoreAnnounces ==
  ASSUME SlotsSuffice, ScheduleInv, TimedContinue, plain = FALSE,
         NEW a \in Addresses, NEW v \in Values, rest = StoreAtFetch(a, v)
  PROVE  ScheduleInv' /\ Registers!EndMCycle
<1> DEFINE told == {Turn(a, v, 1)}
           R == {ToCome(a, v, 4, FALSE)}
           b == TRUE
<1>1. /\ timed_dot = 4 /\ b \in BOOLEAN
      /\ Head(rest) = Announcing(<<Announced(a, v, 4)>>) /\ rest' = <<Writing(a, v)>>
  BY DEF TimedContinue, RunMCycle, StoreAtFetch
<1>2. RestIs(rest, timed_dot, plain, {}, {ToCome(a, v, 8 - timed_dot, FALSE)})
  <2> DEFINE d == timed_dot
  <2>1. d \in Int
    BY <1>1
  <2> HIDE DEF d
  <2>2. RestIs(StoreAtFetch(a, v), d, FALSE, {}, {ToCome(a, v, 8 - d, FALSE)})
    BY <2>1, StoreLeft
  <2> QED
    BY <2>2 DEF d
<1> HIDE DEF b
<1>3. IsReady(Ready(b), b, {}) /\ Due = {ToCome(a, v, 8 - timed_dot, FALSE)}
  BY <1>1, <1>2, ReadyToAnnounce
<1>4. Due = R
  <2>1. 8 - timed_dot = 4
    BY <1>1
  <2> QED
    BY <1>3, <2>1, Zenon
<1>5. Quiet(Execute(Ready(TRUE), Head(rest)), told)
  <2> DEFINE s == Ready(b)
  <2>1. IsReady(s, TRUE, {})
    BY <1>3 DEF b
  <2> HIDE DEF s
  <2>2. Quiet(ScheduleDmgIoWrite(s, Announced(a, v, 4)), told)
    BY <2>1, OneIsQuiet
  <2>3. Execute(s, Head(rest)) = ScheduleDmgIoWrite(s, Announced(a, v, 4))
    BY <1>1, ExecuteOne
  <2> QED
    BY <2>2, <2>3, Zenon DEF s, b
<1>6. RestIs(rest', 0, plain, told, R)
  BY <1>1, OneToCome
<1>7. Positive(R)
  BY PositiveOne
<1>8. Shaped(rest', plain)
  BY <1>1 DEF Shaped
<1> HIDE DEF R, told
<1> QED
  BY <1>4, <1>5, <1>6, <1>7, <1>8, ContinueQuietly

\* The M-cycle in which LD (nn),SP announces both bytes.
LEMMA StoreSpAnnounces ==
  ASSUME SlotsSuffice, ScheduleInv, TimedContinue, plain = FALSE,
         NEW a \in Addresses, NEW v \in Values, NEW c \in Addresses, NEW w \in Values, c = a + 1,
         rest = <<Announcing(<<Announced(a, v, 4), Announced(c, w, 8)>>), Writing(a, v), Writing(c, w)>>
  PROVE  ScheduleInv' /\ Registers!EndMCycle
<1> DEFINE q == <<Announced(a, v, 4), Announced(c, w, 8)>>
           told == {Turn(a, v, 1), Turn(c, w, 2)}
           R == {ToCome(a, v, 4, FALSE), ToCome(c, w, 8, FALSE)}
           b == TRUE
<1>1. /\ timed_dot = 4 /\ b \in BOOLEAN
      /\ Head(rest) = Announcing(q) /\ rest' = <<Writing(a, v), Writing(c, w)>>
  BY DEF TimedContinue, RunMCycle
<1>2. RestIs(rest, timed_dot, plain, {}, {ToCome(a, v, 8 - timed_dot, FALSE), ToCome(c, w, 12 - timed_dot, FALSE)})
  <2> DEFINE d == timed_dot
  <2>1. d \in Int
    BY <1>1
  <2> HIDE DEF d, q
  <2>2. RestIs(<<Announcing(q), Writing(a, v), Writing(c, w)>>, d, FALSE, {},
               {ToCome(a, v, 8 - d, FALSE), ToCome(c, w, 12 - d, FALSE)})
    BY <2>1, StoreSpLeft
  <2> QED
    BY <2>2 DEF d, q
<1> HIDE DEF b
<1>3. IsReady(Ready(b), b, {}) /\ Due = {ToCome(a, v, 8 - timed_dot, FALSE), ToCome(c, w, 12 - timed_dot, FALSE)}
  BY <1>1, <1>2, ReadyToAnnounce
<1>4. Due = R
  <2>1. 8 - timed_dot = 4 /\ 12 - timed_dot = 8
    BY <1>1
  <2> QED
    BY <1>3, <2>1, Zenon
<1>5. Quiet(Execute(Ready(TRUE), Head(rest)), told)
  <2> DEFINE s == Ready(b)
             f == ScheduleDmgIoWrite(ScheduleDmgIoWrite(s, Announced(a, v, 4)), Announced(c, w, 8))
  <2>1. IsReady(s, TRUE, {})
    BY <1>3 DEF b
  <2>2. a # c
    BY DEF SlotsSuffice
  <2> HIDE DEF s
  <2>3. Quiet(f, told)
    BY <2>1, <2>2, TwoAreQuiet
  <2>4. Execute(s, Head(rest)) = f
    BY <1>1, ExecuteTwo
  <2> QED
    BY <2>3, <2>4, Zenon DEF s, b
<1>6. RestIs(rest', 0, plain, told, R)
  BY <1>1, TwoToCome
<1>7. Positive(R)
  BY PositiveTwo
<1>8. Shaped(rest', plain)
  BY <1>1 DEF Shaped
<1> HIDE DEF R, told
<1> QED
  BY <1>4, <1>5, <1>6, <1>7, <1>8, ContinueQuietly

\* The M-cycle in which PUSH announces its first byte.
LEMMA PushAnnounces ==
  ASSUME SlotsSuffice, ScheduleInv, TimedContinue, plain = FALSE,
         NEW a \in Addresses, NEW v \in Values, NEW c \in Addresses, NEW w \in Values, c = a - 1,
         rest = <<Announcing(<<Announced(a, v, 4)>>), Between(a, v, c, w), Writing(c, w)>>
  PROVE  ScheduleInv' /\ Registers!EndMCycle
<1> DEFINE q == <<Announced(a, v, 4)>>
           told == {Turn(a, v, 1)}
           R == {ToCome(a, v, 4, FALSE), ToCome(c, w, 8, FALSE)}
           b == TRUE
<1>1. /\ timed_dot = 4 /\ b \in BOOLEAN
      /\ Head(rest) = Announcing(q) /\ rest' = <<Between(a, v, c, w), Writing(c, w)>>
  BY DEF TimedContinue, RunMCycle
<1>2. RestIs(rest, timed_dot, plain, {}, {ToCome(a, v, 8 - timed_dot, FALSE), ToCome(c, w, 12 - timed_dot, FALSE)})
  <2> DEFINE d == timed_dot
  <2>1. d \in Int
    BY <1>1
  <2> HIDE DEF d, q
  <2>2. RestIs(<<Announcing(q), Between(a, v, c, w), Writing(c, w)>>, d, FALSE, {},
               {ToCome(a, v, 8 - d, FALSE), ToCome(c, w, 12 - d, FALSE)})
    BY <2>1, PushLeft
  <2> QED
    BY <2>2 DEF d, q
<1> HIDE DEF b
<1>3. IsReady(Ready(b), b, {}) /\ Due = {ToCome(a, v, 8 - timed_dot, FALSE), ToCome(c, w, 12 - timed_dot, FALSE)}
  BY <1>1, <1>2, ReadyToAnnounce
<1>4. Due = R
  <2>1. 8 - timed_dot = 4 /\ 12 - timed_dot = 8
    BY <1>1
  <2> QED
    BY <1>3, <2>1, Zenon
<1>5. Quiet(Execute(Ready(TRUE), Head(rest)), told)
  <2> DEFINE s == Ready(b)
  <2>1. IsReady(s, TRUE, {})
    BY <1>3 DEF b
  <2> HIDE DEF s
  <2>2. Quiet(ScheduleDmgIoWrite(s, Announced(a, v, 4)), told)
    BY <2>1, OneIsQuiet
  <2>3. Execute(s, Head(rest)) = ScheduleDmgIoWrite(s, Announced(a, v, 4))
    BY <1>1, ExecuteOne
  <2> QED
    BY <2>2, <2>3, Zenon DEF s, b
<1>6. RestIs(rest', 0, plain, told, R)
  BY <1>1, PushTailToCome
<1>7. Positive(R)
  BY PositiveTwo
<1>8. Shaped(rest', plain)
  BY <1>1 DEF Shaped, Between
<1> HIDE DEF R, told
<1> QED
  BY <1>4, <1>5, <1>6, <1>7, <1>8, ContinueQuietly

\* Every M-cycle after the first keeps the invariant and is one of module BusWrites.
LEMMA ContinueKeeps ==
  ASSUME SlotsSuffice, ScheduleInv, TimedContinue
  PROVE  ScheduleInv' /\ Registers!EndMCycle
<1>1. Shaped(rest, plain) /\ plain \in BOOLEAN /\ rest # <<>>
  BY DEF ScheduleInv, TimedContinue
<1>2. ASSUME NEW a \in Addresses, NEW v \in Values, rest = <<Writing(a, v)>>
      PROVE  ScheduleInv' /\ Registers!EndMCycle
  BY <1>2, LastByte
<1>3. ASSUME plain = FALSE, NEW a \in Addresses, NEW v \in Values, rest = StoreAtFetch(a, v)
      PROVE  ScheduleInv' /\ Registers!EndMCycle
  BY <1>3, StoreAnnounces
<1>4. ASSUME plain = FALSE, NEW a \in Addresses, NEW v \in Values, NEW c \in Addresses, NEW w \in Values,
             c = a + 1,
             rest = <<Announcing(<<Announced(a, v, 4), Announced(c, w, 8)>>), Writing(a, v), Writing(c, w)>>
      PROVE  ScheduleInv' /\ Registers!EndMCycle
  BY <1>4, StoreSpAnnounces
<1>5. ASSUME plain = FALSE, NEW a \in Addresses, NEW v \in Values, NEW c \in Addresses, NEW w \in Values,
             c = a + 1, rest = <<Writing(a, v), Writing(c, w)>>
      PROVE  ScheduleInv' /\ Registers!EndMCycle
  <2>1. a # c /\ (a = IF_ => c \notin Timely)
    BY <1>5 DEF SlotsSuffice, IF_, Timely, LCDC, SCY, SCX, Palettes
  <2> QED
    BY <1>5, <2>1, FirstOfTwoBytes
<1>6. ASSUME plain = FALSE, NEW a \in Addresses, NEW v \in Values, NEW c \in Addresses, NEW w \in Values,
             c = a - 1,
             rest = <<Announcing(<<Announced(a, v, 4)>>), Between(a, v, c, w), Writing(c, w)>>
      PROVE  ScheduleInv' /\ Registers!EndMCycle
  BY <1>6, PushAnnounces
<1>7. ASSUME plain = FALSE, NEW a \in Addresses, NEW v \in Values, NEW c \in Addresses, NEW w \in Values,
             c = a - 1, rest = <<Between(a, v, c, w), Writing(c, w)>>
      PROVE  ScheduleInv' /\ Registers!EndMCycle
  <2>1. a # c /\ (a = IF_ => c \notin Timely)
    BY <1>7 DEF SlotsSuffice, IF_, Timely, LCDC, SCY, SCX, Palettes
  <2> QED
    BY <1>7, <2>1, BetweenBytes
<1>8. ~plain => plain = FALSE
  BY <1>1
<1>9. CASE \E a \in Addresses, v \in Values :
             rest = <<Writing(a, v)>> \/ (~plain /\ rest = StoreAtFetch(a, v))
  BY <1>2, <1>3, <1>8, <1>9, Zenon
<1>10. CASE ~plain /\ \E a, b \in Addresses, v, w \in Values :
             \/ /\ b = a + 1
                /\ \/ rest = <<Announcing(<<Announced(a, v, 4), Announced(b, w, 8)>>),
                               Writing(a, v), Writing(b, w)>>
                   \/ rest = <<Writing(a, v), Writing(b, w)>>
             \/ /\ b = a - 1
                /\ \/ rest = <<Announcing(<<Announced(a, v, 4)>>), Between(a, v, b, w), Writing(b, w)>>
                   \/ rest = <<Between(a, v, b, w), Writing(b, w)>>
  <2>1. PICK a \in Addresses, b \in Addresses, v \in Values, w \in Values :
          \/ /\ b = a + 1
             /\ \/ rest = <<Announcing(<<Announced(a, v, 4), Announced(b, w, 8)>>),
                            Writing(a, v), Writing(b, w)>>
                \/ rest = <<Writing(a, v), Writing(b, w)>>
          \/ /\ b = a - 1
             /\ \/ rest = <<Announcing(<<Announced(a, v, 4)>>), Between(a, v, b, w), Writing(b, w)>>
                \/ rest = <<Between(a, v, b, w), Writing(b, w)>>
    BY <1>10, Zenon
  <2>2. plain = FALSE
    BY <1>8, <1>10
  <2> QED
    BY <1>4, <1>5, <1>6, <1>7, <2>1, <2>2, Zenon
<1> QED
  BY <1>1, <1>9, <1>10, Zenon DEF Shaped, Between

-----------------------------------------------------------------------------
(* The first M-cycle of an instruction. *)

\* An instruction that writes nothing.
LEMMA NothingBegins == Registers!Instruction({}) /\ Positive({})
BY DEF Registers!Instruction, Positive

\* An instruction that writes one byte.
LEMMA OneBegins ==
  ASSUME NEW a \in Addresses, NEW v \in Values, NEW l, l \in {4, 8}, NEW p \in BOOLEAN, p => l = 4
  PROVE  Registers!Instruction({ToCome(a, v, l, p)})
<1> DEFINE x == ToCome(a, v, l, p)
<1>1. x.address = a /\ x.value = v /\ x.left = l /\ x.plain = p
  BY DEF ToCome
<1> HIDE DEF x
<1>2. Registers!Instruction({x})
  BY <1>1 DEF Registers!Instruction
<1> QED
  BY <1>2 DEF x

\* An instruction that writes two bytes.
LEMMA TwoBegin ==
  ASSUME NEW a \in Addresses, NEW v \in Values, NEW b \in Addresses, NEW w \in Values
  PROVE  Registers!Instruction({ToCome(a, v, 8, FALSE), ToCome(b, w, 12, FALSE)})
<1> DEFINE x == ToCome(a, v, 8, FALSE)
           y == ToCome(b, w, 12, FALSE)
<1>1. /\ x.address = a /\ x.value = v /\ x.left = 8 /\ ~x.plain
      /\ y.address = b /\ y.value = w /\ y.left = 12 /\ ~y.plain
  BY DEF ToCome
<1> HIDE DEF x, y
<1>2. Registers!Instruction({x, y})
  BY <1>1 DEF Registers!Instruction
<1> QED
  BY <1>2 DEF x, y

\* The instructions, one by one.
LEMMA InstructionIs ==
  ASSUME SlotsSuffice, NEW cycles \in Instructions
  PROVE  \/ cycles = <<NoAccess>>
         \/ \E a \in Addresses, v \in Values : cycles = StoreAtFetch(a, v) \/ cycles = StoreLater(a, v)
         \/ \E a, b \in Addresses, v, w \in Values :
              (b = a + 1 /\ cycles = StoreSp(a, v, w)) \/ (b = a - 1 /\ cycles = Push(a, v, w))
<1> DEFINE A == {<<NoAccess>>}
           B == (UNION {UNION {{StoreAtFetch(a, v), StoreLater(a, v)} : v \in ValuesOf(a)} : a \in Addresses})
           C == (UNION {{StoreSp(a, v, w) : v \in ValuesOf(a), w \in ValuesOf(a + 1)} :
                          a \in {x \in Addresses : x + 1 \in Addresses}})
           D == (UNION {{Push(a, v, w) : v \in ValuesOf(a), w \in ValuesOf(a - 1)} :
                          a \in {x \in Addresses : x - 1 \in Addresses}})
<1>1. \A a : ValuesOf(a) \subseteq Values
  BY DEF ValuesOf, SlotsSuffice
<1>2. CASE cycles \in A
  BY <1>2
<1>3. CASE cycles \in B
  BY <1>1, <1>3
<1>4. CASE cycles \in C
  <2>1. PICK a \in Addresses : /\ a + 1 \in Addresses
                               /\ cycles \in {StoreSp(a, v, w) : v \in ValuesOf(a), w \in ValuesOf(a + 1)}
    BY <1>4
  <2>2. PICK v \in ValuesOf(a), w \in ValuesOf(a + 1) : cycles = StoreSp(a, v, w)
    BY <2>1
  <2>3. v \in Values /\ w \in Values
    BY <1>1
  <2> DEFINE c == a + 1
  <2>4. c \in Addresses /\ c = a + 1
    BY <2>1
  <2> HIDE DEF c
  <2> QED
    BY <2>2, <2>3, <2>4
<1>5. CASE cycles \in D
  <2>1. PICK a \in Addresses : /\ a - 1 \in Addresses
                               /\ cycles \in {Push(a, v, w) : v \in ValuesOf(a), w \in ValuesOf(a - 1)}
    BY <1>5
  <2>2. PICK v \in ValuesOf(a), w \in ValuesOf(a - 1) : cycles = Push(a, v, w)
    BY <2>1
  <2>3. v \in Values /\ w \in Values
    BY <1>1
  <2> DEFINE c == a - 1
  <2>4. c \in Addresses /\ c = a - 1
    BY <2>1
  <2> HIDE DEF c
  <2> QED
    BY <2>2, <2>3, <2>4
<1>6. Instructions = A \union B \union C \union D
  BY DEF Instructions
<1>7. cycles \in A \/ cycles \in B \/ cycles \in C \/ cycles \in D
  <2> HIDE DEF A, B, C, D
  <2> QED
    BY <1>6
<1> HIDE DEF A, B, C, D
<1> QED
  BY <1>2, <1>3, <1>4, <1>5, <1>7, Zenon

\* Most instructions begin with an M-cycle that leaves the bus alone.
LEMMA IdleBegins ==
  ASSUME SlotsSuffice, ScheduleInv, rest = <<>>, NEW b \in BOOLEAN, NEW cycles, RunMCycle(cycles, b),
         plain' = FALSE, Head(cycles) = NoAccess,
         NEW R, Positive(R), Registers!Instruction(R),
         RestIs(rest', 0, FALSE, {}, R), Shaped(rest', FALSE)
  PROVE  ScheduleInv' /\ Registers!EndMCycle
<1> DEFINE s == Ready(b)
           none == {}
<1>1. RestIs(rest, timed_dot, plain, {}, {})
  BY NothingLeft
<1>2. timed_dot = 4
  BY DEF RunMCycle
<1>3. IsReady(s, b, {})
  BY <1>1, <1>2, ReadyToAnnounce
<1>4. Quiet(s, {})
  BY <1>3, ReadyIsQuiet
<1>5. Execute(s, Head(cycles)) = s
  BY ExecuteNothing DEF NoAccess
<1>6. Quiet(Execute(Ready(b), Head(cycles)), none)
  BY <1>4, <1>5, Zenon DEF s
<1>7. /\ plain' \in BOOLEAN /\ RestIs(rest', 0, plain', none, R) /\ Shaped(rest', plain')
  OBVIOUS
<1> HIDE DEF none, s
<1> QED
  BY <1>6, <1>7, BeginQuietly

\* A store in the M-cycle after the fetch is announced, unless the CPU was halted.
LEMMA StoreBegins ==
  ASSUME SlotsSuffice, ScheduleInv, rest = <<>>, NEW b \in BOOLEAN, NEW cycles, RunMCycle(cycles, b),
         plain' = ~b, NEW a \in Addresses, NEW v \in Values, cycles = StoreAtFetch(a, v)
  PROVE  ScheduleInv' /\ Registers!EndMCycle
<1> DEFINE s == Ready(b)
           p == ~b
           R == {ToCome(a, v, 4, p)}
           told == IF p THEN {} ELSE {Turn(a, v, 1)}
<1>1. RestIs(rest, timed_dot, plain, {}, {})
  BY NothingLeft
<1>2. /\ timed_dot = 4 /\ rest' = <<Writing(a, v)>>
      /\ Head(cycles) = Announcing(<<Announced(a, v, 4)>>)
  BY DEF RunMCycle, StoreAtFetch
<1>3. IsReady(s, b, {})
  BY <1>1, <1>2, ReadyToAnnounce
<1>4. Execute(s, Head(cycles)) = ScheduleDmgIoWrite(s, Announced(a, v, 4))
  BY <1>2, ExecuteOne
<1>5. Quiet(ScheduleDmgIoWrite(s, Announced(a, v, 4)), told)
  <2>1. CASE b = TRUE
    <3>1. told = {Turn(a, v, 1)}
      BY <2>1
    <3> HIDE DEF told, s
    <3>2. IsReady(s, TRUE, {})
      BY <1>3, <2>1
    <3>3. Quiet(ScheduleDmgIoWrite(s, Announced(a, v, 4)), {Turn(a, v, 1)})
      BY <3>2, OneIsQuiet
    <3> QED
      BY <3>1, <3>3
  <2>2. CASE b = FALSE
    <3>1. told = {}
      BY <2>2
    <3> HIDE DEF told, s
    <3>2. Quiet(s, {})
      BY <1>3, ReadyIsQuiet
    <3>3. s.scheduling = FALSE
      BY <1>3, <2>2 DEF IsReady
    <3>4. ScheduleDmgIoWrite(s, Announced(a, v, 4)) = s
      BY <3>3, NothingAnnounced
    <3> QED
      BY <3>1, <3>2, <3>4
  <2> QED
    BY <2>1, <2>2
<1>6. Quiet(Execute(Ready(b), Head(cycles)), told)
  BY <1>4, <1>5, Zenon DEF s
<1>7. RestIs(<<Writing(a, v)>>, 0, p, told, R)
  <2>1. CASE b = TRUE
    <3>1. p = FALSE /\ told = {Turn(a, v, 1)} /\ R = {ToCome(a, v, 4, FALSE)}
      BY <2>1
    <3> HIDE DEF p, told, R
    <3> QED
      BY <3>1, OneToCome
  <2>2. CASE b = FALSE
    <3>1. p = TRUE /\ told = {} /\ R = {ToCome(a, v, 4, TRUE)}
      BY <2>2
    <3> HIDE DEF p, told, R
    <3> QED
      BY <3>1, OneToComePlain
  <2> QED
    BY <2>1, <2>2
<1>8. plain' = p /\ p \in BOOLEAN
  OBVIOUS
<1> HIDE DEF p
<1>9. Positive(R)
  BY PositiveOne
<1>10. Registers!Instruction(R)
  <2> DEFINE l == 4
  <2>1. l \in {4, 8} /\ (p => l = 4)
    OBVIOUS
  <2> HIDE DEF l
  <2>2. Registers!Instruction({ToCome(a, v, l, p)})
    BY <1>8, <2>1, OneBegins
  <2> QED
    BY <2>2 DEF l
<1>11. Shaped(rest', plain')
  BY <1>2 DEF Shaped
<1>12. RestIs(rest', 0, plain', told, R) /\ plain' \in BOOLEAN
  BY <1>2, <1>7, <1>8
<1> HIDE DEF R, told, s
<1> QED
  BY <1>6, <1>9, <1>10, <1>11, <1>12, BeginQuietly

\* A sequence of three from one of one and one of two.
LEMMA IdleBefore ==
  ASSUME NEW x, NEW y, NEW z
  PROVE  <<x>> \o <<y, z>> = <<x, y, z>>
<1> DEFINE S == {x, y, z}
           s == <<x>> \o <<y, z>>
           t == <<x, y, z>>
<1>1. <<x>> \in Seq(S) /\ <<y, z>> \in Seq(S) /\ t \in Seq(S)
  OBVIOUS
<1>2. s \in Seq(S) /\ Len(s) = 3 /\ s[1] = x /\ s[2] = y /\ s[3] = z
  BY <1>1
<1>3. Len(t) = 3 /\ t[1] = x /\ t[2] = y /\ t[3] = z
  OBVIOUS
<1>4. \A i \in 1 .. 3 : s[i] = t[i]
  BY <1>2, <1>3
<1> HIDE DEF s, t, S
<1>5. s = t
  <2>1. s = [i \in 1 .. 3 |-> s[i]]
    BY <1>2
  <2>2. t = [i \in 1 .. 3 |-> t[i]]
    BY <1>1, <1>3
  <2> QED
    BY <1>4, <2>1, <2>2
<1> QED
  BY <1>5 DEF s, t

\* Every instruction begins well, with the CPU halted before or not.
LEMMA InstructionBeginsWell ==
  ASSUME SlotsSuffice, ScheduleInv, rest = <<>>, NEW b \in BOOLEAN, NEW cycles \in Instructions,
         RunMCycle(cycles, b),
         plain' = (~b /\ Head(cycles).announce # <<>>)
  PROVE  ScheduleInv' /\ Registers!EndMCycle
<1>1. rest' = Tail(cycles)
  BY DEF RunMCycle
<1>2. NoAccess.announce = <<>>
  BY DEF NoAccess, Announcing
<1>3. CASE cycles = <<NoAccess>>
  <2> DEFINE R == {}
  <2>0. Head(cycles) = NoAccess /\ Tail(cycles) = <<>>
    BY <1>3
  <2>1. rest' = <<>> /\ Head(cycles) = NoAccess /\ plain' = FALSE
    BY <1>1, <1>2, <2>0
  <2>2. RestIs(rest', 0, FALSE, {}, R)
    BY <2>1, NothingLeft
  <2>3. Shaped(rest', FALSE)
    BY <2>1 DEF Shaped
  <2>4. Positive(R) /\ Registers!Instruction(R)
    BY NothingBegins
  <2> HIDE DEF R
  <2> QED
    BY <2>1, <2>2, <2>3, <2>4, IdleBegins
<1>4. ASSUME NEW a \in Addresses, NEW v \in Values, cycles = StoreAtFetch(a, v)
      PROVE  ScheduleInv' /\ Registers!EndMCycle
  <2>1. Head(cycles).announce # <<>>
    BY <1>4 DEF StoreAtFetch, Announcing
  <2>2. plain' = ~b
    BY <2>1
  <2> QED
    BY <1>4, <2>2, StoreBegins
<1>5. ASSUME NEW a \in Addresses, NEW v \in Values, cycles = StoreLater(a, v)
      PROVE  ScheduleInv' /\ Registers!EndMCycle
  <2> DEFINE R == {ToCome(a, v, 8, FALSE)}
  <2>1. cycles = <<NoAccess, Announcing(<<Announced(a, v, 4)>>), Writing(a, v)>>
    BY <1>5, IdleBefore DEF StoreLater, StoreAtFetch
  <2>2. Head(cycles) = NoAccess /\ rest' = StoreAtFetch(a, v)
    BY <1>1, <2>1 DEF StoreAtFetch
  <2>3. plain' = FALSE
    BY <1>2, <2>2
  <2>4. RestIs(rest', 0, FALSE, {}, R)
    BY <2>2, StoreToCome
  <2>5. Shaped(rest', FALSE)
    BY <2>2 DEF Shaped
  <2>6. Positive(R)
    BY PositiveOne
  <2>7. Registers!Instruction(R)
    <3> DEFINE l == 8
               p == FALSE
    <3>1. l \in {4, 8} /\ p \in BOOLEAN /\ (p => l = 4)
      OBVIOUS
    <3> HIDE DEF l, p
    <3>2. Registers!Instruction({ToCome(a, v, l, p)})
      BY <3>1, OneBegins
    <3> QED
      BY <3>2 DEF l, p
  <2> HIDE DEF R
  <2> QED
    BY <2>2, <2>3, <2>4, <2>5, <2>6, <2>7, IdleBegins
<1>6. ASSUME NEW a \in Addresses, NEW v \in Values, NEW c \in Addresses, NEW w \in Values,
             c = a + 1, cycles = StoreSp(a, v, w)
      PROVE  ScheduleInv' /\ Registers!EndMCycle
  <2> DEFINE R == {ToCome(a, v, 8, FALSE), ToCome(c, w, 12, FALSE)}
             q == <<Announced(a, v, 4), Announced(c, w, 8)>>
  <2>1. cycles = <<NoAccess, Announcing(q), Writing(a, v), Writing(c, w)>>
    BY <1>6 DEF StoreSp
  <2>2. Head(cycles) = NoAccess /\ rest' = <<Announcing(q), Writing(a, v), Writing(c, w)>>
    BY <1>1, <2>1
  <2>3. plain' = FALSE
    BY <1>2, <2>2
  <2>4. RestIs(rest', 0, FALSE, {}, R)
    <3> HIDE DEF q
    <3> QED
      BY <2>2, StoreSpToCome
  <2>5. Shaped(rest', FALSE)
    BY <1>6, <2>2 DEF Shaped
  <2>6. Positive(R)
    BY PositiveTwo
  <2>7. Registers!Instruction(R)
    BY TwoBegin
  <2> HIDE DEF R
  <2> QED
    BY <2>2, <2>3, <2>4, <2>5, <2>6, <2>7, IdleBegins
<1>7. ASSUME NEW a \in Addresses, NEW v \in Values, NEW c \in Addresses, NEW w \in Values,
             c = a - 1, cycles = Push(a, v, w)
      PROVE  ScheduleInv' /\ Registers!EndMCycle
  <2> DEFINE R == {ToCome(a, v, 8, FALSE), ToCome(c, w, 12, FALSE)}
             q == <<Announced(a, v, 4)>>
  <2>1. cycles = <<NoAccess, Announcing(q), Between(a, v, c, w), Writing(c, w)>>
    BY <1>7 DEF Push, Between
  <2>2. Head(cycles) = NoAccess /\ rest' = <<Announcing(q), Between(a, v, c, w), Writing(c, w)>>
    BY <1>1, <2>1
  <2>3. plain' = FALSE
    BY <1>2, <2>2
  <2>4. RestIs(rest', 0, FALSE, {}, R)
    <3> HIDE DEF q
    <3> QED
      BY <2>2, PushToCome
  <2>5. Shaped(rest', FALSE)
    BY <1>7, <2>2 DEF Shaped, Between
  <2>6. Positive(R)
    BY PositiveTwo
  <2>7. Registers!Instruction(R)
    BY TwoBegin
  <2> HIDE DEF R
  <2> QED
    BY <2>2, <2>3, <2>4, <2>5, <2>6, <2>7, IdleBegins
<1>8. CASE \E a \in Addresses, v \in Values : cycles = StoreAtFetch(a, v) \/ cycles = StoreLater(a, v)
  BY <1>4, <1>5, <1>8, Zenon
<1>9. CASE \E a, c \in Addresses, v, w \in Values :
             (c = a + 1 /\ cycles = StoreSp(a, v, w)) \/ (c = a - 1 /\ cycles = Push(a, v, w))
  <2>1. PICK a \in Addresses, c \in Addresses, v \in Values, w \in Values :
          (c = a + 1 /\ cycles = StoreSp(a, v, w)) \/ (c = a - 1 /\ cycles = Push(a, v, w))
    BY <1>9, Zenon
  <2> QED
    BY <1>6, <1>7, <2>1, Zenon
<1>10. \/ cycles = <<NoAccess>>
       \/ \E a \in Addresses, v \in Values : cycles = StoreAtFetch(a, v) \/ cycles = StoreLater(a, v)
       \/ \E a, c \in Addresses, v, w \in Values :
            (c = a + 1 /\ cycles = StoreSp(a, v, w)) \/ (c = a - 1 /\ cycles = Push(a, v, w))
  BY InstructionIs
<1> QED
  BY <1>3, <1>8, <1>9, <1>10, Zenon

\* The first M-cycle of an instruction.
LEMMA FetchKeeps ==
  ASSUME SlotsSuffice, ScheduleInv, TimedFetch
  PROVE  ScheduleInv' /\ Registers!EndMCycle
<1> DEFINE b == TRUE
<1>1. PICK cycles \in Instructions : RunMCycle(cycles, b)
  BY DEF TimedFetch
<1>2. rest = <<>> /\ plain' = FALSE /\ b \in BOOLEAN
  BY DEF TimedFetch
<1>3. plain' = (~b /\ Head(cycles).announce # <<>>)
  BY <1>2
<1> HIDE DEF b
<1> QED
  BY <1>1, <1>2, <1>3, InstructionBeginsWell

\* The first M-cycle of an instruction after HALT.
LEMMA FetchAfterHaltKeeps ==
  ASSUME SlotsSuffice, ScheduleInv, FetchAfterHalt
  PROVE  ScheduleInv' /\ Registers!EndMCycle
<1> DEFINE b == FALSE
<1>1. PICK cycles \in Instructions : RunMCycle(cycles, b) /\ plain' = (Head(cycles).announce # <<>>)
  BY DEF FetchAfterHalt
<1>2. rest = <<>> /\ b \in BOOLEAN
  BY DEF FetchAfterHalt
<1>3. plain' = (~b /\ Head(cycles).announce # <<>>)
  BY <1>1
<1> HIDE DEF b
<1> QED
  BY <1>1, <1>2, <1>3, InstructionBeginsWell

-----------------------------------------------------------------------------
(* Dots. *)

Past(w) == [w EXCEPT !.left = @ - 1]

\* A dot brings a write one dot closer.
LEMMA PastIs ==
  ASSUME NEW a, NEW v, NEW l \in Int, NEW p
  PROVE  Past(ToCome(a, v, l, p)) = ToCome(a, v, l - 1, p)
BY DEF Past, ToCome

\* What is left of an instruction has a length.
LEMMA ShapedLength ==
  ASSUME NEW r, NEW p, Shaped(r, p)
  PROVE  Len(r) \in Nat
<1>1. CASE r = <<>>
  BY <1>1
<1>2. CASE \E a \in Addresses, v \in Values : r = <<Writing(a, v)>> \/ (~p /\ r = StoreAtFetch(a, v))
  BY <1>2 DEF StoreAtFetch
<1>3. CASE \E A, B, C : r = <<A, B, C>> \/ r = <<A, B>>
  BY <1>3
<1> QED
  BY <1>1, <1>2, <1>3, ZenonT(60) DEF Shaped

\* The writes to come, one by one.
LEMMA PendingOne ==
  ASSUME NEW r, Len(r) \in Nat, NEW d \in Int, NEW p, NEW y \in StillDue(r, d, p)
  PROVE  \E k \in 1 .. Len(r) :
           /\ r[k].write # <<>>
           /\ y = ToCome(r[k].write[1].address, r[k].write[1].value, (4 * k) - d, p)
BY DEF StillDue, ToCome

\* Every M-cycle that writes has a write to come.
LEMMA OnePending ==
  ASSUME NEW r, Len(r) \in Nat, NEW d \in Int, NEW p, NEW k \in 1 .. Len(r), r[k].write # <<>>
  PROVE  ToCome(r[k].write[1].address, r[k].write[1].value, (4 * k) - d, p) \in StillDue(r, d, p)
BY DEF StillDue, ToCome

\* A dot brings the writes to come one dot closer, and passes none of them.
LEMMA PendingPasses ==
  ASSUME NEW r, Len(r) \in Nat, NEW d, d \in 0 .. 3, NEW p
  PROVE  /\ \A y \in StillDue(r, d, p) : Past(y) \in StillDue(r, d + 1, p)
         /\ \A z \in StillDue(r, d + 1, p) : z.left >= 0 /\ \E y \in StillDue(r, d, p) : z = Past(y)
<1> DEFINE e == d + 1
<1>1. d \in Int /\ e \in Int
  OBVIOUS
<1>2. \A k \in 1 .. Len(r) : ((4 * k) - d) - 1 = (4 * k) - e /\ (4 * k) - e >= 0 /\ (4 * k) - d \in Int
  OBVIOUS
<1> HIDE DEF e
<1> DEFINE entry(k, x) == ToCome(r[k].write[1].address, r[k].write[1].value, (4 * k) - x, p)
<1>3. \A k \in 1 .. Len(r) : Past(entry(k, d)) = entry(k, e)
  BY <1>2, PastIs
<1>4. \A k \in 1 .. Len(r) : entry(k, e).left >= 0
  BY <1>2 DEF ToCome
<1>5. ASSUME NEW y \in StillDue(r, d, p)  PROVE Past(y) \in StillDue(r, e, p)
  <2>1. PICK k \in 1 .. Len(r) : r[k].write # <<>> /\ y = entry(k, d)
    BY <1>1, PendingOne
  <2>2. entry(k, e) \in StillDue(r, e, p)
    BY <1>1, <2>1, OnePending
  <2> HIDE DEF entry
  <2> QED
    BY <1>3, <2>1, <2>2
<1>6. ASSUME NEW z \in StillDue(r, e, p)
      PROVE  z.left >= 0 /\ \E y \in StillDue(r, d, p) : z = Past(y)
  <2>1. PICK k \in 1 .. Len(r) : r[k].write # <<>> /\ z = entry(k, e)
    BY <1>1, PendingOne
  <2>2. entry(k, d) \in StillDue(r, d, p)
    BY <1>1, <2>1, OnePending
  <2> HIDE DEF entry
  <2> QED
    BY <1>3, <1>4, <2>1, <2>2
<1> QED
  BY <1>5, <1>6 DEF e

\* A told write is to come.
LEMMA ToldIsPending ==
  ASSUME NEW r, Len(r) \in Nat, NEW d \in Int, NEW p \in BOOLEAN, NEW w \in Told(r, p)
  PROVE  p = FALSE /\ ToCome(w.address, w.value, (4 * w.turn) - d, p) \in StillDue(r, d, p)
<1>1. PICK k \in 1 .. Len(r) : /\ ~p /\ r[k].write # <<>>
                               /\ w = Turn(r[k].write[1].address, r[k].write[1].value, k)
  BY DEF Told
<1>2. w.address = r[k].write[1].address /\ w.value = r[k].write[1].value /\ w.turn = k
  BY <1>1 DEF Turn
<1>3. ToCome(r[k].write[1].address, r[k].write[1].value, (4 * k) - d, p) \in StillDue(r, d, p)
  BY <1>1, OnePending
<1> QED
  BY <1>1, <1>2, <1>3

\* A write is told before the dots in which its register may change.
LEMMA SoonIsTold ==
  ASSUME NEW r, Len(r) \in Nat, NEW d, d \in 0 .. 3, NEW p, ~p,
         NEW y \in StillDue(r, d, p), y.left <= 3
  PROVE  Turn(y.address, y.value, 1) \in Told(r, p) /\ y.left = 4 - d
<1>1. PICK k \in 1 .. Len(r) :
           /\ r[k].write # <<>>
           /\ y = ToCome(r[k].write[1].address, r[k].write[1].value, (4 * k) - d, p)
  <2>1. d \in Int
    OBVIOUS
  <2> QED
    BY <2>1, PendingOne
<1>2. /\ y.address = r[k].write[1].address /\ y.value = r[k].write[1].value
      /\ y.left = (4 * k) - d
  BY <1>1 DEF ToCome
<1>3. k = 1
  BY <1>2
<1>4. 1 \in {j \in 1 .. Len(r) : /\ ~p /\ r[j].write # <<>> /\ r[1].write # <<>>
                                 /\ j = 1 \/ r[1].announce = <<>>}
  BY <1>1, <1>3
<1>5. Turn(r[1].write[1].address, r[1].write[1].value, 1) \in Told(r, p)
  BY <1>4 DEF Told
<1> QED
  BY <1>2, <1>3, <1>5

\* A dot keeps the invariant, and leaves no write of IF behind.
LEMMA DotKeeps ==
  ASSUME SlotsSuffice, ScheduleInv, TimedDot
  PROVE  /\ ScheduleInv' /\ Due' = StillDue(rest, timed_dot + 1, plain)
         /\ io' = TickScheduledWrites(State).io
<1> DEFINE t == TickScheduledWrites(State)
           told == Told(rest, plain)
           e == timed_dot + 1
           s == State
<1>1. /\ s \in BusState /\ bus.scheduling = FALSE /\ bus.asserted = TRUE
      /\ plain \in BOOLEAN /\ watched \in Addresses /\ Shaped(rest, plain)
      /\ SlotsKept(s, told, timed_dot, watched) /\ AnnouncedAreTold(s, told)
  BY Zenon DEF ScheduleInv, Kept
<1>2. /\ timed_dot \in 0 .. 3 /\ e \in 1 .. 4 /\ timed_dot' = e /\ Becomes(t)
      /\ rest' = rest /\ plain' = plain /\ watched' = watched
  BY DEF TimedDot, ScheduleInv
<1>3. ToldOK(told)
  BY <1>1, ShapedTold
<1>4. s.scheduling = FALSE /\ s.asserted = TRUE
  BY <1>1 DEF State
<1> HIDE DEF s, told
<1> DEFINE u == TickScheduledWrites(s)
<1>5. SlotsKept(u, told, timed_dot + 1, watched)
  BY <1>1, <1>2, <1>3, TickKeeps
<1>6. SlotsDiffer(s)
  BY <1>1 DEF SlotsKept
<1>7. /\ u \in BusState /\ u.announced = s.announced
      /\ u.scheduling = s.scheduling /\ u.asserted = s.asserted
  BY <1>1, <1>6, TickFields
<1>8. t = u
  BY DEF s
<1> HIDE DEF t, u, e
<1>9. AnnouncedAreTold(u, told)
  BY <1>1, <1>7, SameAnnounced
<1>10. /\ State' = u /\ io' = u.io /\ bus'.scheduling = u.scheduling /\ bus'.asserted = u.asserted
  BY <1>2, <1>7, <1>8, BecomesIs
<1>11. SlotsKept(u, told, e, watched)
  BY <1>5 DEF e
<1>12. Kept(State', Told(rest', plain'), timed_dot', watched')
  BY <1>2, <1>9, <1>10, <1>11, Zenon DEF Kept, told
<1>13. State' \in BusState /\ bus'.scheduling = FALSE /\ bus'.asserted = TRUE
  BY <1>4, <1>7, <1>10
<1>14. timed_dot' \in 0 .. 4
  BY <1>2
<1>15. ScheduleInv'
  BY <1>1, <1>2, <1>12, <1>13, <1>14, Zenon DEF ScheduleInv
<1>16. NoneLate(u)
  <2> SUFFICES ASSUME NEW i \in 1 .. Slots, Busy(u, i)  PROVE u.timed_writes[i].address # IF_
    BY DEF NoneLate
  <2>1. ~IsLate(u.timed_writes[i], e)
    BY <1>2 DEF IsLate
  <2>2. PICK w \in told : /\ w.address \in Timely
                          /\ IsFinal(u.timed_writes[i], w, e) \/ IsBlend(u.timed_writes[i], w, e, u.io, watched)
    BY <1>11, <2>1 DEF SlotsKept, SlotsAreTold
  <2> QED
    BY <2>2 DEF IsFinal, IsBlend, Timely, IF_, LCDC, SCY, SCX, Palettes
<1>17. LateDue(u, plain) = {}
  BY <1>16, NoneLateDue
<1>18. Due' = StillDue(rest', timed_dot', plain') \union LateDue(State', plain')
  BY DueIsAfter
<1>19. Due' = StillDue(rest, e, plain)
  BY <1>2, <1>10, <1>17, <1>18
<1> QED
  BY <1>8, <1>10, <1>15, <1>19 DEF t, e

\* What a write to come does to its register in the dot that passes.
Landing(w) == w.left = Registers!Lead(w) /\ w.left # 0 /\ w.address = watched
BlendingNow(w) == w.left = 2 /\ Registers!Blends(w) /\ w.address = watched

\* A dot of module BusWrites, by its three cases.
LEMMA DotIs ==
  ASSUME timed_dot < 4, timed_dot' = timed_dot + 1, watched' = watched,
         NEW D, Due = D,
         NEW E, Due' = E, \A w \in D : Past(w).left >= 0 => Past(w) \in E,
         \A z \in E : z.left >= 0 /\ \E w \in D : z = Past(w),
         \/ \E w \in D : Landing(Past(w)) /\ io' = Past(w).value
         \/ \E w \in D : BlendingNow(Past(w)) /\ io' = Registers!Mixture(Past(w))
         \/ (\A w \in D : ~Landing(Past(w)) /\ ~BlendingNow(Past(w))) /\ io' = io
  PROVE  Registers!Dot
<1> DEFINE passed == {[w EXCEPT !.left = @ - 1] : w \in Due}
           landing == {w \in passed : w.left = Registers!Lead(w) /\ w.left # 0 /\ w.address = watched}
           blending == {w \in passed : w.left = 2 /\ Registers!Blends(w) /\ w.address = watched}
<1>1. passed = {Past(w) : w \in D}
  BY DEF Past
<1>2. Due' = {w \in passed : w.left >= 0}
  <2> HIDE DEF passed
  <2> QED
    BY <1>1
<1>3. landing = {w \in passed : Landing(w)}
  <2> HIDE DEF passed
  <2> QED
    BY DEF Landing
<1>4. blending = {w \in passed : BlendingNow(w)}
  <2> HIDE DEF passed
  <2> QED
    BY DEF BlendingNow
<1> HIDE DEF passed, landing, blending
<1>5. \/ \E w \in landing : Registers!Takes(w, w.value)
      \/ \E w \in blending : Registers!Takes(w, Registers!Mixture(w))
      \/ landing \union blending = {} /\ io' = io
  <2>1. CASE \E w \in D : Landing(Past(w)) /\ io' = Past(w).value
    <3>1. PICK w \in D : Landing(Past(w)) /\ io' = Past(w).value
      BY <2>1
    <3>2. Past(w) \in landing /\ Registers!Takes(Past(w), Past(w).value)
      BY <1>1, <1>3, <3>1 DEF Registers!Takes, Landing
    <3> QED
      BY <3>2
  <2>2. CASE \E w \in D : BlendingNow(Past(w)) /\ io' = Registers!Mixture(Past(w))
    <3>1. PICK w \in D : BlendingNow(Past(w)) /\ io' = Registers!Mixture(Past(w))
      BY <2>2
    <3>2. Past(w) \in blending /\ Registers!Takes(Past(w), Registers!Mixture(Past(w)))
      BY <1>1, <1>4, <3>1 DEF Registers!Takes, BlendingNow
    <3> QED
      BY <3>2
  <2>3. CASE (\A w \in D : ~Landing(Past(w)) /\ ~BlendingNow(Past(w))) /\ io' = io
    BY <1>1, <1>3, <1>4, <2>3
  <2> QED
    BY <2>1, <2>2, <2>3
<1> QED
  BY <1>2, <1>5, Zenon DEF Registers!Dot, passed, landing, blending

\* A slot that lands carries out a write that is due.
LEMMA LandingIsDue ==
  ASSUME SlotsSuffice, NEW s \in BusState, s.io = io, NEW r, NEW p \in BOOLEAN, Shaped(r, p),
         NEW d, d \in 0 .. 3, SlotsAreTold(s, Told(r, p), d, watched),
         NEW i \in 1 .. Slots, Lands(s, i)
  PROVE  \E y \in StillDue(r, d, p) \union LateDue(s, p) :
           \/ Landing(Past(y)) /\ Past(y).value = s.timed_writes[i].value
           \/ BlendingNow(Past(y)) /\ Registers!Mixture(Past(y)) = s.timed_writes[i].value
<1> DEFINE slot == s.timed_writes[i]
           told == Told(r, p)
<1>1. slot.dots_remaining = 1 /\ slot.address = watched /\ Busy(s, i)
  BY DEF Lands, Busy
<1>2. CASE IsLate(slot, d)
  <2> DEFINE y == ToCome(IF_, slot.value, 0, p)
             n == -1
  <2>1. slot.address = IF_
    BY <1>2 DEF IsLate
  <2>2. y \in LateDue(s, p)
    BY <1>1, <2>1 DEF LateDue, Busy
  <2>3. Past(y) = ToCome(IF_, slot.value, n, p)
    <3> DEFINE z == 0
    <3>1. z \in Int /\ z - 1 = n
      OBVIOUS
    <3> HIDE DEF z, slot, n
    <3>2. Past(ToCome(IF_, slot.value, z, p)) = ToCome(IF_, slot.value, z - 1, p)
      BY <3>1, PastIs
    <3> QED
      BY <3>1, <3>2, Zenon DEF z, y
  <2> HIDE DEF y, slot
  <2>4. /\ Past(y).address = IF_ /\ Past(y).value = slot.value /\ Past(y).left = n
        /\ Registers!Lead(Past(y)) = n
    <3> HIDE DEF n
    <3> DEFINE x == ToCome(IF_, slot.value, n, p)
    <3>1. x.address = IF_ /\ x.value = slot.value /\ x.left = n /\ x.plain = p
      BY DEF ToCome
    <3> HIDE DEF x
    <3>2. Registers!Lead(x) = -1
      BY <3>1 DEF Registers!Lead, IF_
    <3> QED
      BY <2>3, <3>1, <3>2 DEF x, n
  <2>5. Landing(Past(y))
    BY <1>1, <2>1, <2>4 DEF Landing
  <2> QED
    BY <2>2, <2>4, <2>5 DEF slot
<1>3. CASE ~IsLate(slot, d)
  <2>1. PICK w \in told : /\ w.address \in Timely
                          /\ IsFinal(slot, w, d) \/ IsBlend(slot, w, d, s.io, watched)
    BY <1>1, <1>3 DEF SlotsAreTold
  <2> DEFINE l == (4 * w.turn) - d
             y == ToCome(w.address, w.value, l, p)
  <2>2. ToldOK(told)
    BY ShapedTold
  <2>3. w.turn \in {1, 2} /\ l \in Int /\ l - 1 \in Int
    BY <2>2 DEF ToldOK
  <2>4. p = FALSE /\ y \in StillDue(r, d, p)
    <3>1. Len(r) \in Nat
      BY ShapedLength
    <3>2. d \in Int
      OBVIOUS
    <3> QED
      BY <3>1, <3>2, ToldIsPending
  <2>5. w.address # IF_ /\ Ahead(w.address) \in {1, 2}
    BY <2>1 DEF Timely, IF_, LCDC, SCY, SCX, Palettes, Ahead
  <2> HIDE DEF l, slot, told
  <2>6. Past(y) = ToCome(w.address, w.value, l - 1, p)
    BY <2>3, PastIs
  <2> DEFINE x == ToCome(w.address, w.value, l - 1, p)
  <2>7. x.address = w.address /\ x.value = w.value /\ x.left = l - 1 /\ x.plain = p
    BY DEF ToCome
  <2>8. Registers!Lead(x) = Ahead(w.address)
    <3>1. Registers!Lead(x) = IF w.address = IF_ THEN -1
                              ELSE IF p \/ w.address \notin Timely THEN 0 ELSE Ahead(w.address)
      BY LeadIs
    <3> HIDE DEF x
    <3> QED
      BY <2>1, <2>4, <2>5, <3>1
  <2>9. Registers!Blends(x) <=> Blending(w.address)
    <3>1. Registers!Blends(x) <=> ~p /\ Blending(w.address)
      BY LeadIs
    <3> HIDE DEF x
    <3> QED
      BY <2>4, <3>1
  <2> HIDE DEF x, y
  <2>10. CASE IsFinal(slot, w, d)
    <3>1. slot.address = w.address /\ slot.value = w.value /\ 1 = l - Ahead(w.address)
      BY <1>1, <2>10 DEF IsFinal, l
    <3>2. l - 1 = Ahead(w.address) /\ l - 1 # 0
      BY <2>3, <2>5, <3>1
    <3>3. Landing(x) /\ x.value = slot.value
      BY <1>1, <2>7, <2>8, <3>1, <3>2 DEF Landing
    <3> QED
      BY <2>4, <2>6, <3>3 DEF slot, x
  <2>11. CASE IsBlend(slot, w, d, s.io, watched)
    <3>1. /\ slot.address = w.address /\ Blending(w.address) /\ 1 = l - 2
          /\ slot.value = Mixed(io, w.address, w.value)
      BY <1>1, <2>11 DEF IsBlend, l
    <3>2. l - 1 = 2
      BY <2>3, <3>1
    <3>3. BlendingNow(x)
      BY <1>1, <2>7, <2>9, <3>1, <3>2 DEF BlendingNow
    <3>4. Registers!Mixture(x) = slot.value
      BY <2>7, <3>1 DEF Registers!Mixture, Mixed, LCDC
    <3> QED
      BY <2>4, <2>6, <3>3, <3>4 DEF slot, x
  <2> QED
    BY <2>1, <2>10, <2>11
<1> QED
  BY <1>2, <1>3

\* A write that is due in this dot has a slot that lands.
LEMMA DueLands ==
  ASSUME SlotsSuffice, NEW s \in BusState, NEW r, NEW p \in BOOLEAN, Shaped(r, p),
         NEW d, d \in 0 .. 3, SlotsKept(s, Told(r, p), d, watched),
         NEW y \in StillDue(r, d, p) \union LateDue(s, p),
         Landing(Past(y)) \/ BlendingNow(Past(y))
  PROVE  \E i \in 1 .. Slots : Lands(s, i)
<1> DEFINE told == Told(r, p)
<1>1. SlotsAreTold(s, told, d, watched) /\ ToldHaveSlots(s, told, d, watched)
  BY DEF SlotsKept
<1>2. CASE y \in LateDue(s, p)
  <2>1. PICK i \in 1 .. Slots : /\ s.timed_writes[i].address = IF_ /\ s.timed_writes[i].dots_remaining # 0
                                /\ y = ToCome(IF_, s.timed_writes[i].value, 0, p)
    BY <1>2 DEF LateDue
  <2>2. y.address = IF_ /\ Past(y).address = y.address
    BY <2>1 DEF ToCome, Past
  <2>3. watched = IF_
    BY <2>2 DEF Landing, BlendingNow
  <2>4. IF_ \notin Timely
    BY DEF Timely, IF_, LCDC, SCY, SCX, Palettes
  <2>5. IsLate(s.timed_writes[i], d)
    BY <1>1, <2>1, <2>4 DEF SlotsAreTold, Busy, IsFinal, IsBlend
  <2> QED
    BY <2>1, <2>3, <2>5 DEF Lands, IsLate
<1>3. CASE y \in StillDue(r, d, p)
  <2>1. Len(r) \in Nat /\ d \in Int
    BY ShapedLength
  <2>2. PICK k \in 1 .. Len(r) :
          /\ r[k].write # <<>>
          /\ y = ToCome(r[k].write[1].address, r[k].write[1].value, (4 * k) - d, p)
    BY <1>3, <2>1 DEF StillDue, ToCome
  <2> DEFINE a == r[k].write[1].address
             v == r[k].write[1].value
             l == (4 * k) - d
  <2>3. l \in Int /\ l >= 1 /\ l - 1 \in Int
    BY <2>1
  <2> HIDE DEF a, v, l
  <2>4. y = ToCome(a, v, l, p)
    BY <2>2 DEF a, v, l
  <2>5. y.address = a /\ y.value = v /\ y.left = l
    BY <2>4 DEF ToCome
  <2> DEFINE x == ToCome(a, v, l - 1, p)
  <2>6. Past(y) = x
    BY <2>3, <2>4, PastIs
  <2>7. x.address = a /\ x.left = l - 1
    BY DEF ToCome
  <2>8. Registers!Lead(x) = IF a = IF_ THEN -1 ELSE IF p \/ a \notin Timely THEN 0 ELSE Ahead(a)
    BY LeadIs
  <2>9. Registers!Blends(x) <=> ~p /\ Blending(a)
    BY LeadIs
  <2> HIDE DEF x
  <2>10. watched = a
    BY <2>6, <2>7 DEF Landing, BlendingNow
  <2>11. Blending(a) => a \in Timely
    BY DEF Blending, Timely
  <2>12. CASE Landing(x)
    <3>1. l - 1 = Registers!Lead(x) /\ l - 1 # 0
      BY <2>7, <2>12 DEF Landing
    <3>2. ~p /\ a \in Timely /\ l - 1 = Ahead(a)
      BY <2>3, <2>8, <3>1
    <3>3. l <= 3
      BY <2>3, <3>2 DEF Ahead
    <3>a. y.left <= 3 /\ ~p
      BY <2>5, <3>2, <3>3
    <3>b. Turn(y.address, y.value, 1) \in Told(r, p) /\ y.left = 4 - d
      BY <1>3, <2>1, <3>a, SoonIsTold
    <3>4. Turn(a, v, 1) \in told /\ l = 4 - d
      BY <2>5, <3>b
    <3> DEFINE w == Turn(a, v, 1)
    <3>5. w.address = a /\ w.value = v /\ w.turn = 1
      BY DEF Turn
    <3> HIDE DEF w, told
    <3>6. ((4 * w.turn) - d) - Ahead(w.address) = 1
      BY <2>3, <3>2, <3>4, <3>5 DEF Ahead
    <3>7. w \in told /\ ((4 * w.turn) - d) - Ahead(w.address) > 0 /\ w.address \in Timely
      BY <3>2, <3>4, <3>5, <3>6 DEF w
    <3>8. PICK i \in 1 .. Slots : IsFinal(s.timed_writes[i], w, d)
      BY <1>1, <3>7 DEF ToldHaveSlots
    <3> QED
      BY <2>10, <3>5, <3>6, <3>8 DEF IsFinal, Lands
  <2>13. CASE BlendingNow(x)
    <3>1. l - 1 = 2 /\ ~p /\ Blending(a) /\ a \in Timely
      BY <2>7, <2>9, <2>11, <2>13 DEF BlendingNow
    <3>2. l <= 3
      BY <2>3, <3>1
    <3>3. Turn(a, v, 1) \in told /\ l = 4 - d
      BY <1>3, <2>1, <2>5, <3>1, <3>2, SoonIsTold, ZenonT(60)
    <3> DEFINE w == Turn(a, v, 1)
    <3>4. w.address = a /\ w.value = v /\ w.turn = 1
      BY DEF Turn
    <3> HIDE DEF w, told
    <3>5. ((4 * w.turn) - d) - 2 = 1
      BY <2>3, <3>1, <3>3, <3>4
    <3>6. /\ w \in told /\ ((4 * w.turn) - d) - 2 > 0 /\ w.address \in Timely
          /\ Blending(w.address)
      BY <3>1, <3>3, <3>4, <3>5 DEF w
    <3>7. PICK i \in 1 .. Slots : IsBlend(s.timed_writes[i], w, d, s.io, watched)
      BY <1>1, <3>6 DEF ToldHaveSlots
    <3> QED
      BY <2>10, <3>4, <3>5, <3>7 DEF IsBlend, Lands
  <2> QED
    BY <2>6, <2>12, <2>13
<1> QED
  BY <1>2, <1>3

\* A dot is a dot of module BusWrites.
LEMMA DotRefines ==
  ASSUME SlotsSuffice, ScheduleInv, TimedDot
  PROVE  Registers!Dot
<1> DEFINE D == StillDue(rest, timed_dot, plain) \union LateDue(State, plain)
           E == StillDue(rest, timed_dot + 1, plain)
           t == TickScheduledWrites(State)
<1>1. /\ State \in BusState /\ State.io = io /\ plain \in BOOLEAN /\ Shaped(rest, plain)
      /\ SlotsKept(State, Told(rest, plain), timed_dot, watched)
      /\ SlotsAreTold(State, Told(rest, plain), timed_dot, watched) /\ SlotsDiffer(State)
  <2>1. State.io = io
    BY DEF State
  <2> QED
    BY <2>1, Zenon DEF ScheduleInv, Kept, SlotsKept
<1>2. timed_dot \in 0 .. 3 /\ timed_dot < 4 /\ timed_dot' = timed_dot + 1 /\ watched' = watched
  BY DEF TimedDot, ScheduleInv
<1>3. Due = D
  BY DueIs
<1>4. Due' = E /\ io' = t.io
  BY DotKeeps
<1>5. Len(rest) \in Nat
  BY <1>1, ShapedLength
<1>6. /\ \A y \in StillDue(rest, timed_dot, plain) : Past(y) \in E
      /\ \A z \in E : z.left >= 0 /\ \E y \in StillDue(rest, timed_dot, plain) : z = Past(y)
  <2> DEFINE d == timed_dot
  <2>1. d \in 0 .. 3
    BY <1>2
  <2> HIDE DEF d
  <2>2. /\ \A y \in StillDue(rest, d, plain) : Past(y) \in StillDue(rest, d + 1, plain)
        /\ \A z \in StillDue(rest, d + 1, plain) : z.left >= 0 /\ \E y \in StillDue(rest, d, plain) : z = Past(y)
    BY <1>5, <2>1, PendingPasses
  <2> QED
    BY <2>2 DEF d
<1>7. \A y \in LateDue(State, plain) : ~(Past(y).left >= 0)
  <2> SUFFICES ASSUME NEW y \in LateDue(State, plain)  PROVE ~(Past(y).left >= 0)
    OBVIOUS
  <2>1. y.left = 0 /\ Past(y).left = y.left - 1
    BY DEF LateDue, ToCome, Past
  <2> QED
    BY <2>1
<1>8. \A w \in D : Past(w).left >= 0 => Past(w) \in E
  <2> HIDE DEF E
  <2> QED
    BY <1>6, <1>7
<1>9. \A z \in E : z.left >= 0 /\ \E w \in D : z = Past(w)
  <2> HIDE DEF E
  <2> QED
    BY <1>6
<1>10. \/ \E w \in D : Landing(Past(w)) /\ io' = Past(w).value
       \/ \E w \in D : BlendingNow(Past(w)) /\ io' = Registers!Mixture(Past(w))
       \/ (\A w \in D : ~Landing(Past(w)) /\ ~BlendingNow(Past(w))) /\ io' = io
  <2>1. ASSUME NEW i \in 1 .. Slots, Lands(State, i)
        PROVE  \/ \E w \in D : Landing(Past(w)) /\ io' = Past(w).value
               \/ \E w \in D : BlendingNow(Past(w)) /\ io' = Registers!Mixture(Past(w))
    <3>1. io' = State.timed_writes[i].value
      BY <1>1, <1>4, <2>1, TickFields
    <3>2. PICK y \in D :
            \/ Landing(Past(y)) /\ Past(y).value = State.timed_writes[i].value
            \/ BlendingNow(Past(y)) /\ Registers!Mixture(Past(y)) = State.timed_writes[i].value
      BY <1>1, <1>2, <2>1, LandingIsDue
    <3> HIDE DEF D
    <3> QED
      BY <3>1, <3>2
  <2>2. CASE \A i \in 1 .. Slots : ~Lands(State, i)
    <3>1. io' = io
      BY <1>1, <1>4, <2>2, TickFields
    <3>2. \A w \in D : ~Landing(Past(w)) /\ ~BlendingNow(Past(w))
      BY <1>1, <1>2, <2>2, DueLands
    <3> QED
      BY <3>1, <3>2
  <2> QED
    BY <2>1, <2>2
<1> HIDE DEF D, E
<1> QED
  BY <1>2, <1>3, <1>4, <1>8, <1>9, <1>10, DotIs DEF E

-----------------------------------------------------------------------------
(* The start, a reset, and the whole. *)

\* The fresh CPU has nothing in flight.
LEMMA FreshKeeps ==
  ASSUME SlotsSuffice, NEW s,
         s = [ timed_writes |-> [i \in 1 .. Slots |-> EmptySlot], announced |-> <<>>,
               scheduling |-> FALSE, asserted |-> TRUE, io |-> {} ]
  PROVE  /\ s \in BusState /\ NoneLate(s) /\ Kept(s, {}, 0, watched)
<1>1. EmptySlot \in Slot /\ EmptySlot.dots_remaining = 0
  BY DEF SlotsSuffice, EmptySlot, Slot
<1>2. /\ s.timed_writes = [i \in 1 .. Slots |-> EmptySlot] /\ s.announced = <<>>
      /\ s.scheduling = FALSE /\ s.asserted = TRUE /\ s.io = {}
  OBVIOUS
<1>3. s \in BusState
  <2>1. [i \in 1 .. Slots |-> EmptySlot] \in [1 .. Slots -> Slot]
    BY <1>1
  <2>2. <<>> \in Seq(Timely) /\ {} \in Values
    BY DEF SlotsSuffice
  <2> QED
    BY <2>1, <2>2 DEF BusState
<1>4. \A i \in 1 .. Slots : ~Busy(s, i)
  BY <1>1, <1>2 DEF Busy
<1>5. Len(s.announced) = 0
  BY <1>2
<1>6. AnnouncedAreTold(s, {})
  BY <1>5 DEF AnnouncedAreTold
<1>7. SlotsKept(s, {}, 0, watched)
  BY <1>4 DEF SlotsKept, SlotsAreTold, SlotsDiffer, ToldHaveSlots
<1> QED
  BY <1>3, <1>4, <1>6, <1>7 DEF Kept, NoneLate

\* The fresh state satisfies the invariant, with nothing due.
LEMMA FreshIsOK ==
  ASSUME SlotsSuffice, bus = FreshBus, io = {}, rest = <<>>, timed_dot = 0, plain = FALSE, watched \in Addresses
  PROVE  ScheduleInv /\ Due = {}
<1> DEFINE s == State
<1>1. s = [ timed_writes |-> [i \in 1 .. Slots |-> EmptySlot], announced |-> <<>>,
            scheduling |-> FALSE, asserted |-> TRUE, io |-> {} ]
  BY DEF State, FreshBus
<1> HIDE DEF s
<1>2. s \in BusState /\ NoneLate(s) /\ Kept(s, {}, 0, watched)
  BY <1>1, FreshKeeps
<1>3. RestIs(<<>>, 0, FALSE, {}, {})
  BY NothingLeft
<1>4. LateDue(s, FALSE) = {}
  BY <1>2, NoneLateDue
<1>5. Due = {}
  BY <1>3, <1>4, DueIs DEF RestIs, s
<1>6. Shaped(rest, plain)
  BY DEF Shaped
<1>7. Told(rest, plain) = {}
  BY <1>3 DEF RestIs
<1>8. bus.scheduling = FALSE /\ bus.asserted = TRUE
  BY DEF FreshBus
<1>9. timed_dot \in 0 .. 4 /\ plain \in BOOLEAN
  <2>1. timed_dot \in 0 .. 4
    OBVIOUS
  <2>2. plain \in BOOLEAN
    BY Zenon
  <2> QED
    BY <2>1, <2>2
<1>10. State \in BusState /\ Kept(State, Told(rest, plain), timed_dot, watched)
  BY <1>2, <1>7 DEF s
<1> QED
  BY <1>5, <1>6, <1>8, <1>9, <1>10, Zenon DEF ScheduleInv

\* The initial state does.
LEMMA InitKeeps ==
  ASSUME SlotsSuffice, TimedInit
  PROVE  ScheduleInv /\ Registers!Init
BY FreshIsOK DEF TimedInit, Registers!Init

\* So does the state after a reset.
LEMMA FreshIsOKAfter ==
  ASSUME SlotsSuffice, bus' = FreshBus, io' = {}, rest' = <<>>, timed_dot' = 0, plain' = FALSE, watched' = watched,
         watched \in Addresses
  PROVE  ScheduleInv' /\ Due' = {}
<1> DEFINE s == State'
<1>1. s = [ timed_writes |-> [i \in 1 .. Slots |-> EmptySlot], announced |-> <<>>,
            scheduling |-> FALSE, asserted |-> TRUE, io |-> {} ]
  BY DEF State, FreshBus
<1> HIDE DEF s
<1>2. s \in BusState /\ NoneLate(s) /\ Kept(s, {}, 0, watched)
  BY <1>1, FreshKeeps
<1>3. RestIs(<<>>, 0, FALSE, {}, {})
  BY NothingLeft
<1>4. LateDue(s, FALSE) = {}
  BY <1>2, NoneLateDue
<1>5. Due' = {}
  BY <1>3, <1>4, DueIsAfter DEF RestIs, s
<1>6. Shaped(rest', plain')
  BY DEF Shaped
<1>7. Told(rest', plain') = {}
  BY <1>3 DEF RestIs
<1>8. bus'.scheduling = FALSE /\ bus'.asserted = TRUE
  BY DEF FreshBus
<1>9. timed_dot' \in 0 .. 4 /\ plain' \in BOOLEAN
  <2>1. timed_dot' \in 0 .. 4
    OBVIOUS
  <2>2. plain' \in BOOLEAN
    BY Zenon
  <2> QED
    BY <2>1, <2>2
<1>10. State' \in BusState /\ Kept(State', Told(rest', plain'), timed_dot', watched')
  BY <1>2, <1>7 DEF s
<1> QED
  BY <1>5, <1>6, <1>8, <1>9, <1>10, Zenon DEF ScheduleInv

\* A reset is a reset of module BusWrites.
LEMMA ResetKeeps ==
  ASSUME SlotsSuffice, ScheduleInv, TimedReset
  PROVE  ScheduleInv' /\ Registers!Reset
<1>1. /\ bus' = FreshBus /\ io' = {} /\ rest' = <<>> /\ timed_dot' = 0 /\ plain' = FALSE
      /\ watched' = watched /\ watched \in Addresses /\ timed_dot = 0
  BY DEF TimedReset, ScheduleInv
<1>2. ScheduleInv' /\ Due' = {}
  BY <1>1, FreshIsOKAfter
<1> QED
  BY <1>1, <1>2 DEF Registers!Reset

\* Where nothing changes, nothing changes in module BusWrites.
LEMMA StutteringKeeps ==
  ASSUME ScheduleInv, UNCHANGED timed_vars
  PROVE  ScheduleInv' /\ UNCHANGED Registers!vars
<1>1. /\ bus' = bus /\ rest' = rest /\ timed_dot' = timed_dot /\ plain' = plain
      /\ watched' = watched /\ io' = io
  BY DEF timed_vars
<1>2. State' = State
  BY <1>1 DEF State
<1>3. Due' = Due
  BY <1>1 DEF Due
<1>4. ScheduleInv'
  BY <1>1, <1>2, Zenon DEF ScheduleInv
<1> QED
  BY <1>1, <1>3, <1>4 DEF Registers!vars

\* Every step keeps the invariant and is a step of module BusWrites or a stutter.
LEMMA NextKeeps ==
  ASSUME SlotsSuffice, ScheduleInv, [TimedNext]_timed_vars
  PROVE  ScheduleInv' /\ [Registers!Next]_(Registers!vars)
<1>1. CASE TimedDot
  BY <1>1, DotKeeps, DotRefines DEF Registers!Next
<1>2. CASE TimedContinue
  BY <1>2, ContinueKeeps DEF Registers!Next
<1>3. CASE TimedFetch
  BY <1>3, FetchKeeps DEF Registers!Next
<1>4. CASE FetchAfterHalt
  BY <1>4, FetchAfterHaltKeeps DEF Registers!Next
<1>5. CASE TimedReset
  BY <1>5, ResetKeeps DEF Registers!Next
<1>6. CASE UNCHANGED timed_vars
  BY <1>6, StutteringKeeps
<1> QED
  BY <1>1, <1>2, <1>3, <1>4, <1>5, <1>6, Zenon DEF TimedNext

\* The invariant implies that the assertions hold.
LEMMA ScheduleInvAsserts ==
  ASSUME SlotsSuffice, ScheduleInv
  PROVE  AssertionsHold
<1>1. State \in BusState /\ bus.asserted = TRUE /\ AnnouncedAreTold(State, Told(rest, plain))
  BY Zenon DEF ScheduleInv, Kept
<1>2. Len(State.announced) <= 2
  BY <1>1, Zenon DEF AnnouncedAreTold
<1>3. State.announced = bus.announced /\ State.timed_writes = bus.timed_writes
  BY DEF State
<1>4. Len(bus.announced) <= AddressSlots
  <2>1. Len(State.announced) \in Nat
    BY <1>1 DEF BusState
  <2> DEFINE l == Len(State.announced)
  <2>2. l \in Nat /\ l <= 2
    BY <1>2, <2>1
  <2>3. l = Len(bus.announced)
    BY <1>3
  <2> HIDE DEF l
  <2>4. l <= AddressSlots
    BY <2>2 DEF SlotsSuffice
  <2> QED
    BY <2>3, <2>4
<1>5. bus.timed_writes \in [1 .. Slots -> Slot]
  BY <1>1, <1>3 DEF BusState
<1> QED
  BY <1>1, <1>4, <1>5, Zenon DEF AssertionsHold

\* The assertions of schedule_write and schedule_dmg_io_write hold for any arrays of at
\* least four slots and two addresses: the four and two of class CPU are enough.
THEOREM NoAssertionFails == TimedSpec => []AssertionsHold
<1>0. SlotsSuffice
  BY TimedWritesAssumption
<1>1. TimedInit => ScheduleInv
  BY <1>0, InitKeeps
<1>2. ScheduleInv /\ [TimedNext]_timed_vars => ScheduleInv'
  BY <1>0, NextKeeps
<1>3. ScheduleInv => AssertionsHold
  BY <1>0, ScheduleInvAsserts
<1> QED
  BY <1>1, <1>2, <1>3, PTL DEF TimedSpec

\* Every CPU write reaches its register once and in its dot, through the slots of
\* the CPU: TimedWrites implements BusWrites.
THEOREM WritesReachTheirRegisters == TimedSpec => ImplementsBusWrites
<1>0. SlotsSuffice
  BY TimedWritesAssumption
<1>1. TimedInit => ScheduleInv /\ Registers!Init
  BY <1>0, InitKeeps
<1>2. ScheduleInv /\ [TimedNext]_timed_vars => ScheduleInv'
  BY <1>0, NextKeeps
<1>3. ScheduleInv /\ [TimedNext]_timed_vars => [Registers!Next]_(Registers!vars)
  BY <1>0, NextKeeps
<1> QED
  BY <1>1, <1>2, <1>3, PTL DEF TimedSpec, ImplementsBusWrites, Registers!Spec
=============================================================================
