---------------------------- MODULE TimerProofs ----------------------------
(***************************************************************************)
(* Proofs about Timer for every counter, byte size and choice of bits that *)
(* satisfy TimerAssumption.  The inductive invariant is the conjunction of *)
(* the three invariants of Timer; the refinement of TimerCycles rests on   *)
(* it, because a dot inside an M-cycle changes no register only when       *)
(* edges, overflows and M-cycles are in step.                              *)
(***************************************************************************)
EXTENDS Timer, TLAPS

IInv == TypeOK /\ InputIsRemembered /\ ReloadTakesOneMCycle

-----------------------------------------------------------------------------
(* Lemmas about the member functions. *)

\* The input belongs to the counter and to TAC; the other members do not matter.
LEMMA InputDepends ==
  ASSUME NEW t, NEW u, t.div_counter = u.div_counter, t.tac = u.tac
  PROVE  TimerInput(t) = TimerInput(u)
BY DEF TimerInput, TimerEnabled

\* One dot moves the counter on by one, modulo its size.
LEMMA CounterStep ==
  ASSUME NEW d \in Counter
  PROVE  /\ (d + 1) % CounterSize \in Counter
         /\ (d + 1) % CounterSize = (IF d + 1 = CounterSize THEN 0 ELSE d + 1)
         /\ ((d + 1) % CounterSize) % 4 = (d + 1) % 4
         /\ ((d + 1) % CounterSize) % 8 = (d + 1) % 8
<1>1. CounterSize \in Nat /\ CounterSize >= 8 /\ CounterSize % 8 = 0
  BY TimerAssumption
<1>2. CASE d + 1 = CounterSize
  <2>1. (d + 1) % CounterSize = 0
    BY <1>1, <1>2 DEF Counter
  <2> QED
    BY <1>1, <1>2, <2>1 DEF Counter
<1>3. CASE d + 1 # CounterSize
  <2>1. (d + 1) % CounterSize = d + 1
    BY <1>1, <1>3 DEF Counter
  <2> QED
    BY <1>1, <1>3, <2>1 DEF Counter
<1> QED
  BY <1>2, <1>3

\* What increment_tima does, member by member.
LEMMA IncrementFields ==
  ASSUME NEW t \in TimerState
  PROVE  LET u == IncrementTima(t)
             wraps == t.tima = ByteSize - 1
         IN /\ u \in TimerState
            /\ u.div_counter = t.div_counter /\ u.tma = t.tma /\ u.tac = t.tac
            /\ u.reload_cycle = t.reload_cycle
            /\ u.tima = (IF wraps THEN 0 ELSE t.tima + 1)
            /\ u.overflow_delay = (IF wraps THEN 4 ELSE t.overflow_delay)
<1>1. ByteSize \in Nat /\ ByteSize >= 2
  BY TimerAssumption
<1>2. CASE t.tima = ByteSize - 1
  <2>1. IncrementTima(t) = [t EXCEPT !.tima = 0, !.overflow_delay = 4]
    BY <1>2 DEF IncrementTima
  <2>2. 0 \in Byte
    BY <1>1 DEF Byte
  <2>3. 4 \in 0 .. 4
    OBVIOUS
  <2>4. [t EXCEPT !.tima = 0] \in TimerState
    BY <2>2 DEF TimerState
  <2>5. IncrementTima(t) = [[t EXCEPT !.tima = 0] EXCEPT !.overflow_delay = 4]
    BY <2>1, <2>2 DEF TimerState
  <2>6. IncrementTima(t) \in TimerState
    BY <2>3, <2>4, <2>5 DEF TimerState
  <2> QED
    BY <1>2, <2>1, <2>6 DEF TimerState
<1>3. CASE t.tima # ByteSize - 1
  <2>1. IncrementTima(t) = [t EXCEPT !.tima = t.tima + 1]
    BY <1>3 DEF IncrementTima
  <2>2. t.tima + 1 \in Byte
    BY <1>1, <1>3 DEF TimerState, Byte
  <2> QED
    BY <1>3, <2>1, <2>2 DEF TimerState
<1> QED
  BY <1>2, <1>3

\* What update_timer_edge does, member by member.
LEMMA EdgeFields ==
  ASSUME NEW t \in TimerState
  PROVE  LET u == UpdateTimerEdge(t)
             falls == t.previous_timer_input /\ ~TimerInput(t)
             wraps == falls /\ t.tima = ByteSize - 1
         IN /\ u \in TimerState
            /\ u.div_counter = t.div_counter /\ u.tma = t.tma /\ u.tac = t.tac
            /\ u.reload_cycle = t.reload_cycle
            /\ u.previous_timer_input = TimerInput(t)
            /\ u.tima = (IF wraps THEN 0 ELSE IF falls THEN t.tima + 1 ELSE t.tima)
            /\ u.overflow_delay = (IF wraps THEN 4 ELSE t.overflow_delay)
<1> DEFINE falls == t.previous_timer_input /\ ~TimerInput(t)
           counted == IF falls THEN IncrementTima(t) ELSE t
<1>1. TimerInput(t) \in BOOLEAN
  BY DEF TimerInput, TimerEnabled
<1>2. TimerInput(counted) = TimerInput(t)
  BY IncrementFields, InputDepends
<1>3. UpdateTimerEdge(t) = [counted EXCEPT !.previous_timer_input = TimerInput(t)]
  BY <1>2 DEF UpdateTimerEdge
<1>4. /\ counted \in TimerState
      /\ counted.div_counter = t.div_counter /\ counted.tma = t.tma /\ counted.tac = t.tac
      /\ counted.reload_cycle = t.reload_cycle
      /\ counted.tima = (IF falls /\ t.tima = ByteSize - 1 THEN 0
                         ELSE IF falls THEN t.tima + 1 ELSE t.tima)
      /\ counted.overflow_delay =
           (IF falls /\ t.tima = ByteSize - 1 THEN 4 ELSE t.overflow_delay)
  BY IncrementFields
<1> HIDE DEF counted, falls
<1>5. UpdateTimerEdge(t) \in TimerState
  BY <1>1, <1>3, <1>4 DEF TimerState
<1>6. /\ UpdateTimerEdge(t).previous_timer_input = TimerInput(t)
      /\ UpdateTimerEdge(t).div_counter = counted.div_counter
      /\ UpdateTimerEdge(t).tma = counted.tma
      /\ UpdateTimerEdge(t).tac = counted.tac
      /\ UpdateTimerEdge(t).tima = counted.tima
      /\ UpdateTimerEdge(t).overflow_delay = counted.overflow_delay
      /\ UpdateTimerEdge(t).reload_cycle = counted.reload_cycle
  BY <1>3, <1>4 DEF TimerState
<1> QED
  BY <1>4, <1>5, <1>6 DEF falls

\* The input as a function of the counter and TAC.
InputAt(counter, control) ==
  control \div 4 = 1 /\ BitIsSet(counter, TimerBit[control % 4])

LEMMA InputIsInputAt ==
  ASSUME NEW t
  PROVE  TimerInput(t) = InputAt(t.div_counter, t.tac)
BY DEF TimerInput, TimerEnabled, InputAt

\* The input changes at the ends of M-cycles only, and falls at every other one
\* at most.
LEMMA InputSteps ==
  ASSUME NEW d \in Counter, NEW c \in 0 .. 7, NEW e, e = (d + 1) % CounterSize
  PROVE  /\ InputAt(d, c) # InputAt(e, c) => (d + 1) % 4 = 0
         /\ InputAt(d, c) /\ ~InputAt(e, c) => (d + 1) % 8 = 0
<1>1. c % 4 \in 0 .. 3
  OBVIOUS
<1>2. Aligned(d, TimerBit[c % 4])
  BY <1>1, TimerAssumption
<1>3. e % 4 = (d + 1) % 4 /\ e % 8 = (d + 1) % 8
  BY CounterStep
<1>4. /\ BitIsSet(d, TimerBit[c % 4]) # BitIsSet(e, TimerBit[c % 4]) => (d + 1) % 4 = 0
      /\ BitIsSet(d, TimerBit[c % 4]) /\ ~BitIsSet(e, TimerBit[c % 4]) => (d + 1) % 8 = 0
  BY <1>2, <1>3 DEF Aligned
<1>5. CASE c \div 4 = 1
  <2>1. /\ InputAt(d, c) = BitIsSet(d, TimerBit[c % 4])
        /\ InputAt(e, c) = BitIsSet(e, TimerBit[c % 4])
    BY <1>5 DEF InputAt, BitIsSet
  <2> QED
    BY <1>4, <2>1
<1>6. CASE c \div 4 # 1
  BY <1>6 DEF InputAt
<1> QED
  BY <1>5, <1>6

\* What one dot does to a pending reload.
LEMMA OverflowFields ==
  ASSUME NEW t \in TimerState
  PROVE  LET u == TickOverflow(t)
         IN /\ u \in TimerState
            /\ u.div_counter = t.div_counter /\ u.tma = t.tma /\ u.tac = t.tac
            /\ u.previous_timer_input = t.previous_timer_input
            /\ u.reload_cycle = (t.overflow_delay = 1)
            /\ u.tima = (IF t.overflow_delay = 1 THEN t.tma ELSE t.tima)
            /\ u.overflow_delay = (IF t.overflow_delay = 0 THEN 0 ELSE t.overflow_delay - 1)
<1>1. PICK left \in 0 .. 4 :
        left = (IF t.overflow_delay = 0 THEN 0 ELSE t.overflow_delay - 1)
  BY DEF TimerState
<1>2. PICK shown \in Byte : shown = (IF t.overflow_delay = 1 THEN t.tma ELSE t.tima)
  BY DEF TimerState
<1>3. PICK over \in BOOLEAN : over = (t.overflow_delay = 1)
  OBVIOUS
<1> DEFINE one == [t EXCEPT !.tima = shown]
           two == [one EXCEPT !.overflow_delay = left]
           three == [two EXCEPT !.reload_cycle = over]
<1>4. one \in TimerState
  BY DEF TimerState
<1>5. two \in TimerState
  BY <1>4 DEF TimerState
<1>6. three \in TimerState
  BY <1>5 DEF TimerState
<1>7. TickOverflow(t) = three
  <2>1. CASE t.overflow_delay = 1
    <3>1. TickOverflow(t) = [t EXCEPT !.tima = t.tma, !.overflow_delay = 0, !.reload_cycle = TRUE]
      BY <2>1 DEF TickOverflow
    <3>2. shown = t.tma /\ over = TRUE
      BY <1>2, <1>3, <2>1
    <3>3. left = 0
      BY <1>1, <2>1
    <3> QED
      BY <3>1, <3>2, <3>3 DEF TimerState
  <2>2. CASE t.overflow_delay # 1
    <3>1. TickOverflow(t) = [t EXCEPT !.overflow_delay = left, !.reload_cycle = FALSE]
      BY <1>1, <2>2 DEF TickOverflow
    <3>2. shown = t.tima /\ over = FALSE
      BY <1>2, <1>3, <2>2
    <3> QED
      BY <3>1, <3>2 DEF TimerState
  <2> QED
    BY <2>1, <2>2
<1> QED
  BY <1>1, <1>2, <1>3, <1>6, <1>7 DEF TimerState

LEMMA CounterField ==
  ASSUME NEW t \in TimerState, NEW d \in Counter
  PROVE  LET u == [t EXCEPT !.div_counter = d]
         IN /\ u \in TimerState
            /\ u.div_counter = d /\ u.tima = t.tima /\ u.tma = t.tma /\ u.tac = t.tac
            /\ u.previous_timer_input = t.previous_timer_input
            /\ u.overflow_delay = t.overflow_delay /\ u.reload_cycle = t.reload_cycle
BY DEF TimerState

\* What one dot does, member by member.
LEMMA TickFields ==
  ASSUME NEW t \in TimerState
  PROVE  LET u == TickDot(t)
             next == (t.div_counter + 1) % CounterSize
             start == IF t.overflow_delay = 1 THEN t.tma ELSE t.tima
             falls == t.previous_timer_input /\ ~InputAt(next, t.tac)
             wraps == falls /\ start = ByteSize - 1
         IN /\ u \in TimerState
            /\ u.div_counter = next /\ u.tma = t.tma /\ u.tac = t.tac
            /\ u.reload_cycle = (t.overflow_delay = 1)
            /\ u.previous_timer_input = InputAt(next, t.tac)
            /\ u.tima = (IF wraps THEN 0 ELSE IF falls THEN start + 1 ELSE start)
            /\ u.overflow_delay = (IF wraps THEN 4
                                   ELSE IF t.overflow_delay = 0 THEN 0
                                   ELSE t.overflow_delay - 1)
<1> DEFINE next == (t.div_counter + 1) % CounterSize
           moved == [TickOverflow(t) EXCEPT !.div_counter = next]
<1>1. t.div_counter \in Counter
  BY DEF TimerState
<1>2. next \in Counter
  BY <1>1, CounterStep
<1>3. /\ moved \in TimerState
      /\ moved.div_counter = next /\ moved.tma = t.tma /\ moved.tac = t.tac
      /\ moved.previous_timer_input = t.previous_timer_input
      /\ moved.reload_cycle = (t.overflow_delay = 1)
      /\ moved.tima = (IF t.overflow_delay = 1 THEN t.tma ELSE t.tima)
      /\ moved.overflow_delay = (IF t.overflow_delay = 0 THEN 0 ELSE t.overflow_delay - 1)
  <2>1. TickOverflow(t) \in TimerState
    BY OverflowFields
  <2>2. /\ moved \in TimerState
        /\ moved.div_counter = next
        /\ moved.tima = TickOverflow(t).tima
        /\ moved.tma = TickOverflow(t).tma
        /\ moved.tac = TickOverflow(t).tac
        /\ moved.previous_timer_input = TickOverflow(t).previous_timer_input
        /\ moved.overflow_delay = TickOverflow(t).overflow_delay
        /\ moved.reload_cycle = TickOverflow(t).reload_cycle
    BY <1>2, <2>1, CounterField
  <2> QED
    BY <2>2, OverflowFields
<1>4. TickDot(t) = UpdateTimerEdge(moved)
  <2>1. TickOverflow(t).div_counter = t.div_counter
    BY OverflowFields
  <2> QED
    BY <2>1 DEF TickDot
<1>5. TimerInput(moved) = InputAt(next, t.tac)
  BY <1>3, InputIsInputAt
<1> HIDE DEF moved, next
<1> QED
  BY <1>3, <1>4, <1>5, EdgeFields DEF next

\* What the CPU's writes do, member by member.
LEMMA DivFields ==
  ASSUME NEW t \in TimerState
  PROVE  LET u == WriteDiv(t)
             falls == t.previous_timer_input /\ ~InputAt(0, t.tac)
             wraps == falls /\ t.tima = ByteSize - 1
         IN /\ u \in TimerState
            /\ u.div_counter = 0 /\ u.tma = t.tma /\ u.tac = t.tac
            /\ u.reload_cycle = t.reload_cycle
            /\ u.previous_timer_input = InputAt(0, t.tac)
            /\ u.tima = (IF wraps THEN 0 ELSE IF falls THEN t.tima + 1 ELSE t.tima)
            /\ u.overflow_delay = (IF wraps THEN 4 ELSE t.overflow_delay)
<1> DEFINE moved == [t EXCEPT !.div_counter = 0]
<1>1. 0 \in Counter
  BY TimerAssumption DEF Counter
<1>2. /\ moved \in TimerState
      /\ moved.div_counter = 0 /\ moved.tima = t.tima
      /\ moved.tma = t.tma /\ moved.tac = t.tac
      /\ moved.previous_timer_input = t.previous_timer_input
      /\ moved.overflow_delay = t.overflow_delay /\ moved.reload_cycle = t.reload_cycle
  BY <1>1, CounterField
<1>3. TimerInput(moved) = InputAt(0, t.tac)
  BY <1>2, InputIsInputAt
<1>4. WriteDiv(t) = UpdateTimerEdge(moved)
  BY DEF WriteDiv
<1> HIDE DEF moved
<1> QED
  BY <1>2, <1>3, <1>4, EdgeFields

LEMMA TacFields ==
  ASSUME NEW t \in TimerState, NEW value \in 0 .. 7
  PROVE  LET u == WriteTac(t, value)
             falls == t.previous_timer_input /\ ~InputAt(t.div_counter, value)
             wraps == falls /\ t.tima = ByteSize - 1
         IN /\ u \in TimerState
            /\ u.div_counter = t.div_counter /\ u.tma = t.tma /\ u.tac = value
            /\ u.reload_cycle = t.reload_cycle
            /\ u.previous_timer_input = InputAt(t.div_counter, value)
            /\ u.tima = (IF wraps THEN 0 ELSE IF falls THEN t.tima + 1 ELSE t.tima)
            /\ u.overflow_delay = (IF wraps THEN 4 ELSE t.overflow_delay)
<1> DEFINE moved == [t EXCEPT !.tac = value]
<1>1. moved \in TimerState
  BY DEF TimerState
<1>2. /\ moved.div_counter = t.div_counter /\ moved.tima = t.tima
      /\ moved.tma = t.tma /\ moved.tac = value
      /\ moved.previous_timer_input = t.previous_timer_input
      /\ moved.overflow_delay = t.overflow_delay /\ moved.reload_cycle = t.reload_cycle
  BY <1>1 DEF TimerState
<1>3. TimerInput(moved) = InputAt(t.div_counter, value)
  BY <1>2, InputIsInputAt
<1>4. WriteTac(t, value) = UpdateTimerEdge(moved)
  BY DEF WriteTac
<1> HIDE DEF moved
<1> QED
  BY <1>1, <1>2, <1>3, <1>4, EdgeFields

LEMMA TimaFields ==
  ASSUME NEW t \in TimerState, NEW value \in Byte
  PROVE  LET u == WriteTima(t, value)
         IN /\ u \in TimerState
            /\ u.div_counter = t.div_counter /\ u.tma = t.tma /\ u.tac = t.tac
            /\ u.previous_timer_input = t.previous_timer_input
            /\ u.reload_cycle = t.reload_cycle
            /\ u.tima = (IF t.reload_cycle THEN t.tima ELSE value)
            /\ u.overflow_delay = (IF t.reload_cycle THEN t.overflow_delay ELSE 0)
<1>1. CASE t.reload_cycle
  BY <1>1 DEF WriteTima
<1>2. CASE ~t.reload_cycle
  <2>1. WriteTima(t, value) = [[t EXCEPT !.tima = value] EXCEPT !.overflow_delay = 0]
    BY <1>2 DEF WriteTima, TimerState
  <2>2. [t EXCEPT !.tima = value] \in TimerState /\ 0 \in 0 .. 4
    BY DEF TimerState
  <2>3. WriteTima(t, value) \in TimerState
    BY <2>1, <2>2 DEF TimerState
  <2> QED
    BY <1>2, <2>1, <2>3 DEF TimerState
<1> QED
  BY <1>1, <1>2

LEMMA TmaFields ==
  ASSUME NEW t \in TimerState, NEW value \in Byte
  PROVE  LET u == WriteTma(t, value)
         IN /\ u \in TimerState
            /\ u.div_counter = t.div_counter /\ u.tma = value /\ u.tac = t.tac
            /\ u.previous_timer_input = t.previous_timer_input
            /\ u.overflow_delay = t.overflow_delay
            /\ u.reload_cycle = t.reload_cycle
            /\ u.tima = (IF t.reload_cycle THEN value ELSE t.tima)
<1>1. PICK shown \in Byte : shown = (IF t.reload_cycle THEN value ELSE t.tima)
  BY DEF TimerState
<1>2. WriteTma(t, value) = [[t EXCEPT !.tma = value] EXCEPT !.tima = shown]
  BY <1>1 DEF WriteTma, TimerState
<1>3. [t EXCEPT !.tma = value] \in TimerState
  BY DEF TimerState
<1>4. WriteTma(t, value) \in TimerState
  BY <1>2, <1>3 DEF TimerState
<1> QED
  BY <1>1, <1>2, <1>4 DEF TimerState

-----------------------------------------------------------------------------
(* The inductive invariant. *)

LEMMA FreshFacts ==
  /\ FreshTimer \in TimerState
  /\ TimerInput(FreshTimer) = FALSE
  /\ FreshTimer.previous_timer_input = FALSE /\ FreshTimer.overflow_delay = 0
  /\ FreshTimer.reload_cycle = FALSE /\ FreshTimer.div_counter = 0
  /\ FALSE \in BOOLEAN /\ 0 \in 0 .. 4
<1>1. 0 \in Counter /\ 0 \in Byte
  BY TimerAssumption DEF Counter, Byte
<1>2. FreshTimer \in TimerState
  BY <1>1 DEF FreshTimer, TimerState
<1>3. TimerInput(FreshTimer) = FALSE
  BY DEF FreshTimer, TimerInput, TimerEnabled
<1> QED
  BY <1>2, <1>3 DEF FreshTimer

LEMMA InitIsSound == Init => IInv
<1> SUFFICES ASSUME Init PROVE IInv
  OBVIOUS
<1>1. timer = FreshTimer /\ requested = FALSE /\ dot = 0
  BY DEF Init
<1>2. ReloadTakesOneMCycle
  BY <1>1, FreshFacts, 0 % 4 = 0 DEF ReloadTakesOneMCycle
<1>3. TypeOK
  BY <1>1, FreshFacts DEF TypeOK
<1>4. InputIsRemembered
  BY <1>1, FreshFacts DEF InputIsRemembered
<1> QED
  BY <1>2, <1>3, <1>4 DEF IInv

\* Between two multiples of eight dots lie two M-cycles.
LEMMA NoEdgeSoSoon ==
  ASSUME NEW d \in Nat, NEW k \in 0 .. 3, (d - k) % 8 = 0
  PROVE  (d + 1) % 8 # 0
<1>1. CASE k = 0
  BY <1>1
<1>2. CASE k = 1
  BY <1>2
<1>3. CASE k = 2
  BY <1>3
<1>4. CASE k = 3
  BY <1>4
<1> QED
  BY <1>1, <1>2, <1>3, <1>4

LEMMA DotKeepsIInv == IInv /\ Dot => IInv'
<1> SUFFICES ASSUME IInv, Dot PROVE IInv'
  OBVIOUS
<1> DEFINE t == timer
           next == (t.div_counter + 1) % CounterSize
           start == IF t.overflow_delay = 1 THEN t.tma ELSE t.tima
           falls == t.previous_timer_input /\ ~InputAt(next, t.tac)
           wraps == falls /\ start = ByteSize - 1
<1>1. /\ t \in TimerState /\ dot \in 0 .. 3 /\ dot' = dot + 1
      /\ t.div_counter \in Counter /\ t.tac \in 0 .. 7
      /\ t.overflow_delay \in 0 .. 4 /\ t.reload_cycle \in BOOLEAN
      /\ timer' = TickDot(t)
      /\ requested' = (requested \/ t.overflow_delay = 1)
  BY DEF IInv, TypeOK, Dot, TimerState
<1>2. /\ timer' \in TimerState
      /\ timer'.div_counter = next /\ timer'.tac = t.tac
      /\ timer'.reload_cycle = (t.overflow_delay = 1)
      /\ timer'.previous_timer_input = InputAt(next, t.tac)
      /\ timer'.overflow_delay = (IF wraps THEN 4
                                  ELSE IF t.overflow_delay = 0 THEN 0
                                  ELSE t.overflow_delay - 1)
  BY <1>1, TickFields
<1>3. TypeOK'
  BY <1>1, <1>2 DEF IInv, TypeOK
<1>4. InputIsRemembered'
  BY <1>2, InputIsInputAt DEF InputIsRemembered
<1>5. /\ t.div_counter % 4 = dot % 4
      /\ t.overflow_delay \in {0, 4 - (dot % 4)}
      /\ t.overflow_delay # 0
           => \/ (t.div_counter - (dot % 4)) % 8 = 0
              \/ dot # 4 /\ ~t.previous_timer_input
      /\ t.previous_timer_input = InputAt(t.div_counter, t.tac)
  BY InputIsInputAt DEF IInv, ReloadTakesOneMCycle, InputIsRemembered
<1>6. /\ next \in Counter /\ next % 4 = (t.div_counter + 1) % 4
      /\ next % 8 = (t.div_counter + 1) % 8
      /\ next = (IF t.div_counter + 1 = CounterSize THEN 0 ELSE t.div_counter + 1)
  BY <1>1, CounterStep
<1>7. /\ InputAt(t.div_counter, t.tac) # InputAt(next, t.tac) => (t.div_counter + 1) % 4 = 0
      /\ falls => (t.div_counter + 1) % 8 = 0
  BY <1>1, <1>5, InputSteps
<1>8. t.div_counter \in Nat /\ next \in Nat /\ CounterSize \in Nat /\ CounterSize % 8 = 0
  BY <1>1, <1>6, TimerAssumption DEF Counter
<1>9. falls => dot = 3
  BY <1>1, <1>5, <1>7, <1>8
<1> HIDE DEF t, next, start
<1>10. next % 4 = dot' % 4
  BY <1>1, <1>5, <1>6, <1>8
<1>11. timer'.overflow_delay \in {0, 4 - (dot' % 4)}
  BY <1>1, <1>2, <1>5, <1>9
<1>12. timer'.reload_cycle => dot' = 0 \/ (dot' = 4 /\ timer'.overflow_delay = 0)
  <2> SUFFICES ASSUME t.overflow_delay = 1 PROVE dot' = 4 /\ timer'.overflow_delay = 0
    BY <1>2
  <2>1. dot = 3 /\ dot' = 4
    BY <1>1, <1>5
  <2>2. ~falls
    <3> SUFFICES ASSUME falls PROVE FALSE
      OBVIOUS
    <3>1. (t.div_counter + 1) % 8 = 0
      BY <1>7
    <3>2. (t.div_counter - dot) % 8 = 0
      BY <1>5, <2>1
    <3> QED
      BY <1>1, <1>8, <3>1, <3>2, NoEdgeSoSoon
  <2> QED
    BY <1>2, <2>1, <2>2
<1>13. timer'.overflow_delay # 0
         => \/ (next - (dot' % 4)) % 8 = 0
            \/ dot' # 4 /\ ~timer'.previous_timer_input
  <2>1. CASE wraps
    <3>1. dot' = 4 /\ next % 8 = 0
      BY <1>1, <1>6, <1>7, <1>9, <2>1
    <3> QED
      BY <1>8, <3>1
  <2>2. CASE ~wraps
    <3> SUFFICES ASSUME timer'.overflow_delay # 0, timer'.previous_timer_input \/ dot' = 4
                 PROVE  (next - (dot' % 4)) % 8 = 0
      OBVIOUS
    <3>1. t.overflow_delay # 0 /\ dot # 3
      BY <1>1, <1>2, <1>5, <2>2
    <3>2. (t.div_counter + 1) % 4 # 0
      BY <1>1, <1>5, <1>8, <3>1
    <3>3. InputAt(next, t.tac) = InputAt(t.div_counter, t.tac)
      BY <1>7, <3>2 DEF InputAt
    <3>4. t.previous_timer_input
      BY <1>1, <1>2, <1>5, <3>1, <3>3
    <3>5. (t.div_counter - dot) % 8 = 0
      BY <1>1, <1>5, <3>1, <3>4
    <3>6. next = t.div_counter + 1
      BY <1>6, <1>8, <3>2
    <3> QED
      BY <1>1, <1>8, <3>1, <3>5, <3>6
  <2> QED
    BY <2>1, <2>2
<1>14. ReloadTakesOneMCycle'
  BY <1>2, <1>10, <1>11, <1>12, <1>13 DEF ReloadTakesOneMCycle
<1> QED
  BY <1>3, <1>4, <1>14 DEF IInv

\* The CPU access leaves the counter at the start of an M-cycle.
LEMMA AccessKeepsIInv ==
  ASSUME IInv, Access, timer' \in TimerState,
         timer'.previous_timer_input = TimerInput(timer'),
         timer'.div_counter \in {0, timer.div_counter},
         \/ timer'.overflow_delay \in {0, timer.overflow_delay}
         \/ timer'.overflow_delay = 4 /\ ~timer'.previous_timer_input
  PROVE  IInv'
<1>1. dot = 4 /\ dot' = 0 /\ requested' \in BOOLEAN
  BY DEF IInv, TypeOK, Access
<1>2. /\ timer.div_counter % 4 = 0
      /\ timer.overflow_delay \in {0, 4}
      /\ timer.overflow_delay # 0 => timer.div_counter % 8 = 0
      /\ timer.div_counter \in Nat
  <2>1. timer.div_counter \in Nat
    BY TimerAssumption DEF IInv, TypeOK, TimerState, Counter
  <2> QED
    BY <1>1, <2>1 DEF IInv, ReloadTakesOneMCycle
<1>3. TypeOK' /\ InputIsRemembered'
  BY <1>1 DEF TypeOK, InputIsRemembered
<1>4. timer'.div_counter % 4 = dot' % 4
  BY <1>1, <1>2
<1>5. timer'.overflow_delay \in {0, 4 - (dot' % 4)}
  BY <1>1, <1>2
<1>6. timer'.overflow_delay # 0
        => \/ (timer'.div_counter - (dot' % 4)) % 8 = 0
           \/ dot' # 4 /\ ~timer'.previous_timer_input
  <2>1. CASE timer'.overflow_delay \in {0, timer.overflow_delay}
    BY <1>1, <1>2, <2>1
  <2>2. CASE ~timer'.previous_timer_input
    BY <1>1, <2>2
  <2> QED
    BY <2>1, <2>2
<1>7. ReloadTakesOneMCycle'
  BY <1>1, <1>4, <1>5, <1>6 DEF ReloadTakesOneMCycle
<1> QED
  BY <1>3, <1>7 DEF IInv

LEMMA NextKeepsIInv == IInv /\ [Next]_vars => IInv'
<1> SUFFICES ASSUME IInv, [Next]_vars PROVE IInv'
  OBVIOUS
<1>1. /\ timer \in TimerState /\ timer.previous_timer_input = TimerInput(timer)
      /\ timer.previous_timer_input \in BOOLEAN
  BY DEF IInv, TypeOK, InputIsRemembered, TimerState
<1>2. CASE Dot
  BY <1>2, DotKeepsIInv
<1>3. CASE NoAccess
  BY <1>1, <1>3, AccessKeepsIInv DEF NoAccess
<1>4. CASE AccessDiv
  <2>1. Access /\ timer' = WriteDiv(timer)
    BY <1>4 DEF AccessDiv
  <2> QED
    BY <1>1, <2>1, DivFields, InputIsInputAt, AccessKeepsIInv
<1>5. ASSUME NEW value \in Byte, AccessTima(value) PROVE IInv'
  <2>1. Access /\ timer' = WriteTima(timer, value)
    BY <1>5 DEF AccessTima
  <2> QED
    BY <1>1, <2>1, TimaFields, InputIsInputAt, AccessKeepsIInv
<1>6. ASSUME NEW value \in Byte, AccessTma(value) PROVE IInv'
  <2>1. Access /\ timer' = WriteTma(timer, value)
    BY <1>6 DEF AccessTma
  <2> QED
    BY <1>1, <2>1, TmaFields, InputIsInputAt, AccessKeepsIInv
<1>7. ASSUME NEW value \in 0 .. 7, AccessTac(value) PROVE IInv'
  <2>1. Access /\ timer' = WriteTac(timer, value)
    BY <1>7 DEF AccessTac
  <2> QED
    BY <1>1, <2>1, TacFields, InputIsInputAt, AccessKeepsIInv
<1>8. ASSUME NEW flag \in BOOLEAN, WriteIf(flag) PROVE IInv'
  <2>1. timer' = timer /\ dot' = dot /\ requested' \in BOOLEAN
    BY <1>8 DEF WriteIf
  <2> QED
    BY <2>1 DEF IInv, TypeOK, InputIsRemembered, ReloadTakesOneMCycle, TimerInput, TimerEnabled
<1>9. CASE Reset
  <2>1. timer' = FreshTimer /\ requested' = FALSE /\ dot' = 0
    BY <1>9 DEF Reset
  <2>2. ReloadTakesOneMCycle'
    BY <2>1, FreshFacts, 0 % 4 = 0 DEF ReloadTakesOneMCycle
  <2>3. TypeOK'
    BY <2>1, FreshFacts DEF TypeOK
  <2>4. InputIsRemembered'
    BY <2>1, FreshFacts DEF InputIsRemembered
  <2> QED
    BY <2>2, <2>3, <2>4 DEF IInv
<1>10. CASE UNCHANGED vars
  BY <1>10 DEF vars, IInv, TypeOK, InputIsRemembered, ReloadTakesOneMCycle, TimerInput,
               TimerEnabled
<1> QED
  BY <1>2, <1>3, <1>4, <1>5, <1>6, <1>7, <1>8, <1>9, <1>10 DEF Next

LEMMA Invariance == Spec => []IInv
<1> QED
  BY InitIsSound, NextKeepsIInv, PTL DEF Spec

\* Every member of the timer keeps its range, whatever is written and when.
THEOREM TypeCorrect == Spec => []TypeOK
<1>1. IInv => TypeOK
  BY DEF IInv
<1> QED
  BY <1>1, Invariance, PTL

\* The edge detector of update_timer_edge never compares with a stale input.
THEOREM InputIsNeverStale == Spec => []InputIsRemembered
<1>1. IInv => InputIsRemembered
  BY DEF IInv
<1> QED
  BY <1>1, Invariance, PTL

\* Overflow, reload and request keep the distance of one M-cycle that tick_dots
\* counts in dots, for every choice of bits that are no faster than an M-cycle.
THEOREM ReloadsAreOnTime == Spec => []ReloadTakesOneMCycle
<1>1. IInv => ReloadTakesOneMCycle
  BY DEF IInv
<1> QED
  BY <1>1, Invariance, PTL

-----------------------------------------------------------------------------
(* The refinement of TimerCycles. *)

LEMMA SameInput ==
  ASSUME NEW d, NEW c
  PROVE  Cycles!Input(d, c) = InputAt(d, c)
BY DEF Cycles!Input, Cycles!BitIsSet, InputAt, BitIsSet

\* Within an M-cycle the input does not change.
LEMMA InputPerCycle ==
  ASSUME NEW d \in Counter, NEW c \in 0 .. 7
  PROVE  InputAt(4 * (d \div 4), c) = InputAt(d, c)
<1> DEFINE q == 4 * (d \div 4)
<1>1. CounterSize \in Nat /\ d \in Nat /\ d < CounterSize
  BY TimerAssumption DEF Counter
<1>2. q \in Nat /\ q % 4 = 0 /\ d \in {q, q + 1, q + 2, q + 3}
  BY <1>1
<1> HIDE DEF q
<1>3. ASSUME NEW e \in Nat, e + 1 <= d, (e + 1) % 4 # 0
      PROVE  InputAt(e + 1, c) = InputAt(e, c)
  <2>1. e \in Counter /\ e + 1 < CounterSize
    BY <1>1, <1>3 DEF Counter
  <2>2. (e + 1) % CounterSize = e + 1
    BY <1>1, <2>1
  <2>3. InputAt(e, c) \in BOOLEAN /\ InputAt(e + 1, c) \in BOOLEAN
    BY DEF InputAt, BitIsSet
  <2> QED
    BY <1>3, <2>1, <2>2, <2>3, InputSteps
<1>4. CASE d = q
  BY <1>4 DEF q
<1>5. CASE d = q + 1
  <2>1. q + 1 <= d /\ (q + 1) % 4 # 0
    BY <1>2, <1>5
  <2> QED
    BY <1>2, <1>3, <1>5, <2>1 DEF q
<1>6. CASE d = q + 2
  <2>1. /\ q + 1 \in Nat /\ q + 1 <= d /\ (q + 1) % 4 # 0
        /\ (q + 1) + 1 = d /\ ((q + 1) + 1) % 4 # 0
    BY <1>2, <1>6
  <2>2. InputAt(q + 1, c) = InputAt(q, c)
    BY <1>2, <1>3, <2>1
  <2>3. InputAt(d, c) = InputAt(q + 1, c)
    BY <1>1, <1>3, <2>1
  <2> QED
    BY <2>2, <2>3 DEF q
<1>7. CASE d = q + 3
  <2>1. /\ q + 1 \in Nat /\ q + 1 <= d /\ (q + 1) % 4 # 0
        /\ q + 2 \in Nat /\ (q + 1) + 1 = q + 2 /\ q + 2 <= d /\ (q + 2) % 4 # 0
        /\ (q + 2) + 1 = d /\ ((q + 2) + 1) % 4 # 0
    BY <1>2, <1>7
  <2>2. InputAt(q + 1, c) = InputAt(q, c)
    BY <1>2, <1>3, <2>1
  <2>3. InputAt(q + 2, c) = InputAt(q + 1, c)
    BY <1>3, <2>1
  <2>4. InputAt(d, c) = InputAt(q + 2, c)
    BY <1>1, <1>3, <2>1
  <2> QED
    BY <2>2, <2>3, <2>4 DEF q
<1> QED
  BY <1>2, <1>4, <1>5, <1>6, <1>7

\* The first three dots of an M-cycle change nothing that the CPU can see; the
\* fourth is the M-cycle of TimerCycles.
LEMMA DotRefines == IInv /\ IInv' /\ Dot => Cycles!MCycle \/ UNCHANGED Cycles!vars
<1> SUFFICES ASSUME IInv, IInv', Dot PROVE Cycles!MCycle \/ UNCHANGED Cycles!vars
  OBVIOUS
<1> DEFINE t == timer
           d == t.div_counter
           next == (d + 1) % CounterSize
           start == IF t.overflow_delay = 1 THEN t.tma ELSE t.tima
           falls == t.previous_timer_input /\ ~InputAt(next, t.tac)
           wraps == falls /\ start = ByteSize - 1
<1>1. /\ t \in TimerState /\ dot \in 0 .. 3 /\ dot' = dot + 1
      /\ d \in Counter /\ t.tac \in 0 .. 7
      /\ timer' = TickDot(t)
      /\ requested' = (requested \/ t.overflow_delay = 1)
  BY DEF IInv, TypeOK, Dot, TimerState
<1>2. /\ timer'.div_counter = next /\ timer'.tma = t.tma /\ timer'.tac = t.tac
      /\ timer'.reload_cycle = (t.overflow_delay = 1)
      /\ timer'.tima = (IF wraps THEN 0 ELSE IF falls THEN start + 1 ELSE start)
      /\ timer'.overflow_delay = (IF wraps THEN 4
                                  ELSE IF t.overflow_delay = 0 THEN 0
                                  ELSE t.overflow_delay - 1)
  BY <1>1, TickFields
<1>3. /\ d % 4 = dot /\ t.overflow_delay \in {0, 4 - dot}
      /\ t.overflow_delay # 0
           => (d - dot) % 8 = 0 \/ ~t.previous_timer_input
      /\ t.previous_timer_input = InputAt(d, t.tac)
  BY <1>1, InputIsInputAt DEF IInv, ReloadTakesOneMCycle, InputIsRemembered
<1>4. /\ next \in Counter
      /\ next = (IF d + 1 = CounterSize THEN 0 ELSE d + 1)
      /\ d \in Nat /\ next \in Nat /\ CounterSize \in Nat /\ CounterSize % 8 = 0
  BY <1>1, CounterStep, TimerAssumption DEF Counter
<1>5. falls => (d + 1) % 8 = 0
  BY <1>1, <1>3, InputSteps
<1>6. ~(falls /\ t.overflow_delay # 0)
  <2> SUFFICES ASSUME falls, t.overflow_delay # 0 PROVE FALSE
    OBVIOUS
  <2>1. (d + 1) % 8 = 0
    BY <1>5
  <2>2. (d - dot) % 8 = 0
    BY <1>3
  <2> QED
    BY <1>1, <1>4, <2>1, <2>2, NoEdgeSoSoon
<1>7. CASE dot # 3
  <2>1. ~falls /\ t.overflow_delay # 1
    BY <1>1, <1>3, <1>4, <1>5, <1>7
  <2>2. next \div 4 = d \div 4
    BY <1>1, <1>3, <1>4, <1>7
  <2>3. timer'.tima = t.tima /\ requested' = requested
    BY <1>1, <1>2, <2>1 DEF IInv, TypeOK
  <2>4. /\ timer'.overflow_delay # 0 <=> t.overflow_delay # 0
        /\ timer'.overflow_delay = 0 <=> t.overflow_delay = 0
    BY <1>1, <1>2, <1>3, <1>7, <2>1
  <2>5. dot # 4 /\ dot' # 4
    BY <1>1, <1>7
  <2> QED
    BY <1>2, <2>2, <2>3, <2>4, <2>5 DEF Cycles!vars
<1>8. CASE dot = 3
  <2>1. dot' = 4 /\ dot # 4
    BY <1>1, <1>8
  <2>2. next \div 4 = (d \div 4 + 1) % (CounterSize \div 4)
    <3>1. CASE d + 1 = CounterSize
      <4>1. next = 0 /\ d \div 4 + 1 = CounterSize \div 4 /\ CounterSize \div 4 \in Nat \ {0}
        BY <1>3, <1>4, <1>8, <3>1
      <4> QED
        BY <4>1
    <3>2. CASE d + 1 # CounterSize
      <4>1. d + 1 < CounterSize
        BY <1>1, <1>4, <3>2 DEF Counter
      <4>2. next \div 4 = d \div 4 + 1 /\ d \div 4 + 1 < CounterSize \div 4
        BY <1>3, <1>4, <1>8, <3>2, <4>1
      <4> QED
        BY <1>4, <4>2
    <3> QED
      BY <3>1, <3>2
  <2>3. Cycles!NextCycle = next \div 4
    BY <2>2 DEF Cycles!NextCycle
  <2>4. /\ Cycles!Input(4 * (d \div 4), t.tac) = t.previous_timer_input
        /\ Cycles!Input(4 * Cycles!NextCycle, t.tac) = InputAt(next, t.tac)
    BY <1>1, <1>3, <1>4, <2>3, SameInput, InputPerCycle
  <2>5. CASE t.overflow_delay # 0
    <3>1. t.overflow_delay = 1 /\ ~falls
      BY <1>3, <1>6, <1>8, <2>5
    <3>2. timer'.reload_cycle /\ requested' = TRUE
      BY <1>1, <1>2, <3>1
    <3>3. ~wraps /\ start = t.tma
      BY <3>1
    <3>4. timer'.tima = t.tma
      BY <1>2, <3>1, <3>3
    <3>5. timer'.overflow_delay = 0
      BY <1>2, <3>1, <3>3
    <3> QED
      BY <1>2, <2>1, <2>3, <2>5, <3>2, <3>4, <3>5 DEF Cycles!MCycle
  <2>6. CASE t.overflow_delay = 0
    <3>0. t.overflow_delay # 1
      BY <2>6
    <3>1. /\ start = t.tima /\ requested' = requested /\ timer'.reload_cycle = FALSE
      BY <1>1, <1>2, <3>0 DEF IInv, TypeOK
    <3>2. Cycles!Count(falls, "none")
      <4>1. CASE ~falls
        BY <1>2, <2>6, <3>1, <4>1 DEF Cycles!Count
      <4>2. CASE falls /\ t.tima = ByteSize - 1
        BY <1>2, <3>1, <4>2 DEF Cycles!Count
      <4>3. CASE falls /\ t.tima # ByteSize - 1
        BY <1>2, <2>6, <3>1, <4>3 DEF Cycles!Count
      <4> QED
        BY <4>1, <4>2, <4>3
    <3> QED
      BY <1>2, <2>1, <2>3, <2>4, <2>6, <3>1, <3>2 DEF Cycles!MCycle
  <2> QED
    BY <2>5, <2>6
<1> QED
  BY <1>7, <1>8

\* What an access finds and leaves, as TimerCycles sees it.
LEMMA AccessRefines ==
  ASSUME IInv, Access
  PROVE  /\ Cycles!Access
         /\ timer \in TimerState /\ 4 * (timer.div_counter \div 4) = timer.div_counter
         /\ \A c \in 0 .. 7 :
              Cycles!Input(4 * (timer.div_counter \div 4), c) = InputAt(timer.div_counter, c)
         /\ timer.previous_timer_input = InputAt(timer.div_counter, timer.tac)
         /\ dot = 4 /\ dot' = 0
<1>1. /\ dot = 4 /\ dot' = 0 /\ requested' = requested /\ timer \in TimerState
      /\ timer.previous_timer_input = InputAt(timer.div_counter, timer.tac)
  BY InputIsInputAt DEF IInv, TypeOK, InputIsRemembered, Access
<1>2. timer.div_counter % 4 = 0 /\ timer.div_counter \in Nat
  BY <1>1, TimerAssumption DEF IInv, ReloadTakesOneMCycle, TimerState, Counter
<1>3. 4 * (timer.div_counter \div 4) = timer.div_counter
  BY <1>2
<1>4. Cycles!Access
  BY <1>1 DEF Cycles!Access
<1> QED
  BY <1>1, <1>3, <1>4, SameInput

\* Counting in the one timer is counting in the other.
LEMMA CountRefines ==
  ASSUME IInv, Access, NEW falls \in BOOLEAN,
         LET wraps == falls /\ timer.tima = ByteSize - 1
         IN /\ timer'.tima = (IF wraps THEN 0 ELSE IF falls THEN timer.tima + 1 ELSE timer.tima)
            /\ timer'.overflow_delay = (IF wraps THEN 4 ELSE timer.overflow_delay)
  PROVE  Cycles!Count(falls, Cycles!Settled)
<1>1. dot = 4 /\ dot' = 0
  BY DEF Access
<1>2. CASE falls /\ timer.tima = ByteSize - 1
  <2>1. timer'.tima = 0 /\ timer'.overflow_delay = 4
    BY <1>2
  <2>2. timer'.overflow_delay # 0
    BY <2>1
  <2> QED
    BY <1>2, <2>1, <2>2 DEF Cycles!Count
<1>3. CASE ~(falls /\ timer.tima = ByteSize - 1)
  <2>1. /\ timer'.tima = (IF falls THEN timer.tima + 1 ELSE timer.tima)
        /\ timer'.overflow_delay = timer.overflow_delay
    BY <1>3
  <2>2. dot' # 4
    BY <1>1
  <2>3. CASE falls
    BY <1>1, <1>3, <2>1, <2>2, <2>3 DEF Cycles!Count, Cycles!Settled
  <2>4. CASE ~falls
    BY <1>1, <1>3, <2>1, <2>2, <2>4 DEF Cycles!Count, Cycles!Settled
  <2> QED
    BY <2>3, <2>4
<1> QED
  BY <1>2, <1>3

LEMMA NoAccessRefines == IInv /\ NoAccess => Cycles!NoAccess
<1> SUFFICES ASSUME IInv, NoAccess PROVE Cycles!NoAccess
  OBVIOUS
<1>1. Access /\ timer' = timer
  BY DEF NoAccess
<1>2. Cycles!Access /\ dot = 4 /\ dot' # 4
  BY <1>1, AccessRefines
<1> QED
  BY <1>1, <1>2 DEF Cycles!NoAccess, Cycles!Settled

LEMMA DivRefines == IInv /\ AccessDiv => Cycles!WriteDiv
<1> SUFFICES ASSUME IInv, AccessDiv PROVE Cycles!WriteDiv
  OBVIOUS
<1> DEFINE falls == timer.previous_timer_input /\ ~InputAt(0, timer.tac)
<1>1. Access /\ timer' = WriteDiv(timer)
  BY DEF AccessDiv
<1>2. /\ Cycles!Access /\ timer \in TimerState /\ timer.tac \in 0 .. 7
      /\ Cycles!Input(4 * (timer.div_counter \div 4), timer.tac) = timer.previous_timer_input
  BY <1>1, AccessRefines DEF TimerState
<1>3. /\ timer'.div_counter = 0 /\ timer'.tma = timer.tma /\ timer'.tac = timer.tac
      /\ timer'.tima = (IF falls /\ timer.tima = ByteSize - 1 THEN 0
                        ELSE IF falls THEN timer.tima + 1 ELSE timer.tima)
      /\ timer'.overflow_delay =
           (IF falls /\ timer.tima = ByteSize - 1 THEN 4 ELSE timer.overflow_delay)
  BY <1>1, <1>2, DivFields
<1>4. Cycles!Count(falls, Cycles!Settled)
  BY <1>1, <1>3, CountRefines
<1>5. timer'.div_counter \div 4 = 0
  BY <1>3
<1>6. Cycles!Input(0, timer.tac) = InputAt(0, timer.tac)
  BY SameInput
<1> QED
  BY <1>2, <1>3, <1>4, <1>5, <1>6 DEF Cycles!WriteDiv

LEMMA TimaRefines ==
  ASSUME IInv, NEW value \in Byte, AccessTima(value)
  PROVE  Cycles!WriteTima(value)
<1>1. Access /\ timer' = WriteTima(timer, value)
  BY DEF AccessTima
<1>2. Cycles!Access /\ timer \in TimerState /\ dot = 4 /\ dot' # 4
  BY <1>1, AccessRefines
<1>3. /\ timer'.div_counter = timer.div_counter
      /\ timer'.tma = timer.tma /\ timer'.tac = timer.tac
      /\ timer'.tima = (IF timer.reload_cycle THEN timer.tima ELSE value)
      /\ timer'.overflow_delay = (IF timer.reload_cycle THEN timer.overflow_delay ELSE 0)
  BY <1>1, <1>2, TimaFields
<1>4. timer.reload_cycle => timer.overflow_delay = 0
  BY <1>2 DEF IInv, ReloadTakesOneMCycle
<1> QED
  BY <1>2, <1>3, <1>4 DEF Cycles!WriteTima

LEMMA TmaRefines ==
  ASSUME IInv, NEW value \in Byte, AccessTma(value)
  PROVE  Cycles!WriteTma(value)
<1>1. Access /\ timer' = WriteTma(timer, value)
  BY DEF AccessTma
<1>2. Cycles!Access /\ timer \in TimerState /\ dot = 4 /\ dot' # 4
  BY <1>1, AccessRefines
<1>3. /\ timer'.div_counter = timer.div_counter
      /\ timer'.tma = value /\ timer'.tac = timer.tac
      /\ timer'.tima = (IF timer.reload_cycle THEN value ELSE timer.tima)
      /\ timer'.overflow_delay = timer.overflow_delay
  BY <1>1, <1>2, TmaFields
<1>4. timer.reload_cycle => timer.overflow_delay = 0
  BY <1>2 DEF IInv, ReloadTakesOneMCycle
<1> QED
  BY <1>2, <1>3, <1>4 DEF Cycles!WriteTma, Cycles!Settled

LEMMA TacRefines ==
  ASSUME IInv, NEW value \in 0 .. 7, AccessTac(value)
  PROVE  Cycles!WriteTac(value)
<1> DEFINE falls == timer.previous_timer_input /\ ~InputAt(timer.div_counter, value)
<1>1. Access /\ timer' = WriteTac(timer, value)
  BY DEF AccessTac
<1>2. /\ Cycles!Access /\ timer \in TimerState /\ timer.tac \in 0 .. 7
      /\ Cycles!Input(4 * (timer.div_counter \div 4), timer.tac) = timer.previous_timer_input
      /\ Cycles!Input(4 * (timer.div_counter \div 4), value) = InputAt(timer.div_counter, value)
  BY <1>1, AccessRefines DEF TimerState
<1>3. /\ timer'.div_counter = timer.div_counter
      /\ timer'.tma = timer.tma /\ timer'.tac = value
      /\ timer'.tima = (IF falls /\ timer.tima = ByteSize - 1 THEN 0
                        ELSE IF falls THEN timer.tima + 1 ELSE timer.tima)
      /\ timer'.overflow_delay =
           (IF falls /\ timer.tima = ByteSize - 1 THEN 4 ELSE timer.overflow_delay)
  BY <1>1, <1>2, TacFields
<1>4. Cycles!Count(falls, Cycles!Settled)
  BY <1>1, <1>3, CountRefines
<1> QED
  BY <1>2, <1>3, <1>4 DEF Cycles!WriteTac

LEMMA NextRefines == IInv /\ IInv' /\ [Next]_vars => [Cycles!Next]_Cycles!vars
<1> SUFFICES ASSUME IInv, IInv', [Next]_vars PROVE [Cycles!Next]_Cycles!vars
  OBVIOUS
<1>1. CASE Dot
  BY <1>1, DotRefines DEF Cycles!Next
<1>2. CASE NoAccess
  BY <1>2, NoAccessRefines DEF Cycles!Next
<1>3. CASE AccessDiv
  BY <1>3, DivRefines DEF Cycles!Next
<1>4. ASSUME NEW value \in Byte, AccessTima(value) PROVE Cycles!Next
  BY <1>4, TimaRefines DEF Cycles!Next, Cycles!Byte, Byte
<1>5. ASSUME NEW value \in Byte, AccessTma(value) PROVE Cycles!Next
  BY <1>5, TmaRefines DEF Cycles!Next, Cycles!Byte, Byte
<1>6. ASSUME NEW value \in 0 .. 7, AccessTac(value) PROVE Cycles!Next
  BY <1>6, TacRefines DEF Cycles!Next
<1>7. ASSUME NEW flag \in BOOLEAN, WriteIf(flag) PROVE Cycles!Next
  <2>1. Cycles!WriteIf(flag)
    BY <1>7 DEF WriteIf, Cycles!WriteIf
  <2> QED
    BY <2>1 DEF Cycles!Next
<1>8. CASE Reset
  <2>1. dot = 0 /\ dot' = 0 /\ timer' = FreshTimer /\ requested' = FALSE
    BY <1>8 DEF Reset
  <2>2. Cycles!Reset
    BY <2>1, 0 \div 4 = 0 DEF Cycles!Reset, FreshTimer
  <2> QED
    BY <2>2 DEF Cycles!Next
<1>9. CASE UNCHANGED vars
  BY <1>9 DEF vars, Cycles!vars
<1> QED
  BY <1>1, <1>2, <1>3, <1>4, <1>5, <1>6, <1>7, <1>8, <1>9 DEF Next

\* The timer that tick_dots moves dot by dot is, at every CPU access, the timer
\* that counts whole M-cycles: wrap, one M-cycle of zero, reload with request.
THEOREM TimerIsExactPerMCycle == Spec => ImplementsCycles
<1>1. Init => Cycles!Init
  BY 0 \div 4 = 0 DEF Init, Cycles!Init, FreshTimer
<1> QED
  BY <1>1, Invariance, NextRefines, PTL DEF Spec, ImplementsCycles, Cycles!Spec
=============================================================================
