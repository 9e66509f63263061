---------------------------- MODULE TimedWrites ----------------------------
(***************************************************************************)
(* The CPU's timed bus writes (cpu.cpp: schedule_dmg_io_write, schedule_    *)
(* write, tick_scheduled_writes, write8).  On a DMG some LCD registers take *)
(* a CPU write before its M-cycle ends and IF takes it after, so the CPU    *)
(* schedules such writes an M-cycle ahead.  An instruction is the sequence  *)
(* of what its M-cycles do to the bus; one register is watched.             *)
(* The names differ from those of CpuControl, which models the same class.  *)
(***************************************************************************)
EXTENDS Integers, Sequences

CONSTANTS
  Slots,          \* writes in flight, the size of timed_writes: 4
  AddressSlots,   \* accesses announced, the size of scheduled_io_write_addresses: 2
  Addresses,      \* low bytes of the addresses that are written
  Values          \* sets of the bits that are one, of which "bit0" is the lowest

VARIABLES
  bus,            \* the members of class CPU that hold timed writes
  rest,           \* the M-cycles that the instruction still has to run
  timed_dot,      \* dots of the current M-cycle that have run
  plain,          \* history: a HALT has kept the instruction from announcing
  watched, io     \* a register, and what it holds

timed_vars == <<bus, rest, timed_dot, plain, watched, io>>

IF_ == 15         \* 0xFF0F, and the LCD registers from 0xFF40
LCDC == 64
STAT == 65
SCY == 66
SCX == 67
Palettes == {71, 72, 73}

\* Two writes with a mixture each, and their two addresses.
SlotsSuffice ==
  /\ Slots \in Nat /\ Slots >= 4 /\ AddressSlots \in Nat /\ AddressSlots >= 2
  /\ Addresses \subseteq 0 .. 255
  /\ {} \in Values
  /\ \A v, w \in Values : v \union w \in Values /\ v \intersect {"bit0"} \in Values

ASSUME TimedWritesAssumption == SlotsSuffice

-----------------------------------------------------------------------------
(* What the instructions do in their M-cycles.  The dots that an announcement *)
(* gives count to the end of the M-cycle of the write. *)

Announced(address, value, dots) == [address |-> address, value |-> value, dots |-> dots]
WriteOf(address, value) == [address |-> address, value |-> value]

Announcing(announcements) == [announce |-> announcements, write |-> <<>>]
Writing(address, value) == [announce |-> <<>>, write |-> <<WriteOf(address, value)>>]
NoAccess == Announcing(<<>>)

\* LD (HL),r  LD (BC),A  LD (DE),A  LD (HL+),A  LD (HL-),A  LD (C),A
StoreAtFetch(a, v) == << Announcing(<<Announced(a, v, 4)>>), Writing(a, v) >>

\* LD (HL),n  LD (nn),A  LDH (n),A  INC (HL)  DEC (HL), and shifts, RES and SET
StoreLater(a, v) == <<NoAccess>> \o StoreAtFetch(a, v)

\* LD (nn),SP
StoreSp(a, v, w) ==
  << NoAccess, Announcing(<<Announced(a, v, 4), Announced(a + 1, w, 8)>>),
     Writing(a, v), Writing(a + 1, w) >>

\* PUSH  CALL  RST, and the dispatch of an interrupt
Push(a, v, w) ==
  << NoAccess, Announcing(<<Announced(a, v, 4)>>),
     [announce |-> <<Announced(a - 1, w, 4)>>, write |-> <<WriteOf(a, v)>>],
     Writing(a - 1, w) >>

\* Only what is written to the watched register is told apart.
ValuesOf(a) == IF a = watched THEN Values ELSE {{}}

Instructions ==
  {<<NoAccess>>}
    \union (UNION {UNION {{StoreAtFetch(a, v), StoreLater(a, v)} : v \in ValuesOf(a)} :
                     a \in Addresses})
    \union (UNION {{StoreSp(a, v, w) : v \in ValuesOf(a), w \in ValuesOf(a + 1)} :
                     a \in {x \in Addresses : x + 1 \in Addresses}})
    \union (UNION {{Push(a, v, w) : v \in ValuesOf(a), w \in ValuesOf(a - 1)} :
                     a \in {x \in Addresses : x - 1 \in Addresses}})

-----------------------------------------------------------------------------
(* Member functions, from one state [bus, io] to the next. *)

EmptySlot == [address |-> 0, value |-> {}, dots_remaining |-> 0]

FreshBus ==
  [ timed_writes |-> [i \in 1 .. Slots |-> EmptySlot], announced |-> <<>>,
    scheduling |-> FALSE, asserted |-> TRUE ]

\* write8_now, as the watched register sees it.
WriteNow(s, address, value) ==
  IF address = watched THEN [s EXCEPT !.io = value] ELSE s

\* The first free slot takes the write; without one the assertion fails, and a
\* build without assertions drops the write.
ScheduleWrite(s, address, value, dots) ==
  LET free == {i \in 1 .. Slots : s.timed_writes[i].dots_remaining = 0} IN
  IF free = {} \/ dots <= 0 THEN [s EXCEPT !.asserted = FALSE]
  ELSE LET slot == CHOOSE i \in free : \A j \in free : i <= j IN
       [s EXCEPT !.timed_writes[slot] =
          [address |-> address, value |-> value, dots_remaining |-> dots]]

\* read8 of a register that is about to be written.
OldValue(s, address) == IF address = watched THEN s.io ELSE {}

\* Mutant: SCX takes the write together with SCY.
ScheduleDmgIoWriteLateScx(s, a) ==
  IF ~s.scheduling \/ a.address \notin {SCY, SCX} THEN s
  ELSE LET t == ScheduleWrite(s, a.address, a.value, a.dots - 1) IN
       [t EXCEPT !.announced = Append(@, a.address)]

\* LCDC and the palettes show a mixture of old and new for one dot.
ScheduleDmgIoWrite(s, a) ==
  LET old == OldValue(s, a.address)
      blend == IF a.address = LCDC THEN old \union (a.value \intersect {"bit0"})
               ELSE old \union a.value
      timed ==
        CASE a.address \in {LCDC} \union Palettes ->
               ScheduleWrite(ScheduleWrite(s, a.address, blend, a.dots - 2),
                             a.address, a.value, a.dots - 1)
          [] a.address = SCY -> ScheduleWrite(s, SCY, a.value, a.dots - 1)
          [] OTHER -> ScheduleWrite(s, SCX, a.value, a.dots - 2)
  IN  IF ~s.scheduling \/ a.address \notin {LCDC, SCY, SCX} \union Palettes THEN s
      ELSE IF Len(s.announced) >= AddressSlots THEN [timed EXCEPT !.asserted = FALSE]
      ELSE [timed EXCEPT !.announced = Append(@, a.address)]

\* The places where an address is announced.
Places(s, address) == {k \in 1 .. Len(s.announced) : s.announced[k] = address}

\* Mutant: an announced write is found but stays announced.
Write8Kept(s, w) ==
  IF Places(s, w.address) # {} THEN s
  ELSE IF s.scheduling /\ w.address = IF_ THEN ScheduleWrite(s, IF_, w.value, 1)
  ELSE WriteNow(s, w.address, w.value)

\* write8: an announced write has been made already, and the announcements behind
\* it move up; STAT is written now, and IF one dot later.
Write8(s, w) ==
  LET places == Places(s, w.address)
      first == CHOOSE k \in places : \A j \in places : k <= j
  IN  IF places # {}
      THEN [s EXCEPT !.announced = [k \in 1 .. Len(@) - 1 |-> IF k < first THEN @[k] ELSE @[k + 1]]]
      ELSE IF s.scheduling /\ w.address = IF_ THEN ScheduleWrite(s, IF_, w.value, 1)
      ELSE WriteNow(s, w.address, w.value)

\* tick_scheduled_writes: every slot in use loses a dot, and of those that have none
\* left the last one has the last word.  A slot without dots is free, and what it
\* held is never read again.
TickScheduledWrites(s) ==
  LET landing == {i \in 1 .. Slots : /\ s.timed_writes[i].dots_remaining = 1
                                     /\ s.timed_writes[i].address = watched}
      last == CHOOSE i \in landing : \A j \in landing : j <= i
      Ticked(slot) == IF slot.dots_remaining <= 1 THEN EmptySlot
                      ELSE [slot EXCEPT !.dots_remaining = @ - 1]
  IN  [s EXCEPT !.timed_writes = [i \in 1 .. Slots |-> Ticked(@[i])],
                !.io = IF landing = {} THEN @ ELSE s.timed_writes[last].value]

\* One M-cycle's access: two announcements at most, then the write.
Execute(s, cycle) ==
  LET Announce(t, k) ==
        IF k <= Len(cycle.announce) THEN ScheduleDmgIoWrite(t, cycle.announce[k]) ELSE t
      announced == Announce(Announce(s, 1), 2)
  IN  IF cycle.write = <<>> THEN announced ELSE Write8(announced, cycle.write[1])

-----------------------------------------------------------------------------
(* Steps. *)

State == [ timed_writes |-> bus.timed_writes, announced |-> bus.announced,
           scheduling |-> bus.scheduling, asserted |-> bus.asserted, io |-> io ]

Becomes(s) ==
  /\ bus' = [ timed_writes |-> s.timed_writes, announced |-> s.announced,
              scheduling |-> s.scheduling, asserted |-> s.asserted ]
  /\ io' = s.io

TimedDot ==
  /\ timed_dot < 4 /\ timed_dot' = timed_dot + 1
  /\ Becomes(TickScheduledWrites(State))
  /\ UNCHANGED <<rest, plain, watched>>

\* The access that ends an M-cycle; scheduling_bus_writes is set for its time.
RunMCycle(cycles, scheduling) ==
  /\ timed_dot = 4 /\ timed_dot' = 0
  /\ Becomes([Execute([State EXCEPT !.scheduling = scheduling], Head(cycles))
                EXCEPT !.scheduling = FALSE])
  /\ rest' = Tail(cycles) /\ UNCHANGED watched

TimedContinue == rest # <<>> /\ UNCHANGED plain /\ RunMCycle(rest, TRUE)

TimedFetch ==
  /\ rest = <<>> /\ plain' = FALSE
  /\ \E cycles \in Instructions : RunMCycle(cycles, TRUE)

\* Out of HALT the first M-cycle runs in the branch of the halted CPU.
FetchAfterHalt ==
  /\ rest = <<>>
  /\ \E cycles \in Instructions :
       RunMCycle(cycles, FALSE) /\ plain' = (Head(cycles).announce # <<>>)

TimedReset ==
  /\ timed_dot = 0 /\ bus' = FreshBus /\ rest' = <<>> /\ plain' = FALSE /\ io' = {}
  /\ UNCHANGED <<timed_dot, watched>>

TimedInit ==
  /\ bus = FreshBus /\ rest = <<>> /\ timed_dot = 0 /\ plain = FALSE /\ io = {}
  /\ watched \in Addresses

TimedNext == TimedDot \/ TimedContinue \/ TimedFetch \/ FetchAfterHalt \/ TimedReset

TimedSpec == TimedInit /\ [][TimedNext]_timed_vars

-----------------------------------------------------------------------------
(* Properties. *)

Slot == [address : 0 .. 255, value : Values, dots_remaining : 0 .. 7]

\* No assertion of the write schedule fails: a slot is free for every timed
\* write, an address for every announcement, and no write is timed into the past.
AssertionsHold ==
  /\ bus.asserted /\ Len(bus.announced) <= AddressSlots
  /\ bus.timed_writes \in [1 .. Slots -> Slot]

\* Every CPU write reaches its register once and in its dot.
Due ==
  {[address |-> rest[k].write[1].address, value |-> rest[k].write[1].value,
    left |-> 4 * k - timed_dot, plain |-> plain] :
      k \in {j \in 1 .. Len(rest) : rest[j].write # <<>>}}
    \union {[address |-> IF_, value |-> bus.timed_writes[i].value, left |-> 0, plain |-> plain] :
             i \in {j \in 1 .. Slots : /\ bus.timed_writes[j].address = IF_
                                       /\ bus.timed_writes[j].dots_remaining # 0}}

Registers == INSTANCE BusWrites WITH due <- Due, dot <- timed_dot

ImplementsBusWrites == Registers!Spec
=============================================================================
