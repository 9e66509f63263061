------------------------------ MODULE RtcChip ------------------------------
(***************************************************************************)
(* What the clock of an MBC3 cartridge promises, seen from outside: a chip *)
(* that counts every millisecond by itself, whose battery keeps it going   *)
(* while the cartridge is not in use.  Module Rtc, which computes the      *)
(* registers only when somebody looks at them, implements it.              *)
(***************************************************************************)
EXTENDS Integers

CONSTANTS
  Millis,        \* milliseconds per second
  Ticks,         \* oscillator ticks per second
  Limit,         \* the value at which seconds, minutes and hours carry
  Size,          \* number of values those three registers can hold
  LowDays        \* number of values of the low byte of the day counter

VARIABLES
  live,          \* the registers of the chip
  counting,      \* the chip has been powered up
  latch,         \* the copy of the registers that programs read
  exists,        \* a save of this cartridge exists
  kept,          \* the registers it holds
  away,          \* milliseconds since then
  loads          \* how often a cartridge was inserted or a file imported

chip == <<live, counting, latch, exists, kept, away, loads>>

\* A register that holds an illegal value counts to its last value and wraps
\* without a carry, as the hardware does.
Carries(value, field) == value = Limit[field] - 1

Up(value, field) == IF Carries(value, field) THEN 0 ELSE (value + 1) % Size[field]

Legal(r) == \A field \in DOMAIN Limit : r[field] < Limit[field]

\* More days than the counter has, which only a file can bring, overflow with the
\* first second of a legal time.
Second(r) ==
  LET minute == Carries(r.seconds, "seconds")
      hour == minute /\ Carries(r.minutes, "minutes")
      day == hour /\ Carries(r.hours, "hours")
      days == IF day THEN r.days + 1 ELSE r.days
  IN [r EXCEPT !.seconds = Up(@, "seconds"),
               !.minutes = IF minute THEN Up(@, "minutes") ELSE @,
               !.hours = IF hour THEN Up(@, "hours") ELSE @,
               !.days = IF Legal(r) THEN days % (2 * LowDays) ELSE @,
               !.day_carry = @ \/ (Legal(r) /\ days > 2 * LowDays - 1)]

\* A file can hold any numbers.
Registers ==
  [ phase : Nat, seconds : Nat, minutes : Nat, hours : Nat, days : Nat,
    halted : BOOLEAN, day_carry : BOOLEAN ]

\* The phase counts parts of 1 / (Millis * Ticks) second.
Settled[r \in Registers] ==
  IF r.phase < Millis * Ticks THEN r
  ELSE Settled[Second([r EXCEPT !.phase = @ - Millis * Ticks])]

Millisecond(r) == IF r.halted THEN r ELSE Settled[[r EXCEPT !.phase = @ + Ticks]]

\* Registers that are left to themselves for some milliseconds.
Gaps == [registers : Registers, milliseconds : Nat]

AfterGap[gap \in Gaps] ==
  IF gap.milliseconds = 0 THEN gap.registers
  ELSE AfterGap[[registers |-> Millisecond(gap.registers), milliseconds |-> gap.milliseconds - 1]]

After(r, milliseconds) == AfterGap[[registers |-> r, milliseconds |-> milliseconds]]

Zero == [ phase |-> 0, seconds |-> 0, minutes |-> 0, hours |-> 0, days |-> 0,
          halted |-> FALSE, day_carry |-> FALSE ]

-----------------------------------------------------------------------------
Pass ==
  /\ UNCHANGED <<counting, latch, exists, kept, loads>>
  /\ away' = IF exists THEN away + 1 ELSE away
  /\ live' = IF counting THEN Millisecond(live) ELSE live

PowerUp == counting' = TRUE /\ UNCHANGED <<latch, exists, kept, away, live, loads>>

\* A program writes one register; the one of the seconds resets the phase.
WriteOne(before, after) ==
  \/ \E field \in DOMAIN Limit : \E value \in 0 .. Size[field] - 1 :
       after = [before EXCEPT ![field] = value, !.phase = IF field = "seconds" THEN 0 ELSE @]
  \/ \E low \in 0 .. LowDays - 1 :
       after = [before EXCEPT !.days = ((@ \div LowDays) % 2) * LowDays + low]
  \/ \E high \in 0 .. 1, halted, carry \in BOOLEAN :
       after = [before EXCEPT !.days = high * LowDays + (@ % LowDays),
                              !.halted = halted, !.day_carry = carry]

Write ==
  counting' = TRUE /\ UNCHANGED <<latch, exists, kept, away, loads>> /\ WriteOne(live, live')

Latch ==
  /\ counting' = TRUE /\ latch' = [live EXCEPT !.phase = 0]
  /\ UNCHANGED <<exists, kept, away, live, loads>>

Save ==
  /\ exists' = TRUE /\ away' = 0 /\ counting' = TRUE /\ UNCHANGED <<latch, live, loads>>
  /\ kept' = live

\* The chip takes up what was kept, any time ago: no moment of it is lost or
\* counted twice.
TakeUp == counting' = TRUE /\ away' \in Nat /\ live' = After(kept', away') /\ loads' = loads + 1

\* The player comes back.
Restore == exists /\ TakeUp /\ latch' = Zero /\ UNCHANGED <<exists, kept>>

\* The player imports a file, whoever made it, into the running console.
Import == exists' = TRUE /\ kept' \in Registers /\ TakeUp /\ UNCHANGED latch

NewCartridge ==
  /\ ~exists /\ counting' = FALSE /\ latch' = Zero /\ loads' = loads + 1
  /\ live' = Zero /\ UNCHANGED <<exists, kept, away>>

Init ==
  /\ latch = Zero /\ loads = 0
  /\ kept \in Registers /\ away \in Nat
  /\ \/ ~exists /\ counting = FALSE /\ live = Zero
     \/ exists /\ counting = TRUE /\ live = After(kept, away)

Next == Pass \/ PowerUp \/ Latch \/ Write \/ Save \/ Restore \/ Import \/ NewCartridge

Spec == Init /\ [][Next]_chip
=============================================================================
