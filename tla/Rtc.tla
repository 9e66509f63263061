-------------------------------- MODULE Rtc --------------------------------
(***************************************************************************)
(* The clock of an MBC3 cartridge: Cartridge's mbc3_rtc and its time       *)
(* anchor, and the functions of WebGameBoy that feed it with the time and  *)
(* carry its registers from one page to the next.                          *)
(*                                                                         *)
(* The registers are computed only when somebody looks at them: a program  *)
(* that writes external RAM, reads a clock register or latches, and the    *)
(* page that makes a save.  Each brings them from the anchor to now.       *)
(* The mapper's ram_enabled and rtc_register_select are inputs here, since *)
(* a program can set them to anything before an access.  So are the files  *)
(* that the player imports, whose registers nobody validates.              *)
(***************************************************************************)
EXTENDS Integers

CONSTANTS
  Millis,        \* milliseconds_per_second, 1000
  Ticks,         \* rtc_ticks_per_second, 32768
  Limit,         \* 60 seconds, 60 minutes, 24 hours
  Size,          \* 64, 64 and 32: the values those registers can hold
  LowDays,       \* 256: values of the low byte of the day counter, of 9 bits
  Byte,          \* 256: the values of an octet of a save
  Word,          \* 65536: the values of two of them
  Files,         \* the saves that the player may have, of whatever origin
  ProgramWrites, \* the writes to clock registers that programs make
  MaxTime,       \* bound: the time shown by the system's clock
  MaxAccesses,   \* bound: writes of the program that change the cartridge's clock
  MaxSaves,      \* bound: saves that are made
  MaxLoads       \* bound: times that a cartridge is inserted or a save imported

Fields == {"seconds", "minutes", "hours"}

ASSUME RtcAssumption ==
  /\ Millis \in Nat \ {0} /\ Ticks \in Nat \ {0} /\ LowDays \in Nat \ {0}
  /\ Limit \in [Fields -> Nat \ {0}] /\ Size \in [Fields -> Nat \ {0}]
  /\ Byte \in Nat /\ Word \in Nat /\ Millis <= Word /\ Ticks <= Word /\ 2 * LowDays <= Word
  /\ \A field \in Fields : Limit[field] <= Size[field] /\ Size[field] <= Byte
  /\ MaxTime \in Nat /\ MaxAccesses \in Nat /\ MaxSaves \in Nat /\ MaxLoads \in Nat

VARIABLES
  cart,          \* the clock of the inserted cartridge and its dirty flag
  page,          \* the page's sources of time
  saved,         \* the last portable save, if one exists
  budget         \* what the bounds leave

vars == <<cart, page, saved, budget>>

Days == 2 * LowDays
SecondsPerDay == Limit["hours"] * Limit["minutes"] * Limit["seconds"]

\* What the variables of the clock can hold, and so the registers in a file.
Registers ==
  [ subsecond_ticks : 0 .. Word - 1, subsecond_tick_thousandths : 0 .. Word - 1,
    seconds : 0 .. Byte - 1, minutes : 0 .. Byte - 1, hours : 0 .. Byte - 1,
    days : 0 .. Word - 1, halted : BOOLEAN, day_carry : BOOLEAN ]

FreshRtc ==
  [ subsecond_ticks |-> 0, subsecond_tick_thousandths |-> 0,
    seconds |-> 0, minutes |-> 0, hours |-> 0, days |-> 0,
    halted |-> FALSE, day_carry |-> FALSE ]

\* A cartridge without a save is as good as one saved fresh.
NoSave == [exists |-> FALSE, registers |-> FreshRtc, saved_at |-> 0]

\* Cartridge::configure_mapper.
FreshCart ==
  [ rtc |-> FreshRtc, latched |-> FreshRtc, latch_armed |-> FALSE,
    anchor |-> 0, anchored |-> FALSE, dirty |-> FALSE ]

-----------------------------------------------------------------------------
(* The registers move on. *)

\* tick_rtc_second: only a counter at its limit carries.
TickSecond(r) ==
  IF r.seconds # Limit["seconds"] - 1
  THEN [r EXCEPT !.seconds = (@ + 1) % Size["seconds"]]
  ELSE IF r.minutes # Limit["minutes"] - 1
  THEN [r EXCEPT !.seconds = 0, !.minutes = (@ + 1) % Size["minutes"]]
  ELSE IF r.hours # Limit["hours"] - 1
  THEN [r EXCEPT !.seconds = 0, !.minutes = 0, !.hours = (@ + 1) % Size["hours"]]
  ELSE [r EXCEPT !.seconds = 0, !.minutes = 0, !.hours = 0,
                 !.days = IF @ = Days - 1 THEN 0 ELSE (@ + 1) % Word,
                 !.day_carry = @ \/ r.days = Days - 1]

InCalendar(r) == \A field \in Fields : r[field] < Limit[field]

\* The fast calendar arithmetic, for registers that hold a time of day.
\* Mutant: the day counter of nine bits does not wrap.
AddSecondsUnmasked(r, seconds) ==
  LET total == (r.hours * Limit["minutes"] + r.minutes) * Limit["seconds"] + r.seconds + seconds
      time == total % SecondsPerDay
  IN [r EXCEPT !.days = @ + total \div SecondsPerDay,
               !.hours = time \div (Limit["minutes"] * Limit["seconds"]),
               !.minutes = (time \div Limit["seconds"]) % Limit["minutes"],
               !.seconds = time % Limit["seconds"]]

AddSeconds(r, seconds) ==
  LET total == (r.hours * Limit["minutes"] + r.minutes) * Limit["seconds"] + r.seconds + seconds
      time == total % SecondsPerDay
      days == r.days + total \div SecondsPerDay
  IN [r EXCEPT !.day_carry = @ \/ days > Days - 1, !.days = days % Days,
               !.hours = time \div (Limit["minutes"] * Limit["seconds"]),
               !.minutes = (time \div Limit["seconds"]) % Limit["minutes"],
               !.seconds = time % Limit["seconds"]]

\* Registers and the seconds by which they are still to move on.
Leaps == [rtc : Registers, seconds : Nat]

\* The loop that ticks single seconds while the registers hold no time of day.
Normalized[leap \in Leaps] ==
  IF leap.seconds = 0 \/ InCalendar(leap.rtc) THEN leap
  ELSE Normalized[[rtc |-> TickSecond(leap.rtc), seconds |-> leap.seconds - 1]]

\* Mutant: illegal values go into the calendar arithmetic.
AdvanceSecondsAtOnce(r, seconds) ==
  IF r.halted \/ seconds = 0 THEN r ELSE AddSeconds(r, seconds)

AdvanceSeconds(r, seconds) ==
  LET normalized == Normalized[[rtc |-> r, seconds |-> seconds]] IN
  IF r.halted \/ seconds = 0 THEN r
  ELSE IF normalized.seconds = 0 THEN normalized.rtc
  ELSE AddSeconds(normalized.rtc, normalized.seconds)

AdvanceRegisters(r, milliseconds) ==
  LET whole == AdvanceSeconds(r, milliseconds \div Millis)
      thousandths == r.subsecond_tick_thousandths + (milliseconds % Millis) * Ticks
      ticks == r.subsecond_ticks + thousandths \div Millis
  IN AdvanceSeconds([whole EXCEPT !.subsecond_tick_thousandths = thousandths % Millis,
                                  !.subsecond_ticks = ticks % Ticks],
                    ticks \div Ticks)

\* advance_rtc_milliseconds.
Advance(c, milliseconds) ==
  IF c.rtc.halted \/ milliseconds = 0 THEN c
  ELSE [c EXCEPT !.rtc = AdvanceRegisters(@, milliseconds), !.dirty = TRUE]

\* Mutant: a halted clock keeps its anchor.
SyncRunning(c, now) ==
  IF ~c.anchored THEN [c EXCEPT !.anchor = now, !.anchored = TRUE]
  ELSE IF now <= c.anchor \/ c.rtc.halted THEN c
  ELSE [Advance(c, now - c.anchor) EXCEPT !.anchor = now]

\* sync_rtc; `now' is what rtc_callback returns.
Sync(c, now) ==
  IF ~c.anchored THEN [c EXCEPT !.anchor = now, !.anchored = TRUE]
  ELSE IF now <= c.anchor THEN c
  ELSE [Advance(c, now - c.anchor) EXCEPT !.anchor = now]

-----------------------------------------------------------------------------
(* Accesses of the program. *)

\* The value of a register, and the fields of the one at 0C.
Writes ==
  (UNION { [select : {field}, value : 0 .. Size[field] - 1] : field \in Fields })
  \cup [select : {"days"}, value : 0 .. LowDays - 1]
  \cup [select : {"control"}, high : 0 .. 1, halted : BOOLEAN, day_carry : BOOLEAN]

ASSUME InputAssumption ==
  /\ Files \subseteq [exists : {TRUE}, registers : Registers, saved_at : Nat]
  /\ ProgramWrites \subseteq Writes

\* write_rtc_register: bits that a register lacks are dropped, so `value' fits.
WriteRegister(r, write) ==
  CASE write.select = "seconds" ->
         [r EXCEPT !.seconds = write.value, !.subsecond_ticks = 0,
                   !.subsecond_tick_thousandths = 0]
    [] write.select \in {"minutes", "hours"} -> [r EXCEPT ![write.select] = write.value]
    [] write.select = "days" -> [r EXCEPT !.days = ((@ \div LowDays) % 2) * LowDays + write.value]
    [] write.select = "control" ->
         [r EXCEPT !.days = write.high * LowDays + (@ % LowDays),
                   !.halted = write.halted, !.day_carry = write.day_carry]

\* Mutant: a write to a register does not count as a change.
StoreRegisterQuietly(c, write) == [c EXCEPT !.rtc = WriteRegister(@, write)]

StoreRegister(c, write) == [c EXCEPT !.rtc = WriteRegister(@, write), !.dirty = TRUE]

\* Mutant: the system's clock may have been set back.
UtcUnbounded(p) == p.clock

\* rtc_utc_milliseconds: the time of the page, never behind a restored save.
Utc(p) == IF p.clock >= p.minimum_rtc_utc THEN p.clock ELSE p.minimum_rtc_utc

Now == Utc(page)

Spend(what) == budget[what] > 0 /\ budget' = [budget EXCEPT ![what] = @ - 1]

Access == Spend("accesses") /\ UNCHANGED <<page, saved>>

\* write_external_ram with a clock register selected and access enabled.
WriteClock ==
  Access /\ \E write \in ProgramWrites : cart' = StoreRegister(Sync(cart, Now), write)

\* write_external_ram with a RAM bank selected and access enabled.
WriteRam == Access /\ cart' = [Sync(cart, Now) EXCEPT !.dirty = TRUE]

\* A store to external RAM that is disabled or not there, or a read of a clock
\* register, which returns a latched value.
Look == cart' = Sync(cart, Now) /\ UNCHANGED <<page, saved, budget>>

\* Writes to 6000-7FFF: a zero, a one after a zero, and anything else.
ArmLatch == cart' = [cart EXCEPT !.latch_armed = TRUE] /\ UNCHANGED <<page, saved, budget>>

WholeSeconds(r) == [r EXCEPT !.subsecond_ticks = 0, !.subsecond_tick_thousandths = 0]

Latch ==
  LET synced == Sync(cart, Now) IN
  /\ cart.latch_armed /\ Access
  /\ cart' = [synced EXCEPT !.latched = WholeSeconds(synced.rtc), !.latch_armed = FALSE]

\* Also what Cartridge::reset_mapper does to the clock.
DisarmLatch == cart' = [cart EXCEPT !.latch_armed = FALSE] /\ UNCHANGED <<page, saved, budget>>

-----------------------------------------------------------------------------
(* The page. *)

PassTime ==
  /\ page.clock < MaxTime /\ page' = [page EXCEPT !.clock = @ + 1]
  /\ UNCHANGED <<cart, saved, budget>>

SaveOf(c, now) == [exists |-> TRUE, registers |-> c.rtc, saved_at |-> now]

\* make_portable_save: the registers and the time are of the same moment.
MakePortableSave(clear_dirty) ==
  LET synced == Sync(cart, Now) IN
  /\ saved' = SaveOf(synced, Now)
  /\ cart' = [synced EXCEPT !.dirty = @ /\ ~clear_dirty]
  /\ Spend("saves") /\ UNCHANGED page

\* load_rtc_registers takes whatever it is given.
LoadRegisters(c, registers) ==
  [c EXCEPT !.rtc = registers, !.dirty = FALSE, !.anchor = 0, !.anchored = FALSE]

\* Mutant: the clock is anchored at its first use, not once it is restored.
RestoreUnanchored(c, p, save) ==
  LET reached == IF Utc(p) >= save.saved_at THEN Utc(p) ELSE save.saved_at IN
  [ cart |-> Advance(LoadRegisters(c, save.registers), reached - save.saved_at),
    page |-> [p EXCEPT !.minimum_rtc_utc = reached] ]

\* The part of restore_save and import_save that concerns the clock.
Restore(c, p, save) ==
  LET reached == IF Utc(p) >= save.saved_at THEN Utc(p) ELSE save.saved_at IN
  [ cart |-> Sync(Advance(LoadRegisters(c, save.registers), reached - save.saved_at), reached),
    page |-> [p EXCEPT !.minimum_rtc_utc = reached] ]

Install(p) ==
  IF saved.exists THEN Restore(FreshCart, p, saved) ELSE [cart |-> FreshCart, page |-> p]

\* The cartridge is inserted: in a page that is opened again at any time, and the
\* system's clock may have been set back meanwhile, or in the page that is open.
InsertCartridge ==
  /\ Spend("loads")
  /\ \E clock \in 0 .. MaxTime :
       LET installed == Install([clock |-> clock, minimum_rtc_utc |-> 0]) IN
       cart' = installed.cart /\ page' = installed.page
  /\ UNCHANGED saved

\* A file becomes the save of the page as it is.  If the time since it was made
\* has changed its registers, and no store is under way, start_save makes another
\* save of them at once.
Import(file) ==
  LET imported == Restore(cart, page, file) IN
  /\ Spend("loads") /\ page' = imported.page
  /\ \/ cart' = imported.cart /\ saved' = file
     \/ /\ imported.cart.dirty
        /\ cart' = [imported.cart EXCEPT !.dirty = FALSE]
        /\ saved' = SaveOf(imported.cart, Utc(imported.page))

ImportSave == \E file \in Files : Import(file)

\* The player starts without a save, or with any that he got.
Init ==
  /\ saved \in {NoSave} \cup Files
  /\ LET installed == Install([clock |-> 0, minimum_rtc_utc |-> 0]) IN
     cart = installed.cart /\ page = installed.page
  /\ budget = [accesses |-> MaxAccesses, saves |-> MaxSaves, loads |-> MaxLoads]

Next ==
  \/ WriteClock \/ WriteRam \/ Look \/ ArmLatch \/ Latch \/ DisarmLatch
  \/ PassTime
  \/ \E clear_dirty \in BOOLEAN : MakePortableSave(clear_dirty)
  \/ InsertCartridge
  \/ ImportSave

Spec == Init /\ [][Next]_vars

-----------------------------------------------------------------------------
(* Properties. *)

TypeOK ==
  /\ cart \in [ rtc : Registers, latched : Registers, latch_armed : BOOLEAN,
                anchor : Nat, anchored : BOOLEAN, dirty : BOOLEAN ]
  /\ page \in [clock : Nat, minimum_rtc_utc : Nat]
  /\ saved \in [exists : BOOLEAN, registers : Registers, saved_at : Nat]
  /\ budget \in [accesses : Nat, saves : Nat, loads : Nat]

\* The values of the registers of the hardware.
Hardware ==
  [ subsecond_ticks |-> 0 .. Ticks - 1, subsecond_tick_thousandths |-> 0 .. Millis - 1,
    seconds |-> 0 .. Size["seconds"] - 1, minutes |-> 0 .. Size["minutes"] - 1,
    hours |-> 0 .. Size["hours"] - 1, days |-> 0 .. Days - 1 ]

\* No leap, tick or store takes a register out of the hardware's range, not even
\* beside others that a file has put there: one that is out of it has not been
\* counted or written since it was read from the save.
OnlyFilesLeaveTheRange ==
  \A name \in DOMAIN Hardware :
    \/ cart.rtc[name] \in Hardware[name]
    \/ saved.exists /\ cart.rtc[name] = saved.registers[name]

\* The time of the page never lags behind the moment of a save or of the last
\* look at the clock, even if the system's clock was set back in between: no time
\* is counted twice, and none is taken away from what the player has seen.
NothingIsFromTheFuture ==
  cart.anchor <= Now /\ (saved.exists => saved.saved_at <= Now)

\* A cartridge that is not dirty holds the registers of its save: no path changes
\* them without marking the change, so the page does not skip a save that it needs.
CleanMeansSaved ==
  ~cart.dirty => cart.rtc = saved.registers

View(r) ==
  [ phase |-> r.subsecond_ticks * Millis + r.subsecond_tick_thousandths,
    seconds |-> r.seconds, minutes |-> r.minutes, hours |-> r.hours, days |-> r.days,
    halted |-> r.halted, day_carry |-> r.day_carry ]

\* Registers computed in leaps, at whatever moments somebody looks, from whatever
\* legal or illegal values, halted or not, across saves, files of any origin and
\* set-back clocks, are those of a chip that counts every millisecond by itself.
Chip == INSTANCE RtcChip WITH
  live <- View(IF cart.anchored THEN Sync(cart, Now).rtc ELSE cart.rtc),
  counting <- cart.anchored,
  latch <- View(cart.latched),
  exists <- saved.exists,
  kept <- View(saved.registers),
  away <- IF saved.exists THEN Now - saved.saved_at ELSE 0,
  loads <- MaxLoads - budget.loads

ImplementsChip == Chip!Spec
=============================================================================
