# A verification project for gameboy-wasm

TLA+ models of the DMG emulator in this repository, the TLC runs that check
them, and TLAPS proofs about them. The models are translated from the code in
`src/` and `include/`; the tests and the page's own status messages are what the
two *violation* runs compare the code with. All line numbers below refer to those
files.

    tlc -workers 2 -config Console.cfg MCConsole      a run of PROJECT.json
    tlapm TimerProofs.tla                             the proofs of a module

Contents: [1 the system](#1-the-system) · [2 the modules](#2-the-modules) ·
[3 the runs](#3-the-runs) · [4 the proofs](#4-the-proofs) ·
[5 findings](#5-what-the-code-does-that-it-says-it-does-not) ·
[6 what is not modelled](#6-what-is-not-modelled) · [7 plan](#7-plan)

## 1 The system

One WebAssembly module runs a Game Boy in the browser. There are no threads.
What makes it hard is elsewhere: dot-exact hardware in which a few components
change state within one M-cycle of each other, and a page whose callbacks
(IndexedDB, key events, visibility, the main loop) arrive in any order.

| Component | State | Operations | Talks to |
|---|---|---|---|
| `WebGameBoy` (`web_bindings.cpp`) | pending ROM, snapshot, timers, load generation, keyboard, time sources | `loadRom`, `reset`, `importSave`, exports, `main_loop`, key, blur, visibility and unload callbacks, IndexedDB callbacks | the cartridge (dirty flag, RAM, clock), IndexedDB, `GameBoy` |
| `GameBoy` | the parts, `total_dots` | `step_m_cycle`, `step_frame`, `set_button`, `reset` | ticks timer, PPU, DMA, joypad once a dot, in that order |
| `CPU` | registers, IME, HALT/STOP/lock-up flags, timed writes | one M-cycle: four dots, then at most one bus access | bus, interrupt controller; calls `tick_dot` back |
| `InterruptController` | IE, IF | `request`, `acknowledge`, register writes | written by devices and CPU |
| `Timer` | 16-bit counter, TIMA, TMA, TAC, edge detector, overflow delay | `tick_dots`, register writes | requests an interrupt |
| `OamDma` + `MemBus` | transfer, restart, completion | `start`, `tick_dots`, `acknowledge_copy`; blocking of CPU accesses | writes OAM, tells the PPU |
| `PPU` | line and dot counters, mode, STAT line, FIFOs, VRAM, OAM, framebuffer | `tick_dots`, register, VRAM and OAM writes, OAM corruption | VBlank and STAT interrupts, `frame_ready` |
| `Joypad` | selection, switching delay, buttons | `write`, `set_button`, `tick_dots` | requests an interrupt |
| `Cartridge` | ROM, RAM, mapper registers, MBC3 clock, dirty flag and revision | reads and writes, latch, save and restore | asks the page for the time |
| `Memory`, `BootRom` | arrays | load, store | |
| `apu.cpp`, `serial.cpp`, `main.cpp` | empty | | |

The behaviours that tests hardly reach, at their lines, are the `hazards` of
`PROJECT.json`. They fall into seven groups.

* *Callbacks against a running game.* A store is answered after the RAM has
  changed again, a load after its cartridge was replaced, a success callback
  clears a snapshot that it did not store. (`WebSave`)
* *The order inside four dots.* Reload, count and edge of the timer; byte, end
  and restart of a DMA transfer; sample and wake-up of HALT; the write of IF,
  which takes effect one dot later. (`Timer`, `OamDma`, `CpuControl`)
* *State read, then used later.* The remembered timer input; the PPU's copy of
  the transfer; the request of an EI, read before the M-cycle and granted after
  it; the choice of an interrupt between the two pushes of its dispatch.
* *A screen read while it is drawn.* A STAT line made of four sources that change
  in different dots; writes that land one or two dots before their M-cycle ends;
  registers written in the middle of a line, with pixels already in a FIFO. (`Ppu`,
  `TimedWrites`, `Scanline`)
* *Unchecked indices.* Banks selected by registers that any write may change, used
  as offsets into images whose size the header decides. (`Mapper`)
* *Time.* A clock computed in leaps, from registers that may hold impossible
  values, with saves, imports and system clocks that are set back. (`Rtc`)
* *The player.* Lost keyups, two keys for a button, an edge that is detected
  twice, a frame that need not end. (`Console`)

What makes each component correct:

* *persistence*: a save holds its own game's changes only; one store at a time;
  clean RAM is saved; a change reaches the store; a chosen cartridge runs.
* *timer*, *DMA*: what a program sees at the ends of M-cycles is the documented
  device; the edge detector and the PPU's record are never stale.
* *CPU control*: one mode at a time; a decision's reason still stands when it is
  acted on; sleepers wake.
* *clock*: equal to a chip that counts every millisecond, from whatever registers a
  file brought.
* *PPU*: what a program reads is a table of line and dot; a STAT interrupt exactly
  when the or of the selected sources rises; VBlank recurs; a finished line shows
  the reference picture, and mode 3 fits into its line.
* *timed writes*: each CPU write reaches its register once, in its dot; the four
  slots and two addresses suffice.
* *mappers*: the byte reached is given by the last values written; no access leaves
  an image; what is written can be read back.
* *arithmetic*: each operation has its inverse or its integer counterpart.
* *input*: buttons follow keys; every falling line interrupts and wakes; frames
  end.

## 2 The modules

| Module | Models | Checked by | Proved in |
|---|---|---|---|
| `WebSave` | save persistence of `WebGameBoy`, the dirty flag, IndexedDB | `MCWebSave` | `WebSaveProofs` |
| `Timer`, `TimerCycles` | class `Timer` by dots; its promise by M-cycles | `MCTimer` | `TimerProofs` |
| `OamDma`, `DmaCycles` | `OamDma`, `MemBus` blocking, the PPU's record; the promise by M-cycles | `MCOamDma` | `OamDmaProofs` |
| `CpuControl` | M-cycles, IME, dispatch, HALT, STOP, IE and IF | `MCCpuControl` | `CpuProofs` |
| `Rtc`, `RtcChip` | the MBC3 clock and the page's time sources; a chip that counts | `MCRtc` | `RtcProofs` |
| `Console` | keys, focus, `Joypad`, STOP, `step_frame`, LCD on and off | `MCConsole` | `FrameProofs` |
| `Ppu`, `LcdTimetable` | class `PPU` as the CPU sees it, by dots; the table of a frame | `MCPpu` | `PpuProofs` |
| `Scanline` | mode 3 of class `PPU`: one line, pixel by pixel | `MCScanline` | `FrameProofs` |
| `TimedWrites`, `BusWrites` | the CPU's schedule of writes; registers that take them in their dots | `MCTimedWrites` | `CpuProofs` |
| `Mapper`, `BankSwitch` | header and mappers; the byte that the last writes ask for | `MCMapper` | `MapperProofs` |
| `Alu` | the arithmetic of class `CPU` | `MCAlu`, in the run of `MCCpuControl` | `CpuProofs` (DAA, words) |

All follow one pattern. A class is a record, its member functions are operators
from one record to the next with the names of the functions, and a handler is
an action that composes the operators in the order in which the code calls the
functions. Definitions whose comment begins with *Mutant* are plausible bugs,
one or more for every property; no specification uses them. Some modules
describe the same component at different depth (STOP is in `CpuControl` and in
`Console`, the DMA state in `OamDma` only): a module keeps what its properties
can tell apart and treats the rest as an input. What one module assumes of
another is stated where it is used: `Ppu` takes its shortest and longest mode 3
from `Scanline`, and the dots in which LCDC is written from `TimedWrites`.

### WebSave

`web` is the page: the fields of `WebGameBoy`, the RAM and dirty flag of the
cartridge, and the queue `requests` of IndexedDB requests without an answer;
`idb` is the store and `history` numbers every change of RAM ever made and
remembers its game. RAM contents are sets of change numbers.

Abstractions. Answers come in the order of the requests (one database, the
requests are issued from one thread). A turn of the main loop is a unit of time
and an age stops at the limit it is compared with. The `-1` of a stopped timer
counts as elapsed, as `now - (-1.0)` does in the code once the page is older than
the limit. `LoadFails` may answer for a key that the store holds, because
`load_error_callback` cannot tell a missing key from a failed read.
`reset_pending` survives a switch of the cartridge, as in the code. A clocked
cartridge may become dirty whenever its clock is looked at.

### Timer and TimerCycles

`timer` has the members of class `Timer`, `requested` is its bit in IF, `dot`
counts the four dots of an M-cycle, after which at most one CPU access follows.
`TimerCycles` is what a program can know: registers that change in whole
M-cycles, the wrap, the M-cycle of zero, the reload with its request, and the
two rules for writes in the M-cycle of the reload. `Cycles` in `Timer` is the
refinement mapping.

Abstractions. `div_apu_ticks` is left out: only an APU would read it. Writes
come only at the ends of M-cycles, as `CPU::step_m_cycle` does them. The
assumption `Aligned` says of TAC's bits what the proofs need: they change at
multiples of four dots and fall at multiples of eight; `MCTimer` has TLC
evaluate it for the code's bits 9, 3, 5 and 7 and all 65536 counter values.

### OamDma and DmaCycles

`dma` has the members of class `OamDma`, `ppu` the PPU's two, `oam` the origin of
every byte: byte *i* of a source page, the CPU, or a mixture after a conflict.
`DmaCycles` is the transfer in whole M-cycles: one byte each, in order, from the
page last asked for, with the one-M-cycle start and the overlap of a restart.
The contents of source pages and mapper side effects of conflicting ROM writes
are not told apart.

### CpuControl

`cpu` has the twelve control members of class `CPU`, `ie` and `flags` are IE and
IF as sets of interrupts, `delayed` the timed write of IF, `sampled` the local
`pending` of the halted branch of `step_m_cycle`. Opcodes are eight kinds: one
that takes one M-cycle, one that takes more, RETI, EI, DI, HALT, STOP and an
invalid one. A longer instruction may write IE, IF or neither in each further
M-cycle. `ime_promotion_blocked` is the third argument of `Promoted`; PC and the
vector are not kept. `Clock` is what `step_m_cycle` does.

### Rtc and RtcChip

`cart` is the clock of the cartridge with latch, anchor and dirty flag, `page`
the two time sources of the page, `saved` the last portable save and `budget`
what the bounds leave. A leap is a record of registers and the seconds to move them
by; `Normalized` is the loop that ticks single seconds while
the registers hold no time of day, `AddSeconds` the calendar arithmetic that
takes over. `RtcChip` is one register file that a millisecond moves on; the
mapping is the clock *as it would be if somebody looked now*.

Nothing validates the registers of a save (`read_rtc`, `web_bindings.cpp:407`, and
`load_rtc_registers`, `cartridge.cpp:312`), so the player starts with, and imports at
any moment, any of `Files`: any numbers that octets (`Byte`) and words (`Word`) can
hold, and any time stamp. The chip counts from such numbers too: `Second` wraps
counters beyond their last value, and drops the days that its counter lacks with the
first second of a legal time; `Settled` takes a phase of several seconds apart.
`Import` has two outcomes, as `start_save` has: the file stays the page's save, or,
if the clock has moved on since it was made and no store is under way, another save
is made at once. `saved` is the last portable save that the page holds; whether it
reaches the storage is the subject of `WebSave`. `loads` counts, in model and chip,
how often registers were taken up, so that a step that takes them up is not taken for
a millisecond.

Abstractions. `ram_enabled` and `rtc_register_select` are inputs: a program can
set them to anything before an access. The width of registers, the limits and
the length of a second are constants.

### Console

`keys` are the held keys, the window's focus and the page's `keyboard`; `joypad`
is class `Joypad` with its bit in IF; `cpu` is STOP; `lcd` is the PPU as far as
frames go; `frame` says where `step_frame` is. Selection bits, active low in the
code, are sets of selected groups; lines are the lower nibble of P1. Key events
arrive only while `frame = "idle"`: there is one thread. A keyup without focus
reaches another window; a keydown of a held key is a repeat.

Abstractions. An M-cycle is `Dots` and one access; instructions are any sequence
of accesses that matter here (P1, IF, LCDC, STOP) and others. A frame takes
`FrameCycles` M-cycles from the moment the LCD is switched on.

### Ppu and LcdTimetable

`ppu` has the members of class `PPU` that decide what the CPU sees, and `raised`,
the interrupts that the last step requested. `TickDot` calls in the code's order
the end of a STAT write, the events early in a line, the three delays, the mode
and the end of the line. `LcdTimetable` has no delays and no flags: LY, the value
compared with LYC, the mode, the blocked ports and the row that an access corrupts
are a table of the line, the dot in it and whether mode 3 still draws.

Abstractions. How long mode 3 takes is a choice between `DrawMin` and `DrawMax`.
A write of LCDC reaches the PPU after the third dot (`accessed`) or, right after a
HALT, after the fourth; other writes after the fourth. The branch of `PPU::write`
for FF41 is left out: the CPU's writes go through `write_cpu_stat` instead. The
corrupted words of OAM are not kept, only the row they are in. The small distances
within a line (2 to 12 dots) are the code's; the lengths are constants.

### Scanline

`line` is what memory and registers hold when mode 3 begins, `draw` the members
that mode 3 changes, `picture` the line of the frame buffer, and `writes` what the
program did meanwhile. A pixel is the column of the map or object that it comes
from. `Reference` is the same line told without dots, FIFOs or fetches: scrolled
background, window from WX - 7, the object furthest left in front.

`line_objects` is the set of the places in OAM of the scanned objects: the code's
array is in the order of OAM, and `start_object_fetch` takes the first that
matches, so the order is that of the places. The actions, initial state and specification
are called `DrawDot`, `DrawInit`, `DrawSpec` and so on because the proofs extend both
this module and `Ppu`.

Abstractions. The fetcher's three reads are one, in its first step; the rows of the
window are only counted; OAM does not change and no DMA runs during the line; a
palette is applied after all of this. `Reference` describes two oddities that the
code means to have: a window at WX = 0 on a scrolled line loses SCX % 8 more
pixels, and a window that is switched off leaves one blank pixel where WX meets
the start of a tile. Columns of the window are taken modulo 256, as the fetcher
counts its tiles modulo 32; no window of 160 columns is wide enough to tell, but
the theorems are about every width.

### TimedWrites and BusWrites

`bus` has the four slots of `timed_writes` and the announced addresses. An
instruction is the sequence of what its M-cycles do to the bus: which writes they
announce and which they make. `BusWrites` has no queue, only writes that are due:
SCX is two dots ahead of the end of its M-cycle, LCDC, SCY and the palettes one,
STAT none, IF one behind; LCDC and the palettes hold a mixture first. One register
is watched; writes to others take up slots all the same. After HALT the first
M-cycle runs with scheduling off (`FetchAfterHalt`), and its announcements are
dropped.

### Mapper and BankSwitch

`image` is a ROM: type, RAM code, size, and which quarters carry the first one's
logo. `regs` are the registers of all mappers, `bus` the byte that the last access
reached. `BankSwitch` remembers only the last value written to each register
(`asked`), and says for every mapper which byte a read or write reaches. Bytes are
left out: an access is told by the offset it reaches.

### Alu

Operators from operands and flags to a result and flags, one per function of
`cpu.cpp` from 1164 on. `MCAlu` states what they are to compute and TLC evaluates it
in the run `cpu_control`: SBC undoes ADC with the same carries, DAA is decimal,
rotations are undone by their opposites, shifts double and halve, wide additions
are two narrow ones, `BIT` sees exactly what `SET` and `RES` did.

## 3 The runs

| Run | States | Checks | Bounds |
|---|---|---|---|
| `web_save` | 66 221 | 5 invariants, 1 action property, 2 liveness properties | 3 cartridges (two with batteries, one with a clock, one without a battery), 2 changes of RAM, 2 insertions per page |
| `timer` | 16 080 | refinement of `TimerCycles`, liveness | counter of 6 bits, registers of 3 values |
| `oam_dma` | 8 172 | 2 invariants, refinement of `DmaCycles`, liveness | 3 bytes, one page on each kind of bus |
| `cpu_control` | 6 718 | 2 invariants, 1 action property, liveness; the assumptions of `MCAlu` | 2 interrupts, start-up of 12 clocks; all bytes |
| `rtc` | 130 626 | 3 invariants, refinement of `RtcChip` | 2 ms per second, 3 ticks, carries at 2, 4 days, octets of 6 and words of 8 values, 4 files, time to 4 ms, 2 accesses, 1 save, 1 insertion or import |
| `console` | 70 480 | 3 invariants, 1 action property, liveness | 4 keys of 3 buttons on 2 lines, delays of 8 and 4 dots, frames of 3 M-cycles, start-up of 8 clocks |
| `ppu` | 99 418 | type, 1 invariant, 1 action property, refinement of `LcdTimetable`, liveness | 2 drawn lines of 5, 28 dots per line, 4 objects, mode 3 of 6 to 9 dots, 5 values of LYC |
| `timed_writes` | 32 723 | 1 invariant, refinement of `BusWrites` | 14 registers, bytes of 2 bits |
| `mapper` | 74 808 | 2 invariants, refinement of `BankSwitch` | 41 ROMs, 5 addresses read, 9 written with 1 to 4 values |
| `scanline` | 195 519 | 3 invariants | 16 columns, 2 objects per line, 1 276 lines, 2 writes in 16 of them |
| `save_switch`, `object_x0` | | one violated statement each, see section 5 | as `web_save`; as `scanline`, 2 lines |

What they show, in short: `ImplementsCycles` (twice), `ImplementsChip`,
`ImplementsTimetable`, `ImplementsBusWrites` and `ImplementsBankSwitch` say that the
dot-driven, lazily computed or queued code is, seen by a program, the simple
device. The invariants say what must hold inside for that (`PpuFollowsDma`,
`StatLineFollowsSources`, `AssertionsHold`), or what the player and the save
depend on.

Why the bounds are enough.

* `WebSave`: two battery games let one game's save meet the other's cartridge;
  the game without a battery is the one that the save timers skip. Two changes
  distinguish *before the snapshot* and *after it*; two insertions give a load of
  an earlier cartridge, and closing the page starts the count again. Limits of 1
  and 2 turns keep the order debounce < maximum. The system may stop when all
  bounds are spent and every request is answered: `CHECK_DEADLOCK FALSE`.
* `Timer`: six bits give four selectable bits in the code's order (slowest,
  fastest, then rising); the fastest, bit 2, is the tightest case for a second
  edge during a reload. Three values let TIMA wrap, be reloaded and count.
* `OamDma`: three bytes have a first, a middle and a last one; every restart of a
  transfer by a transfer in every phase occurs.
* `CpuControl`: two interrupts are the fewest with a priority between them; 12
  clocks are three calls, one above, one at and one below the limit of 4.
* `Rtc`: with two values before the carry and one illegal value per register
  every combination of carries, wraps and illegal values is a few seconds away. The
  files are one just before the carry of everything, one with more days than the
  counter has, one with counters beyond their last value and a halted clock, and one
  with a phase of several seconds; the last two come from the future. 4 ms are two
  seconds, which the program, the save and the insertion may cut anywhere.
* `Console`: two buttons of different groups share a line, so a line can be low
  through either; a button with two keys; delays of two and one M-cycles, so that
  a write may meet a switching that is under way; a start-up of two calls.
* `Ppu`: line 0, one other drawn line, the first line of VBlank, one in between and
  the last are all the kinds of line that the code tells apart; 28 dots hold the
  scan of four objects, the longest drawing and an HBlank. Every write meets every
  dot of a frame.
* `TimedWrites`: all registers with a timing of their own, and their neighbours, so
  that two writes of an instruction meet at any two of them; two bits tell LCDC's
  lowest bit, which takes part in the mixture, from the rest.
* `Mapper`: every type but four that differ from a neighbour in their battery only,
  and sizes on both sides of each limit that the header and the mappers know: no
  RAM, less and more than the bank register reaches, 1 MiB with and without the
  logos of a multicart, one bank over 2 and 4 MiB, a header alone, half a bank more
  than four. Addresses are at both ends of the windows, and values on both sides of
  every register's mask.
* `Scanline`: 16 columns are two tiles, so an object can lie on the left border, on
  a tile's edge, across two tiles and on the right border, and the window can begin
  before, on and after each of them; the four values of SCX drop 0, 1, 7 and 4
  pixels. Three of four objects on one line exceed the limit of two. Writes come
  between any two dots of 16 of the lines: two, so that one may undo the other. The
  bound of `DrawingIsBounded` is linear in width, objects and writes; at 160 columns
  and ten objects it is 172 to 296 dots, inside the 370 that a line leaves. The
  system stops when the line is drawn: `CHECK_DEADLOCK FALSE`.

Fairness. `WebSave`: the browser calls the main loop again and again, answers
loads, and a store that is retried for ever is not refused for ever (strong
fairness of `StoreSucceeds`); no user action is fair. `Timer`, `OamDma`,
`CpuControl`: weak fairness of the step that `step_m_cycle` takes, since the main
loop keeps calling `step_frame`; programs, buttons, devices and resets are not
fair. `Console`: weak fairness of the step of a running frame and of the main
loop's next call. The liveness properties state their own conditions where the
code gives no guarantee: `FramesEnd` only says something of an LCD that stays
on, `TransfersEnd` of a program that stops restarting transfers, and
`EnabledTimerInterrupts` of one that leaves the timer's registers alone. `Ppu`: weak
fairness of the passing of dots, as `step_frame` is called again; `FramesRecur` is
about an LCD that stays on. The other runs check safety only and need none.

Every property of a passing run has a mutant, a bug of the kind the code could
have, under which the same run reports the property violated.

## 4 The proofs

Theorems hold for every value of the constants that the named assumptions allow:
any number of cartridges, interrupts, keys, buttons, any delays and widths. The
type invariants of `WebSave`, `Timer`, `OamDma`, `CpuControl`, `Rtc`, `Console` and
`Mapper`, and `Timer!InputIsRemembered` and `Timer!ReloadTakesOneMCycle`, are parts
of the inductive invariants: they are proved, and no run repeats them.

* **`WebSaveProofs`** (`TypeCorrect`, `StoresAreExclusive`,
  `LoadsAreAnsweredOnce`, `SavesAreNeverMixed`, `CleanIsSaved`, `SavesAreTimely`,
  `DirtyRamWaits`). `IInv` is one predicate
  `PageInv(w, log)` of a page record, so every member function gets one lemma
  that it maps good pages to good pages, and handlers compose lemmas as the code
  composes calls. The first four properties need one another: the answer to a load
  restores the right game's RAM because the waiting cartridge has exactly one
  current load with its own key. The other three rest on a second invariant,
  `JInv`. `CleanIsSafe` says where the changes of clean RAM are: in a snapshot
  that every store under way also writes, or in the database with nothing left to
  store. `AgeIsCounted` and `Timely` bound the age of dirty RAM, which is reset
  whenever a snapshot is taken; a retry must wait for a turn (`Retry` is not 0),
  because right after a refused store the age may be over the limit with no store
  under way. The last one is an action property: the only handler that gives up dirty
  RAM is the callback of a store (`DropsBehindASave`).
* **`TimerProofs`** (`TypeCorrect`, `InputIsNeverStale`, `ReloadsAreOnTime`,
  `TimerIsExactPerMCycle`). The first three are
  inductive together; the last maps every step to a step of `TimerCycles` or to
  a stutter. A dot other than the fourth stutters because, by the alignment of
  TAC's bits, only a fourth dot has an edge.
* **`OamDmaProofs`** (`TypeCorrect`, `TransfersKeepStep`, `PpuIsNeverStale`,
  `TransfersAreNotMixed`, `DmaIsExactPerMCycle`). The invariant is the conjunction
  of the four with `PagesAreKnown`: a transfer that runs or was asked for has a
  page. `InStep` says which dot each counter waits for, so that the lemmas about
  `TickDot` are about one early dot, the fourth dot with a byte left and the
  fourth dot without one; invariance and refinement follow from the same three.
* **`CpuProofs`**, class `CPU` in three parts.
  * `TypeCorrect`, `ModesStayApart`, `DecisionsAreNotStale`, `HaltBugNeedsImeOff` of
    `CpuControl`. The invariant is `TypeOK /\ OneMode /\ DecisionsHold`: the modes
    need the decisions (HALT samples only requests that stand) and the decisions the
    modes (no write of IF is on its way in HALT).
  * `DecimalAddition` and `DecimalSubtraction`: DAA of module `Alu` for all decimal
    bytes and carries, by cases on whether a digit carries. `WideAddition` and
    `StackPointerOffset`: `ADD HL` and `ADD SP` of any words are two additions of
    bytes. A word is told by its bytes, as the prover knows little of quotients;
    `IsByteSum` is an adder of bytes, so that only one lemma looks into `Add8`.
  * `NoAssertionFails` and `WritesReachTheirRegisters` of `TimedWrites` (whose names
    differ from those of `CpuControl` because this module extends both). The
    assumption is `SlotsSuffice`: at least four slots and two addresses, bytes as
    addresses, a set of values closed under the two mixtures. Class `CPU` has four
    and two.
    `ScheduleInv` follows the instruction: `Shaped` lists what it may leave to do,
    `Told` which of these writes have been announced, and `Kept` says that the slots
    hold exactly those, each with the dots to its end (`IsFinal`) or to its mixture
    (`IsBlend`), no two slots of one register in the same dot, and the addresses
    announced once each. It holds no more than two writes at a time, so four slots
    are enough. The lemmas go from one slot (`ScheduleTakesTheNextSlot`) to an
    announcement (`AnnouncementResult`, `ResultKeeps`), a dot (`TickKeeps`) and the
    end of an M-cycle (`TurnKeeps`, `TakenKeeps`); from there one lemma for each kind
    of M-cycle gives both the invariant and the step of `BusWrites`.
* **`RtcProofs`** (`OnlyFilesBringOthers`, `ClockIsTheChip`, `CleanCartridgeIsSaved`,
  `TimeIsNotCountedTwice`), for every calendar, rate, width and length of a leap, and
  for every set of files. The last
  two follow from an invariant on anchors, time stamps and dirty flags that does not
  look into the registers. The first two need to know what the recursive functions
  `Normalized`, `Settled` and `AfterGap` compute. The library's induction theorems
  take an operator and cannot be used, but its theorem on minimal elements (`WFMin`)
  gives `Induction` for a *set* of numbers, and from it `Recursion`: a recursion that
  counts a measure down has a solution, so all three unfold. Then a tick, the calendar
  arithmetic and a second of the chip are the same step for legal times
  and the tick and the second also for others; a leap of n + 1 seconds is a second and
  a leap of n, with the time of day as a mixed-radix number (`Digits`). `Reached` tells
  the registers after a leap by the sum of the phase they had and the ticks of the time
  that passed: `AdvanceRegisters` reaches them in at most two leaps, and a millisecond
  of the chip moves that sum on by its ticks, so a gap of any length does. With the
  anchor never ahead of now (from `Inv`), every action is a step of `RtcChip` or a
  stutter. `OnlyFilesBringOthers` follows register by register: a leap, a tick and a
  write leave each one alone or in its range, and a save that is made takes over what
  the clock holds. That the registers fit their variables (`TypeOK`) is an invariant
  on the way.
* **`MapperProofs`** (`TypeCorrect`, `OffsetsAreInside`, `StoresAreReadBack`,
  `AccessesFollowTheLastWrites`), for
  every header, every size of ROM and every series of writes. The width of the
  registers is inductive by itself; the next two follow from it and the modulus in
  each offset: nothing but the modulus keeps an unchecked index inside. The last is
  the refinement of `BankSwitch`. `Follows` says for each mapper how its registers
  hold the last values written (a register that replaces 0 by 1, two halves of a
  bank number, an MBC3 register that selects RAM or the clock); one lemma per mapper
  shows that a write keeps it, one that ROM is read where the values ask for, and
  one the same for RAM.
* **`PpuProofs`** (`TypeCorrect`, `LevelIsNeverStale`, `InterruptsAreEdges`,
  `ProgramSeesTheTimetable`), for every number of lines, dots and objects that leaves
  mode 3 its room. `Placed` names the seven places a frame can be in (off, first
  line, scan, drawing, HBlank, the five dots before VBlank, VBlank) and the value of
  every delay, flag and counter there; `LineFollows` says that the remembered STAT
  line is the or of the selected sources, except in the first three dots of a scanned
  line, in which the code does not look and the line may still be high (`Unseen`);
  `InStep` keeps dots and M-cycles together. The proof has one lemma per member
  function (the fields it changes), one per place (what `TickDot` makes of it,
  gathered in `OnDot` and `TickFollows`) and one for every write. That an interrupt is
  requested exactly on a rising edge follows from the same lemmas; `TableShows` maps
  each place to its entry in `LcdTimetable`.
* **`FrameProofs`**, first part (`StateHasItsType`, `ButtonsFollowTheKeys`,
  `DisconnectionIsDelayed`, `WakingRequestStands`, `FallingLinesInterrupt`). The
  invariant adds that accesses happen only while the CPU runs: this keeps IF from
  being cleared between the request of a wake-up and its end. The last theorem is
  the action property `EdgesInterrupt`; one of its lemmas shows that a switching
  only ever disconnects, so the interrupt check in `Joypad::tick_dots`
  (`keypad.cpp:35`) can never request anything.

  The second part is about `Scanline` (`LineIsWellformed`,
  `LineEndsInTime`, `ObjectsKeepTheirPlaces`), for every width that is a multiple of 8
  and more than 8, every line of any registers and any OAM, and any writes at any
  dots. The assumption, `LinesAreBytes`, only says what a register holds. `DrawInv`
  has these parts:
  * `Wellformed`: the fetcher is never late (a FIFO that is not empty lasts until it
    has fetched), and `pixel_position`, `screen_x` and the columns taken back agree
    (`InPlace`; the jump from -16 + SCX % 8 to -8 is one of its cases). An object
    that is fetched begins where the line stands.
  * `InBudget`: the accounts of the line. Startup and each pixel have paid for one
    dot, each window that began and each write for 7, each fetched object for 11. The
    dots that passed, the columns taken back and what is owed before the next pixel
    (the refill of an empty FIFO, the rest of a fetch, a window that would interrupt
    an alignment) are never more. From below, each dot draws one pixel at most.
    `WindowIsPaid`, `FetchIsPaid`, `FetchDotIsOwed` and `WriteIsPaid` balance the
    books for one kind of step each.
  * `TakenIsWritten`: a column is taken back only after a write, and when there are
    as many columns as writes, the window cannot take another one without a write
    first. `DrawingIsBounded` states the count only; it takes the second half to keep it.
  * `FifoInPlace` and `ShownInPlace`: every pixel of an object, in the FIFO and in the
    picture, is where OAM puts it. Objects at x = 0 are excepted, because the code
    shows them (section 5).

  Unfetched and doubly fetched objects never matter: `fetched` grows by one with each
  fetch (`OneMore`) and stays inside the scanned objects, which bounds the whole.

  The last part is the picture (`LineFollowsTheReference`, `LinesShowTheReference`):
  a line that the program leaves alone is `Reference`, pixel for pixel, and the window
  has counted its rows. It needs a second invariant, `PictureInv`, which tells each
  stage of the pipeline from the place of the line and holds together with `DrawInv`:
  * `GroundFifo`, `GroundFetcher`: the pixels of tiles that have left (`Past`) and those
    in the FIFO (`Stock`) give the column that comes next (`Coming`); the FIFO holds the
    columns before it (`TilePixel`), and the fetcher has found the tile that begins with
    it. The 8 pixels before the first tile, the SCX % 8 dropped ones, the jump to -8 and
    the blank pixel of a window that is off are cases of these numbers.
  * `Looks`: the fetcher looks for a tile of the background only in the dot after the
    one before it came (`TileComesNext`); in any other dot `pixel_position` would give
    another tile. An object may stop the line at any time, so this is where the
    alignment of a fetch (`Align`) matters.
  * `WindowToCome`, `RowsFollow`: a window that is not there has not been passed, and
    one that is there began in its column (`WindowStart`).
  * `FifoFollows`, `FetchesFollow`: every place of the object FIFO holds the pixel of the
    object in front of those laid so far (`Front`), and the objects to the left of the
    line are laid. `Covers`, which compares a new object with one pixel, keeps the
    least of an order (`BeforeIsOrder`, `OverlayIsInFront`), so the order of the fetches
    does not matter.

  The proof has one lemma per stage for what each member function does to it
  (`GroundTicks`, `GroundPops`, `GroundAdvances`, `ObjectsStart`, `ObjectsTick`,
  `ObjectsMove`), two for what a pixel adds (`GroundIsShown`, `MixIsReference`), and
  composes them in the order of `DrawDot`. The hypotheses are those of the property: no
  write during the line, and no object at x = 0.

Only model-checked:

* all liveness (the prover has no rule for fairness or `ENABLED`);
* `Alu` apart from DAA and the additions of words: all bytes are checked.

## 5 What the code does that it says it does not

Two runs end in a counterexample that TLC finds.

| Run | The program says | The code does |
|---|---|---|
| `save_switch` | "Saving current game before loading the cartridge." (`web_bindings.cpp:157`) | the game runs on while that store is under way, and what it writes then is lost: the callback (`:454`) inserts the next cartridge without another look at the dirty flag |
| `object_x0` | "PPU renders an object at its OAM position" (`tests/ppu_tests.cpp:955`) | an object with x = 0 shows up to 8 of its pixels at the left border: its pixels lie in the FIFO from offset 8 on, and the jump from -16 + SCX % 8 to -8 pops only SCX % 8 + 8 before column 0 |

`SwitchSavesTheGame` is violated in more than one way. The callback of a store that
failed (`:463`) inserts the cartridge just the same. And if both callbacks saved dirty
RAM first, TLC would still find a save imported while the store is under way: its RAM
counts as clean, it replaces the snapshot (`:211`), `start_save` returns (`:417`), and
the success of the older store clears it (`:448`), so it is lost although the page says
"Imported save. Writing it to browser storage." (`:214`). What does hold is that RAM is
given up unsaved only in the callback of a store (`UnsavedRamIsDroppedOnlyBehindASave`).

Five more were found the same way and are kept as descriptions; none of the
properties above depends on them.

* `:462`, "Saving failed. The browser will retry.": while a cartridge without a
  battery is in, nothing retries (`:493`) until the player resets, switches or hides
  the page. `ChangesReachTheStore` is about a cartridge that stays in.
* `:419`, "A complete newer snapshot supersedes a failed write for this ROM.": after
  the same ROM is inserted again the newer snapshot lacks the failed one's changes.
* `tests/cputests.cpp:514`, IME is off after a dispatch: an EI while IME is on has its
  request granted inside the dispatch (`cpu.cpp:168`), so the handler starts with IME
  on. `BugWithoutIme` is about HALT only.
* `include/gameboy.h:40`, "run until one video frame is produced": `step_frame`
  returns without a frame in STOP (`gameboy.cpp:129`), and then counts 4 of the 2^17
  start-up clocks per call: a button ends STOP after 32768 frames, nine minutes.
* `cpu.cpp:1008`, "SCX is sampled two dots before an ordinary CPU write completes."
  (and the like for SCY, LCDC and the palettes): the first store after HALT is
  announced while scheduling is off (`:114`) and lands at the end of its M-cycle.

Also seen, without a statement to contradict:

* with the LCD off `step_frame` returns only when the program switches it on again,
  and one that switches it off before every VBlank holds it for good (`FramesEnd` and
  `FramesRecur` are about an LCD that stays on);
* a save file whose day counter is above 511 sets `day_carry` without an overflow, and
  loses the days above 511, with the first whole second of a legal time
  (`cartridge.cpp:402`), while the loop for illegal times leaves them alone; one
  whose phase is above a second jumps by up to two seconds with its first millisecond.
  The model takes such files, and the properties of `Rtc` hold for them;
* a failed load starts a game with blank RAM whose next save overwrites the stored
  one; a pending reset survives a switch of the cartridge;
* the remembered level of the STAT line survives LCD off, so a source that is high
  before and after raises no interrupt;
* the scanned objects survive LCD off too: the first line after LCD on, which scans
  none, may fetch those of an earlier line, which lengthens its mode 3;
* a program that takes the window away and back in the middle of a line can restart
  it each time; the length of mode 3 grows by up to 7 dots with each write, and
  nothing in the code ends the line in time. If mode 3 of line 143 lasts past the end
  of the line, `ppu.cpp:156` does not find HBlank and the frame has no VBlank. `Ppu`
  assumes that mode 3 ends in its line (`MustFinish`, from `PpuAssumption`), so
  `FramesRecur`, and every theorem of `PpuProofs`, is about programs that leave it
  room; `DrawingIsBounded` says how much each write takes.

## 6 What is not modelled

* *APU, serial port, native entry point*: empty files.
* *Work RAM, high RAM, boot ROM*: arrays with a load and a store; one latch.
* *Renderer, page, native test runner*: input and output.
* *Clock constants*: they are constants of the models, scaled down.
* *CPU registers and addresses*: which register an opcode loads and which address it
  forms. `CpuControl`, `TimedWrites` and `Alu` group the opcodes by what they do to
  control, bus and operands; a table of 512 opcodes would repeat the code.
* *Address decoding and the open-bus latch*: a table, and one byte remembered;
  what the latch holds cannot be told apart in models without data.
* *Contents of OAM words after a corruption, colours of the frame buffer*: data.

`PROJECT.json` lists each with its status.

## 7 Plan

Done: the modules of section 2, in the order persistence (the only part whose
failure loses the player's data), timer, DMA, CPU control, clock, console, PPU
timing, timed writes, mappers, the pixel pipeline, arithmetic.

Every safety property that a run checks is also a theorem. What is left:

1. Composition of `Ppu` and `Scanline` over two lines, for the state that one line
   leaves to the next (`window_line`, the scanned objects).
2. A reference for lines in which the program writes: `PictureIsRight` says nothing of
   them, `ObjectsStayInPlace` only where their objects are.
