-------------------------------- MODULE Ppu --------------------------------
(***************************************************************************)
(* Class PPU of src/src/ppu.cpp as far as the CPU sees it, dot by dot: the  *)
(* lines of a frame, LY and its comparison, the mode that STAT shows, the   *)
(* access blocking, the STAT interrupt line and the VBlank interrupt.  What *)
(* mode 3 draws is in module Scanline; here it takes DrawMin to DrawMax     *)
(* dots.  The CPU's writes come where cpu.cpp puts them in an M-cycle.      *)
(***************************************************************************)
EXTENDS Integers

CONSTANTS
  Visible,       \* lines that are drawn, 144
  Lines,         \* lines of a frame, 154
  LineDots,      \* dots of a line, 456; the line that follows LCD on has 6 less
  ScanEntries,   \* objects in OAM, 40: one is scanned every two dots
  DrawMin,       \* mode 3 ends no earlier than this many dots after its start
  DrawMax,       \* and no later than this many
  LycValues      \* the values that the program writes to LYC

VARIABLES
  ppu,           \* the members of class PPU, and the interrupts just requested
  dot,           \* dots of the current M-cycle that have run
  accessed       \* whether the M-cycle's CPU access has been made early

vars == <<ppu, dot, accessed>>

ScanEnd == 4 + 2 * ScanEntries     \* the dot in which mode 3 begins, 84

\* Mode 3 and the dot after it fit into every line, the shorter first one included.
ASSUME PpuAssumption ==
  /\ Visible \in Nat /\ Visible >= 2 /\ Lines \in Nat /\ Lines >= Visible + 2
  /\ ScanEntries \in Nat /\ ScanEntries >= 4 /\ ScanEntries % 2 = 0
  /\ LineDots \in Nat /\ LineDots % 4 = 0 /\ LineDots >= 16
  /\ DrawMin \in Nat \ {0} /\ DrawMax \in Nat /\ DrawMin <= DrawMax
  /\ ScanEnd + DrawMax < LineDots - 3
  /\ LycValues \subseteq Nat /\ 0 \in LycValues

Selects == {"lyc", "oam", "vblank", "hblank"}     \* bits 6, 5, 4, 3 of STAT
Ports == {"vram_read", "vram_write", "oam_read", "oam_write"}
Modes == {"HBlank", "VBlank", "OamScan", "Drawing"}

-----------------------------------------------------------------------------
(* Member functions, from one PPU to the next. *)

FreshPpu ==
  [ on |-> FALSE, stat |-> {}, pending_stat |-> {}, stat_write_dots_remaining |-> 0,
    lyc |-> 0, ly |-> 0, ly_for_comparison |-> 0, coincidence_flag |-> TRUE,
    scanline |-> 0, dot_counter |-> 0, line_dot_limit |-> LineDots,
    startup_line |-> FALSE, first_frame_blank |-> TRUE,
    mode |-> "HBlank", stat_mode |-> "HBlank", pending_stat_mode |-> "HBlank",
    stat_mode_delay |-> 0, oam_mode_interrupt_delay |-> 0,
    oam_mode_interrupt_active |-> FALSE, hblank_mode_interrupt_delay |-> 0,
    hblank_mode_interrupt_active |-> FALSE, blocked |-> {}, oam_scan_index |-> 0,
    accessed_oam_row |-> -1, drawn |-> 0, stat_interrupt_line |-> FALSE, raised |-> {} ]

StatInterruptActive(p) ==
  /\ p.on
  /\ \/ "lyc" \in p.stat /\ p.coincidence_flag
     \/ /\ "oam" \in p.stat
        /\ \/ p.mode = "OamScan" /\ p.oam_mode_interrupt_active
           \/ p.stat_mode = "VBlank" /\ p.scanline = Visible
     \/ "vblank" \in p.stat /\ p.stat_mode = "VBlank"
     \/ /\ "hblank" \in p.stat /\ p.hblank_mode_interrupt_active
        /\ ~(p.startup_line /\ p.stat_mode = "HBlank" /\ p.dot_counter < ScanEnd - 5)

\* Mutant: the line is remembered only when it rises.
UpdateStatInterruptRising(p) ==
  IF StatInterruptActive(p) /\ ~p.stat_interrupt_line
  THEN [p EXCEPT !.stat_interrupt_line = TRUE, !.raised = @ \union {"LCDStat"}]
  ELSE p

\* Mutant: the request looks at the level of the line only.
UpdateStatInterruptLevel(p) ==
  [p EXCEPT !.stat_interrupt_line = StatInterruptActive(p),
            !.raised = @ \union IF StatInterruptActive(p) THEN {"LCDStat"} ELSE {}]

UpdateStatInterrupt(p) ==
  LET line == StatInterruptActive(p) IN
  [p EXCEPT !.stat_interrupt_line = line,
            !.raised = IF line /\ ~p.stat_interrupt_line THEN @ \union {"LCDStat"} ELSE @]

\* set_ly_for_comparison without the update of the interrupt; -1 equals no LYC.
Compare(p, value) ==
  [p EXCEPT !.ly_for_comparison = value, !.coincidence_flag = (value = p.lyc)]

SetLyForComparison(p, value) == UpdateStatInterrupt(Compare(p, value))

SetAccessBlocking(p, vram, oam) ==
  [p EXCEPT !.blocked = (IF vram THEN {"vram_read", "vram_write"} ELSE {})
                        \union (IF oam THEN {"oam_read", "oam_write"} ELSE {})]

\* set_mode without the delays of the mode that is entered.
EnterMode(p, next) ==
  [p EXCEPT !.mode = next, !.pending_stat_mode = next, !.stat_mode_delay = 0,
            !.oam_mode_interrupt_active = FALSE, !.oam_mode_interrupt_delay = 0,
            !.hblank_mode_interrupt_active = FALSE, !.hblank_mode_interrupt_delay = 0]

SetMode(p, next) ==
  CASE next = "OamScan" ->
         [EnterMode(p, next) EXCEPT !.stat_mode_delay = 4,
            !.oam_mode_interrupt_delay = IF p.scanline = 0 THEN 4 ELSE 3]
    [] next = "HBlank" ->
         UpdateStatInterrupt([EnterMode(p, next) EXCEPT
            !.stat_mode = next, !.hblank_mode_interrupt_delay = 1])
    [] OTHER ->
         UpdateStatInterrupt([EnterMode(p, next) EXCEPT !.stat_mode = next])

\* update_stat_write: the selects that a write of STAT raised for a dot fall.
UpdateStatWrite(p) ==
  IF p.stat_write_dots_remaining = 1
  THEN UpdateStatInterrupt([p EXCEPT !.stat_write_dots_remaining = 0, !.stat = p.pending_stat])
  ELSE p

\* What tick_dot does early in a scanned line, before and in lines of VBlank.
TickScanLine(p) ==
  CASE p.dot_counter = 3 ->
         [Compare(p, IF p.scanline = 0 THEN 0 ELSE -1) EXCEPT
            !.ly = p.scanline, !.blocked = @ \union {"oam_read"},
            !.stat_mode = IF p.scanline = 0 THEN "HBlank" ELSE @]
    [] p.dot_counter = 4 ->
         [Compare(p, p.scanline) EXCEPT !.blocked = @ \union {"oam_write"}]
    [] OTHER -> p

EnterVBlank(p) ==
  LET q == SetAccessBlocking(SetMode(p, "VBlank"), FALSE, FALSE) IN
  [q EXCEPT !.raised = @ \union {"VBlank"}, !.first_frame_blank = FALSE]

TickBlankLine(p) ==
  CASE p.dot_counter = 2 -> [p EXCEPT !.ly = p.scanline]
    [] p.dot_counter = 4 -> SetLyForComparison(p, p.scanline)
    [] p.dot_counter = 5 /\ p.mode = "HBlank" -> EnterVBlank(p)
    [] p.dot_counter = 8 /\ p.mode = "VBlank" /\ p.scanline = Lines - 1 ->
         SetLyForComparison([p EXCEPT !.ly = 0], -1)
    [] p.dot_counter = 12 /\ p.mode = "VBlank" /\ p.scanline = Lines - 1 ->
         SetLyForComparison(p, 0)
    [] OTHER -> p

TickLine(p) ==
  CASE p.mode = "OamScan" -> TickScanLine(p)
    [] p.mode = "VBlank" \/ (p.mode = "HBlank" /\ p.scanline = Visible) -> TickBlankLine(p)
    [] OTHER -> p

Less(delay) == IF delay = 0 THEN 0 ELSE delay - 1

\* The three delays, and the update that they or the scanned line ask for.
TickDelays(p) ==
  LET q == [p EXCEPT
              !.stat_mode = IF p.stat_mode_delay = 1 THEN p.pending_stat_mode ELSE @,
              !.oam_mode_interrupt_active = @ \/ p.oam_mode_interrupt_delay = 1,
              !.hblank_mode_interrupt_active = @ \/ p.hblank_mode_interrupt_delay = 1,
              !.stat_mode_delay = Less(@), !.oam_mode_interrupt_delay = Less(@),
              !.hblank_mode_interrupt_delay = Less(@)]
      stat_changed ==
        \/ p.mode = "OamScan" /\ p.dot_counter \in {3, 4}
        \/ 1 \in {p.stat_mode_delay, p.oam_mode_interrupt_delay, p.hblank_mode_interrupt_delay}
  IN  IF stat_changed THEN UpdateStatInterrupt(q) ELSE q

\* An access to OAM corrupts the row that follows the scanned one; rows are
\* eight bytes.  The scan lets go of OAM for writes three entries before its end.
ScanOamEntry(p) ==
  [p EXCEPT !.accessed_oam_row = (p.oam_scan_index \div 2) + 1,
            !.oam_scan_index = @ + 1,
            !.blocked = IF p.oam_scan_index = ScanEntries - 3
                        THEN (@ \union {"vram_read"}) \ {"oam_write"} ELSE @]

BeginMode3(p) ==
  [SetAccessBlocking(SetMode(p, "Drawing"), TRUE, TRUE) EXCEPT
     !.accessed_oam_row = -1, !.drawn = 0]

\* tick_mode3: the dot in which the last pixel is pushed ends the mode.
TickMode3(p, finished) ==
  IF finished
  THEN [SetAccessBlocking(SetMode(p, "HBlank"), FALSE, FALSE) EXCEPT !.drawn = 0]
  ELSE [p EXCEPT !.drawn = @ + 1]

TickMode(p, finished) ==
  CASE p.mode = "HBlank" /\ p.startup_line ->
         CASE p.dot_counter = ScanEnd - 6 -> [p EXCEPT !.blocked = @ \union {"oam_write"}]
           [] p.dot_counter = ScanEnd - 4 -> BeginMode3(p)
           [] OTHER -> p
    [] p.mode = "OamScan" ->
         LET q == IF p.dot_counter >= 6 /\ p.dot_counter % 2 = 0 THEN ScanOamEntry(p) ELSE p
         IN  IF p.dot_counter = ScanEnd THEN BeginMode3(q) ELSE q
    [] p.mode = "Drawing" -> TickMode3(p, finished)
    [] OTHER -> p

\* Mutant: the scan goes on where it ended in the line before.
BeginScanlineKept(p) == [p EXCEPT !.accessed_oam_row = 0]

BeginScanline(p) == [p EXCEPT !.oam_scan_index = 0, !.accessed_oam_row = 0]

\* Mutant: the first line keeps its shorter length.
EndLineShort(p) ==
  LET q == [p EXCEPT !.dot_counter = 0, !.startup_line = FALSE,
                     !.scanline = (@ + 1) % Lines]
  IN  IF q.scanline < Visible
      THEN BeginScanline(SetAccessBlocking(SetMode(q, "OamScan"), FALSE, FALSE))
      ELSE SetLyForComparison(SetAccessBlocking(q, FALSE, FALSE), -1)

\* Mutant: the lines wrap after the last drawn one.
EndLineVisible(p) ==
  LET q == [p EXCEPT !.dot_counter = 0, !.line_dot_limit = LineDots,
                     !.startup_line = FALSE, !.scanline = (@ + 1) % Visible]
  IN  BeginScanline(SetAccessBlocking(SetMode(q, "OamScan"), FALSE, FALSE))

EndLine(p) ==
  LET q == [p EXCEPT !.dot_counter = 0, !.line_dot_limit = LineDots,
                     !.startup_line = FALSE, !.scanline = (@ + 1) % Lines]
  IN  IF q.scanline < Visible
      THEN BeginScanline(SetAccessBlocking(SetMode(q, "OamScan"), FALSE, FALSE))
      ELSE SetLyForComparison(SetAccessBlocking(q, FALSE, FALSE), -1)

\* Whether mode 3 may, or must, end in the dot that comes next.
MayFinish(p) == p.mode = "Drawing" /\ p.drawn + 1 >= DrawMin
MustFinish(p) == p.mode = "Drawing" /\ p.drawn + 1 >= DrawMax

TickDot(p, finished) ==
  LET begun == [UpdateStatWrite(p) EXCEPT !.dot_counter = @ + 1]
      ticked == TickMode(TickDelays(TickLine(begun)), finished)
  IN  IF ticked.dot_counter < ticked.line_dot_limit THEN ticked ELSE EndLine(ticked)

-----------------------------------------------------------------------------
(* PPU::write, for the registers that matter here. *)

SwitchOff(p) ==
  [p EXCEPT !.on = FALSE, !.ly = 0, !.scanline = 0, !.dot_counter = 0,
     !.line_dot_limit = LineDots, !.first_frame_blank = TRUE, !.startup_line = FALSE,
     !.stat = p.pending_stat, !.stat_write_dots_remaining = 0, !.ly_for_comparison = 0,
     !.mode = "HBlank", !.stat_mode = "HBlank", !.pending_stat_mode = "HBlank",
     !.stat_mode_delay = 0, !.blocked = {}, !.oam_mode_interrupt_delay = 0,
     !.oam_mode_interrupt_active = FALSE, !.hblank_mode_interrupt_delay = 0,
     !.hblank_mode_interrupt_active = FALSE, !.accessed_oam_row = -1, !.drawn = 0]

SwitchOn(p) ==
  LET q == [p EXCEPT !.on = TRUE, !.ly = 0, !.scanline = 0, !.dot_counter = 0,
              !.line_dot_limit = LineDots - 6, !.first_frame_blank = TRUE,
              !.startup_line = TRUE]
  IN  SetAccessBlocking(SetMode(SetLyForComparison(q, 0), "HBlank"), FALSE, FALSE)

\* write_cpu_stat: a running LCD sees all selects for one dot.
WriteStat(p, selects) ==
  UpdateStatInterrupt(
    [p EXCEPT !.pending_stat = selects, !.stat = IF p.on THEN Selects ELSE selects,
              !.stat_write_dots_remaining = IF p.on THEN 1 ELSE 0])

\* Mutant: LYC is compared at the next line only.
WriteLycQuietly(p, value) == [p EXCEPT !.lyc = value]

WriteLyc(p, value) ==
  LET q == [p EXCEPT !.lyc = value] IN
  IF p.on THEN SetLyForComparison(q, p.ly_for_comparison) ELSE q

\* notify_oam_bus_access and the first test of corrupt_oam: the row that an
\* access of the CPU's address unit to OAM corrupts, or -1.
CorruptedRow(p, port) ==
  IF /\ p.on /\ p.mode = "OamScan" /\ port \in p.blocked
     /\ 1 <= p.accessed_oam_row /\ p.accessed_oam_row < ScanEntries \div 2
  THEN p.accessed_oam_row ELSE -1

-----------------------------------------------------------------------------
(* Steps. *)

Quiet(p) == [p EXCEPT !.raised = {}]

\* GameBoy::tick_dot; with the LCD off PPU::tick_dots returns at once.
Dot ==
  /\ dot < 4 /\ dot' = dot + 1 /\ UNCHANGED accessed
  /\ IF ppu.on
     THEN \E finished \in BOOLEAN :
            /\ finished => MayFinish(ppu)
            /\ MustFinish(ppu) => finished
            /\ ppu' = TickDot(Quiet(ppu), finished)
     ELSE ppu' = Quiet(ppu)

\* The CPU access that ends the M-cycle.
Access(p) == dot = 4 /\ ~accessed /\ dot' = 0 /\ ppu' = p /\ UNCHANGED accessed

NoAccess ==
  dot = 4 /\ dot' = 0 /\ accessed' = FALSE /\ ppu' = Quiet(ppu)

AccessStat(selects) == Access(WriteStat(Quiet(ppu), selects))

AccessLyc(value) == Access(WriteLyc(Quiet(ppu), value))

\* The CPU schedules a write of LCDC for the third dot of its M-cycle; the first
\* instruction after a HALT makes it at the end of the M-cycle.
Lcdc(p) ==
  /\ ~accessed
  /\ \/ dot = 3 /\ accessed' = TRUE /\ UNCHANGED dot
     \/ dot = 4 /\ dot' = 0 /\ UNCHANGED accessed
  /\ ppu' = p

LcdOff == ppu.on /\ Lcdc(SwitchOff(Quiet(ppu)))

LcdOn == ~ppu.on /\ Lcdc(SwitchOn(Quiet(ppu)))

Reset == dot = 0 /\ ppu' = FreshPpu /\ UNCHANGED <<dot, accessed>>

Init == ppu = FreshPpu /\ dot = 0 /\ accessed = FALSE

Next ==
  \/ Dot
  \/ NoAccess
  \/ \E selects \in SUBSET Selects : AccessStat(selects)
  \/ \E value \in LycValues : AccessLyc(value)
  \/ LcdOff
  \/ LcdOn
  \/ Reset

Spec == Init /\ [][Next]_vars

\* While frames run, the dots go on.
Clock == dot' = (dot + 1) % 5

FairSpec == Spec /\ WF_dot(Clock)

-----------------------------------------------------------------------------
(* Properties. *)

Delay == 0 .. 4

PpuState ==
  [ on : BOOLEAN, stat : SUBSET Selects, pending_stat : SUBSET Selects,
    stat_write_dots_remaining : 0 .. 1, lyc : LycValues, ly : 0 .. Lines - 1,
    ly_for_comparison : -1 .. Lines - 1, coincidence_flag : BOOLEAN,
    scanline : 0 .. Lines - 1, dot_counter : 0 .. LineDots - 1,
    line_dot_limit : {LineDots, LineDots - 6}, startup_line : BOOLEAN,
    first_frame_blank : BOOLEAN,
    mode : Modes, stat_mode : Modes, pending_stat_mode : Modes,
    stat_mode_delay : Delay, oam_mode_interrupt_delay : Delay,
    oam_mode_interrupt_active : BOOLEAN, hblank_mode_interrupt_delay : Delay,
    hblank_mode_interrupt_active : BOOLEAN, blocked : SUBSET Ports,
    oam_scan_index : 0 .. ScanEntries, accessed_oam_row : -1 .. ScanEntries \div 2,
    drawn : 0 .. DrawMax, stat_interrupt_line : BOOLEAN,
    raised : SUBSET {"LCDStat", "VBlank"} ]

\* Every member keeps its range; the scan never looks for an object after the
\* last one and a line never outlasts its limit.
TypeOK ==
  /\ ppu \in PpuState /\ dot \in 0 .. 4 /\ accessed \in BOOLEAN
  /\ ppu.dot_counter < ppu.line_dot_limit

\* What the program can read, which memory it reaches and when VBlank comes are
\* the table of LcdTimetable: no delay, flag or counter of the PPU survives a
\* switch of mode or of the LCD and shows up elsewhere in a frame.
Table == INSTANCE LcdTimetable WITH
  phase <- CASE ~ppu.on -> "off"
             [] ppu.mode = "OamScan" -> "scan"
             [] ppu.mode = "Drawing" -> "draw"
             [] ppu.mode = "VBlank" -> "vblank"
             [] OTHER -> IF ppu.startup_line /\ ppu.dot_counter < ScanEnd - 4
                         THEN "startup" ELSE "hblank",
  line <- ppu.scanline, pos <- ppu.dot_counter, first <- ppu.startup_line,
  blank <- ppu.first_frame_blank,
  seen <- [ ly |-> ppu.ly, compared |-> ppu.ly_for_comparison, mode |-> ppu.stat_mode,
            blocked |-> ppu.blocked, read_corrupts |-> CorruptedRow(ppu, "oam_read"),
            write_corrupts |-> CorruptedRow(ppu, "oam_write") ],
  vblank <- "VBlank" \in ppu.raised

ImplementsTimetable == Table!Spec

\* The four sources of the STAT interrupt, by the timetable.  Mode 2 is early by
\* a dot except in line 0, and line 144 counts as one; HBlank comes a dot late
\* and never before the first drawn line.
IsHigh(source) ==
  CASE source = "lyc" -> Table!Compared = ppu.lyc
    [] source = "oam" ->
         \/ ppu.mode = "OamScan" /\ ppu.dot_counter >= IF ppu.scanline = 0 THEN 4 ELSE 3
         \/ ppu.mode = "VBlank" /\ ppu.scanline = Visible
    [] source = "vblank" -> Table!Mode = "VBlank"
    [] source = "hblank" ->
         /\ ppu.mode = "HBlank" /\ ppu.hblank_mode_interrupt_delay = 0
         /\ ppu.startup_line => ppu.dot_counter > ScanEnd - 4

Level == ppu.on /\ \E source \in ppu.stat : IsHigh(source)

\* A scanned line begins with three dots in which the code does not look.
NotLooked == ppu.mode = "OamScan" /\ ppu.dot_counter < 3

\* The remembered level of the STAT interrupt is never stale when it matters:
\* outside those three dots it is the or of the selected sources, and in them it
\* is never below it.
StatLineFollowsSources ==
  ppu.on => \/ ppu.stat_interrupt_line = Level
            \/ NotLooked /\ ppu.stat_interrupt_line

\* The STAT interrupt is requested when the or of the selected sources rises and
\* never while one of them stays high; in particular a source that takes over
\* from another in one dot (VBlank from HBlank, mode 2 from HBlank) is silent.
EdgeOfLevel ==
  /\ "LCDStat" \in ppu'.raised
       => /\ ppu'.on /\ ~\E source \in ppu.stat \intersect ppu'.stat :
                           ppu.on /\ IsHigh(source) /\ IsHigh(source)'
          /\ ppu.stat_interrupt_line
               => ppu.stat_write_dots_remaining = 1 /\ ppu.stat # ppu.pending_stat
  /\ ppu.on /\ ppu'.on /\ ~ppu.stat_interrupt_line /\ Level' => "LCDStat" \in ppu'.raised

StatInterruptsAreEdges == [][EdgeOfLevel]_vars

\* As long as the LCD is on, VBlank comes again and again, which GameBoy's frame
\* loop waits for, whatever the program writes to STAT and LYC.
FramesRecur == <>[]ppu.on => []<>("VBlank" \in ppu.raised)
=============================================================================
