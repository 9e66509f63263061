----------------------------- MODULE PpuProofs -----------------------------
(***************************************************************************)
(* Proofs about Ppu for every frame format that satisfies PpuAssumption.   *)
(* The inductive invariant says where in a frame the PPU can be, and gives *)
(* for each such place the value of every member that the place determines *)
(* (Placed).  Only the selects, LYC and the STAT interrupt line are free;  *)
(* the line is the level of its sources whenever it can be read.           *)
(***************************************************************************)
EXTENDS Ppu, TLAPS

-----------------------------------------------------------------------------
(* The inductive invariant. *)

\* The kind of the counters, kept opaque where only the kind matters.
Number == Int

\* Every member has a value of its kind; the ranges follow from Placed.
Members ==
  [ on : BOOLEAN, stat : SUBSET Selects, pending_stat : SUBSET Selects,
    stat_write_dots_remaining : 0 .. 1, lyc : LycValues, ly : Number,
    ly_for_comparison : Number, coincidence_flag : BOOLEAN, scanline : Number,
    dot_counter : Number, line_dot_limit : Number, startup_line : BOOLEAN,
    first_frame_blank : BOOLEAN, mode : Modes, stat_mode : Modes,
    pending_stat_mode : Modes, stat_mode_delay : Number,
    oam_mode_interrupt_delay : Number, oam_mode_interrupt_active : BOOLEAN,
    hblank_mode_interrupt_delay : Number, hblank_mode_interrupt_active : BOOLEAN,
    blocked : SUBSET Ports, oam_scan_index : Number, accessed_oam_row : Number,
    drawn : Number, stat_interrupt_line : BOOLEAN,
    raised : SUBSET {"LCDStat", "VBlank"} ]

Stands(p, mode) == p.mode = mode /\ p.stat_mode = mode /\ p.pending_stat_mode = mode

NoOamDelay(p) ==
  p.stat_mode_delay = 0 /\ p.oam_mode_interrupt_delay = 0 /\ ~p.oam_mode_interrupt_active

NoDelay(p) ==
  /\ NoOamDelay(p)
  /\ p.hblank_mode_interrupt_delay = 0 /\ ~p.hblank_mode_interrupt_active

NoScan(p) == p.accessed_oam_row = -1 /\ p.oam_scan_index \in 0 .. ScanEntries

DrawFrom(p) == IF p.startup_line THEN ScanEnd - 4 ELSE ScanEnd

\* The LCD is off.
IsOff(p) ==
  /\ ~p.on /\ p.scanline = 0 /\ p.dot_counter = 0 /\ p.line_dot_limit = LineDots
  /\ ~p.startup_line /\ p.first_frame_blank /\ p.ly = 0 /\ p.ly_for_comparison = 0
  /\ Stands(p, "HBlank") /\ NoDelay(p) /\ p.blocked = {} /\ NoScan(p) /\ p.drawn = 0
  /\ p.stat_write_dots_remaining = 0

\* The LCD has been switched on and mode 3 of the first line has not begun.
InStartup(p) ==
  /\ p.on /\ p.startup_line /\ p.scanline = 0 /\ p.first_frame_blank
  /\ 0 <= p.dot_counter /\ p.dot_counter < ScanEnd - 4 /\ p.line_dot_limit = LineDots - 6
  /\ p.ly = 0 /\ p.ly_for_comparison = 0 /\ Stands(p, "HBlank") /\ NoOamDelay(p)
  /\ p.hblank_mode_interrupt_delay = (IF p.dot_counter = 0 THEN 1 ELSE 0)
  /\ p.hblank_mode_interrupt_active = (p.dot_counter # 0)
  /\ p.blocked = (IF p.dot_counter >= ScanEnd - 6 THEN {"oam_write"} ELSE {})
  /\ NoScan(p) /\ p.drawn = 0

InDrawnLine(p) ==
  /\ p.on /\ 0 <= p.scanline /\ p.scanline < Visible
  /\ p.line_dot_limit = (IF p.startup_line THEN LineDots - 6 ELSE LineDots)
  /\ p.startup_line => p.scanline = 0

\* Mode 2: each delay, counter and copy is a function of line and dot.
InScan(p) ==
  /\ InDrawnLine(p) /\ ~p.startup_line /\ p.mode = "OamScan" /\ p.drawn = 0
  /\ 0 <= p.dot_counter /\ p.dot_counter < ScanEnd
  /\ p.ly = (IF p.dot_counter < 3 /\ p.scanline > 0 THEN p.scanline - 1 ELSE p.scanline)
  /\ p.ly_for_comparison =
       (IF p.scanline = 0 THEN 0
        ELSE IF p.dot_counter < 3 THEN p.scanline - 1
        ELSE IF p.dot_counter = 3 THEN -1 ELSE p.scanline)
  /\ p.pending_stat_mode = "OamScan"
  /\ p.stat_mode = (IF p.dot_counter >= 4 THEN "OamScan"
                    ELSE IF p.scanline = 0 /\ p.dot_counter < 3 THEN "VBlank" ELSE "HBlank")
  /\ p.stat_mode_delay = (IF p.dot_counter < 4 THEN 4 - p.dot_counter ELSE 0)
  /\ LET early == IF p.scanline = 0 THEN 4 ELSE 3 IN
     /\ p.oam_mode_interrupt_delay = (IF p.dot_counter < early THEN early - p.dot_counter ELSE 0)
     /\ p.oam_mode_interrupt_active = (p.dot_counter >= early)
  /\ p.hblank_mode_interrupt_delay = 0 /\ ~p.hblank_mode_interrupt_active
  /\ p.blocked = (IF p.dot_counter >= 3 THEN {"oam_read"} ELSE {})
                   \union (IF 4 <= p.dot_counter /\ p.dot_counter < ScanEnd - 4
                           THEN {"oam_write"} ELSE {})
                   \union (IF p.dot_counter >= ScanEnd - 4 THEN {"vram_read"} ELSE {})
  /\ p.oam_scan_index = (IF p.dot_counter < 6 THEN 0 ELSE (p.dot_counter - 4) \div 2)
  /\ p.accessed_oam_row = (IF p.dot_counter < 6 THEN 0 ELSE ((p.dot_counter - 6) \div 4) + 1)

\* Mode 3: the dots of the line tell how far it is.
InDraw(p) ==
  /\ InDrawnLine(p) /\ Stands(p, "Drawing") /\ NoDelay(p) /\ p.blocked = Ports /\ NoScan(p)
  /\ 0 <= p.drawn /\ p.drawn < DrawMax /\ p.dot_counter = DrawFrom(p) + p.drawn
  /\ p.ly = p.scanline /\ p.ly_for_comparison = p.scanline

\* Mode 0 after mode 3.
InHBlank(p) ==
  /\ InDrawnLine(p) /\ Stands(p, "HBlank") /\ NoOamDelay(p) /\ p.blocked = {} /\ NoScan(p)
  /\ DrawFrom(p) + DrawMin <= p.dot_counter /\ p.dot_counter < p.line_dot_limit
  /\ p.drawn = 0 /\ p.ly = p.scanline /\ p.ly_for_comparison = p.scanline
  /\ p.hblank_mode_interrupt_delay \in 0 .. 1
  /\ p.hblank_mode_interrupt_delay = 1 => p.dot_counter + 1 < p.line_dot_limit
  /\ p.hblank_mode_interrupt_active = (p.hblank_mode_interrupt_delay = 0)

\* A line after the last drawn one.
InBlankLine(p) ==
  /\ p.on /\ ~p.startup_line /\ p.line_dot_limit = LineDots
  /\ 0 <= p.dot_counter /\ p.dot_counter < LineDots
  /\ NoOamDelay(p) /\ p.hblank_mode_interrupt_delay = 0
  /\ p.blocked = {} /\ NoScan(p) /\ p.drawn = 0

\* Mode 0 goes on for five dots after the last drawn line.
BeforeVBlank(p) ==
  /\ InBlankLine(p) /\ Stands(p, "HBlank") /\ p.hblank_mode_interrupt_active
  /\ p.scanline = Visible /\ p.dot_counter < 5
  /\ p.ly = (IF p.dot_counter < 2 THEN Visible - 1 ELSE Visible)
  /\ p.ly_for_comparison = (IF p.dot_counter < 4 THEN -1 ELSE Visible)

InVBlank(p) ==
  /\ InBlankLine(p) /\ Stands(p, "VBlank") /\ ~p.hblank_mode_interrupt_active
  /\ Visible <= p.scanline /\ p.scanline < Lines
  /\ p.scanline = Visible => p.dot_counter >= 5
  /\ LET wraps == p.scanline = Lines - 1 /\ p.dot_counter >= 8 IN
     /\ p.ly = (IF p.dot_counter < 2 THEN p.scanline - 1
                ELSE IF wraps THEN 0 ELSE p.scanline)
     /\ p.ly_for_comparison =
          (IF p.dot_counter < 4 THEN -1
           ELSE IF wraps THEN IF p.dot_counter < 12 THEN -1 ELSE 0
           ELSE p.scanline)
  /\ ~p.first_frame_blank

Placed(p) ==
  \/ IsOff(p) \/ InStartup(p) \/ InScan(p) \/ InDraw(p)
  \/ InHBlank(p) \/ BeforeVBlank(p) \/ InVBlank(p)

\* The sources of the STAT interrupt at a place, as IsHigh gives them.
High(p, source) ==
  CASE source = "lyc" -> p.coincidence_flag
    [] source = "oam" ->
         \/ p.mode = "OamScan" /\ p.oam_mode_interrupt_active
         \/ p.stat_mode = "VBlank" /\ p.scanline = Visible
    [] source = "vblank" -> p.stat_mode = "VBlank"
    [] source = "hblank" ->
         p.hblank_mode_interrupt_active /\ (p.startup_line => p.dot_counter >= ScanEnd - 4)
    [] OTHER -> FALSE

LevelOf(p) == \E source \in p.stat : High(p, source)

Unseen(p) == p.mode = "OamScan" /\ p.dot_counter < 3

\* The line is the level; a write of STAT has just made it so.
LineFollows(p) ==
  /\ p.coincidence_flag = (p.ly_for_comparison = p.lyc)
  /\ p.stat_interrupt_line = LevelOf(p) \/ (Unseen(p) /\ p.stat_interrupt_line)
  /\ p.stat_write_dots_remaining = 1 => p.stat_interrupt_line = LevelOf(p)

\* In the first line dots and M-cycles are in step, or one apart when a delayed
\* write has switched the LCD on; a written STAT waits for the next dot.
InStep ==
  /\ ppu.startup_line => ppu.dot_counter % 4 \in {dot % 4, (dot + 1) % 4}
  /\ ppu.stat_write_dots_remaining = 1 => dot = 0

IInv ==
  /\ ppu \in Members /\ dot \in 0 .. 4 /\ accessed \in BOOLEAN
  /\ Placed(ppu)
  /\ ppu.on => LineFollows(ppu)
  /\ InStep

-----------------------------------------------------------------------------
(* Which members an operation leaves alone. *)

SameRow(p, q) ==
  /\ q.on = p.on /\ q.scanline = p.scanline /\ q.line_dot_limit = p.line_dot_limit
  /\ q.startup_line = p.startup_line

SameBeam(p, q) == SameRow(p, q) /\ q.dot_counter = p.dot_counter

SameSelects(p, q) ==
  /\ q.stat = p.stat /\ q.pending_stat = p.pending_stat /\ q.lyc = p.lyc
  /\ q.stat_write_dots_remaining = p.stat_write_dots_remaining

SameCompared(p, q) ==
  q.ly_for_comparison = p.ly_for_comparison /\ q.coincidence_flag = p.coincidence_flag

SameShown(p, q) ==
  q.ly = p.ly /\ q.blocked = p.blocked /\ q.first_frame_blank = p.first_frame_blank

SameModes(p, q) ==
  q.mode = p.mode /\ q.stat_mode = p.stat_mode /\ q.pending_stat_mode = p.pending_stat_mode

SameDelays(p, q) ==
  /\ q.stat_mode_delay = p.stat_mode_delay
  /\ q.oam_mode_interrupt_delay = p.oam_mode_interrupt_delay
  /\ q.oam_mode_interrupt_active = p.oam_mode_interrupt_active
  /\ q.hblank_mode_interrupt_delay = p.hblank_mode_interrupt_delay
  /\ q.hblank_mode_interrupt_active = p.hblank_mode_interrupt_active

SameScan(p, q) ==
  /\ q.oam_scan_index = p.oam_scan_index /\ q.accessed_oam_row = p.accessed_oam_row
  /\ q.drawn = p.drawn

SameLine(p, q) == q.stat_interrupt_line = p.stat_interrupt_line /\ q.raised = p.raised

SameVBlank(p, q) == "VBlank" \in q.raised <=> "VBlank" \in p.raised

\* The interrupt line has been looked at: what q says of its sources is what it is.
LookedAt(p, q) ==
  /\ q.stat_interrupt_line <=> StatInterruptActive(q)
  /\ "LCDStat" \in q.raised
       <=> "LCDStat" \in p.raised \/ (StatInterruptActive(q) /\ ~p.stat_interrupt_line)

Looked(p, q) == LookedAt(p, q) /\ SameVBlank(p, q)

SameSources(p, q) ==
  /\ SameBeam(p, q) /\ SameDelays(p, q) /\ q.stat = p.stat
  /\ q.coincidence_flag = p.coincidence_flag
  /\ q.mode = p.mode /\ q.stat_mode = p.stat_mode

\* The level of the line belongs to its sources.
LEMMA ActiveDepends ==
  ASSUME NEW p, NEW q, SameSources(p, q)
  PROVE  StatInterruptActive(q) <=> StatInterruptActive(p)
BY DEF SameSources, SameBeam, SameRow, SameDelays, StatInterruptActive

\* update_stat_interrupt changes the line and the requests, nothing else.
LEMMA UpdateFields ==
  ASSUME NEW p \in Members
  PROVE  LET u == UpdateStatInterrupt(p)
         IN /\ u \in Members /\ SameBeam(p, u) /\ SameSelects(p, u) /\ SameCompared(p, u)
            /\ SameShown(p, u) /\ SameModes(p, u) /\ SameDelays(p, u) /\ SameScan(p, u)
            /\ Looked(p, u)
<1> DEFINE level == StatInterruptActive(p)
           requests == IF level /\ ~p.stat_interrupt_line
                       THEN p.raised \union {"LCDStat"} ELSE p.raised
           u == UpdateStatInterrupt(p)
<1>1. level \in BOOLEAN
  BY DEF StatInterruptActive
<1>2. requests \in SUBSET {"LCDStat", "VBlank"}
  BY DEF Members
<1>3. u = [p EXCEPT !.stat_interrupt_line = level, !.raised = requests]
  BY DEF UpdateStatInterrupt
<1>4. "LCDStat" \in requests <=> "LCDStat" \in p.raised \/ (level /\ ~p.stat_interrupt_line)
  OBVIOUS
<1>5. "VBlank" \in requests <=> "VBlank" \in p.raised
  OBVIOUS
<1> HIDE DEF level, requests, u
<1>6. u \in Members
  BY <1>1, <1>2, <1>3, ZenonT(60) DEF Members
<1>7. /\ SameBeam(p, u) /\ SameSelects(p, u) /\ SameCompared(p, u) /\ SameShown(p, u)
      /\ SameModes(p, u) /\ SameDelays(p, u) /\ SameScan(p, u)
  BY <1>3 DEF Members, SameBeam, SameRow, SameSelects, SameCompared, SameShown, SameModes,
              SameDelays, SameScan
<1>8. u.stat_interrupt_line = level /\ u.raised = requests
  BY <1>3 DEF Members
<1>9. StatInterruptActive(u) <=> level
  <2>1. SameSources(p, u)
    BY <1>7 DEF SameSources, SameSelects, SameCompared, SameModes
  <2> QED
    BY <2>1, ActiveDepends DEF level
<1>10. Looked(p, u)
  BY <1>1, <1>4, <1>5, <1>8, <1>9 DEF Looked, LookedAt, SameVBlank
<1> QED
  BY <1>6, <1>7, <1>10 DEF u

LEMMA CompareFields ==
  ASSUME NEW p \in Members, NEW value \in Number
  PROVE  LET c == Compare(p, value)
         IN /\ c \in Members /\ SameBeam(p, c) /\ SameSelects(p, c) /\ SameShown(p, c)
            /\ SameModes(p, c) /\ SameDelays(p, c) /\ SameScan(p, c) /\ SameLine(p, c)
            /\ c.ly_for_comparison = value /\ c.coincidence_flag = (value = p.lyc)
<1> DEFINE flag == value = p.lyc
           c == Compare(p, value)
<1>1. flag \in BOOLEAN
  OBVIOUS
<1>2. c = [p EXCEPT !.ly_for_comparison = value, !.coincidence_flag = flag]
  BY DEF Compare
<1> HIDE DEF flag, c
<1>3. c \in Members
  BY <1>1, <1>2 DEF Members
<1>4. /\ SameBeam(p, c) /\ SameSelects(p, c) /\ SameShown(p, c) /\ SameModes(p, c)
      /\ SameDelays(p, c) /\ SameScan(p, c) /\ SameLine(p, c)
  BY <1>2 DEF Members, SameBeam, SameRow, SameSelects, SameShown, SameModes, SameDelays,
              SameScan, SameLine
<1>5. c.ly_for_comparison = value /\ c.coincidence_flag = flag
  BY <1>1, <1>2 DEF Members
<1> QED
  BY <1>3, <1>4, <1>5 DEF flag, c

LEMMA SetLyFields ==
  ASSUME NEW p \in Members, NEW value \in Number
  PROVE  LET c == SetLyForComparison(p, value)
         IN /\ c \in Members /\ SameBeam(p, c) /\ SameSelects(p, c) /\ SameShown(p, c)
            /\ SameModes(p, c) /\ SameDelays(p, c) /\ SameScan(p, c) /\ Looked(p, c)
            /\ c.ly_for_comparison = value /\ c.coincidence_flag = (value = p.lyc)
<1> DEFINE b == Compare(p, value)
           c == SetLyForComparison(p, value)
<1>1. /\ b \in Members /\ SameBeam(p, b) /\ SameSelects(p, b) /\ SameShown(p, b)
      /\ SameModes(p, b) /\ SameDelays(p, b) /\ SameScan(p, b) /\ SameLine(p, b)
      /\ b.ly_for_comparison = value /\ b.coincidence_flag = (value = p.lyc)
  BY CompareFields
<1>2. c = UpdateStatInterrupt(b)
  BY DEF SetLyForComparison
<1> HIDE DEF b, c
<1>3. /\ c \in Members /\ SameBeam(b, c) /\ SameSelects(b, c) /\ SameCompared(b, c)
      /\ SameShown(b, c) /\ SameModes(b, c) /\ SameDelays(b, c) /\ SameScan(b, c)
      /\ Looked(b, c)
  BY <1>1, <1>2, UpdateFields
<1>4. c.ly_for_comparison = value /\ c.coincidence_flag = (value = p.lyc)
  BY <1>1, <1>3 DEF SameCompared
<1>5. Looked(p, c)
  BY <1>1, <1>3 DEF Looked, LookedAt, SameVBlank, SameLine
<1>6. SameBeam(p, c) /\ SameSelects(p, c) /\ SameShown(p, c)
  BY <1>1, <1>3 DEF SameBeam, SameRow, SameSelects, SameShown
<1>7. SameModes(p, c) /\ SameDelays(p, c) /\ SameScan(p, c)
  BY <1>1, <1>3 DEF SameModes, SameDelays, SameScan
<1> QED
  BY <1>3, <1>4, <1>5, <1>6, <1>7 DEF c

LEMMA BlockingFields ==
  ASSUME NEW p \in Members, NEW vram \in BOOLEAN, NEW oam \in BOOLEAN
  PROVE  LET b == SetAccessBlocking(p, vram, oam)
         IN /\ b \in Members /\ SameBeam(p, b) /\ SameSelects(p, b) /\ SameCompared(p, b)
            /\ SameModes(p, b) /\ SameDelays(p, b) /\ SameScan(p, b) /\ SameLine(p, b)
            /\ b.ly = p.ly /\ b.first_frame_blank = p.first_frame_blank
            /\ vram /\ oam => b.blocked = Ports
            /\ ~vram /\ ~oam => b.blocked = {}
<1> DEFINE ports == (IF vram THEN {"vram_read", "vram_write"} ELSE {})
                      \union (IF oam THEN {"oam_read", "oam_write"} ELSE {})
           b == SetAccessBlocking(p, vram, oam)
<1>1. ports \in SUBSET Ports
  BY DEF Ports
<1>2. vram /\ oam => ports = Ports
  BY DEF Ports
<1>3. ~vram /\ ~oam => ports = {}
  OBVIOUS
<1>4. b = [p EXCEPT !.blocked = ports]
  BY DEF SetAccessBlocking
<1> HIDE DEF ports, b
<1>5. b \in Members
  BY <1>1, <1>4 DEF Members
<1>6. /\ SameBeam(p, b) /\ SameSelects(p, b) /\ SameCompared(p, b) /\ SameModes(p, b)
      /\ SameDelays(p, b) /\ SameScan(p, b) /\ SameLine(p, b)
  BY <1>4 DEF Members, SameBeam, SameRow, SameSelects, SameCompared, SameModes, SameDelays,
              SameScan, SameLine
<1>7. b.ly = p.ly /\ b.first_frame_blank = p.first_frame_blank /\ b.blocked = ports
  BY <1>4 DEF Members
<1> QED
  BY <1>2, <1>3, <1>5, <1>6, <1>7 DEF b

LEMMA EnterModeFields ==
  ASSUME NEW p \in Members, NEW next \in Modes
  PROVE  LET e == EnterMode(p, next)
         IN /\ e \in Members /\ SameBeam(p, e) /\ SameSelects(p, e) /\ SameCompared(p, e)
            /\ SameShown(p, e) /\ SameScan(p, e) /\ SameLine(p, e) /\ NoDelay(e)
            /\ e.mode = next /\ e.pending_stat_mode = next /\ e.stat_mode = p.stat_mode
<1> DEFINE e == EnterMode(p, next)
<1>1. e = [p EXCEPT !.mode = next, !.pending_stat_mode = next, !.stat_mode_delay = 0,
             !.oam_mode_interrupt_active = FALSE, !.oam_mode_interrupt_delay = 0,
             !.hblank_mode_interrupt_active = FALSE, !.hblank_mode_interrupt_delay = 0]
  BY DEF EnterMode
<1> HIDE DEF e
<1>2. e \in Members
  <2>1. 0 \in Number
    BY DEF Number
  <2> QED
    BY <1>1, <2>1, ZenonT(60) DEF Members
<1>3. SameBeam(p, e) /\ SameSelects(p, e) /\ SameCompared(p, e) /\ SameShown(p, e)
  BY <1>1 DEF Members, SameBeam, SameRow, SameSelects, SameCompared, SameShown
<1>4. SameScan(p, e) /\ SameLine(p, e) /\ e.stat_mode = p.stat_mode
  BY <1>1 DEF Members, SameScan, SameLine
<1>5. NoDelay(e) /\ e.mode = next /\ e.pending_stat_mode = next
  BY <1>1 DEF Members, NoDelay, NoOamDelay
<1> QED
  BY <1>2, <1>3, <1>4, <1>5 DEF e

\* Mode 2 shows up later, under its two delays.
LEMMA SetScanFields ==
  ASSUME NEW p \in Members
  PROVE  LET e == SetMode(p, "OamScan")
         IN /\ e \in Members /\ SameBeam(p, e) /\ SameSelects(p, e) /\ SameCompared(p, e)
            /\ SameShown(p, e) /\ SameScan(p, e) /\ SameLine(p, e)
            /\ e.mode = "OamScan" /\ e.pending_stat_mode = "OamScan"
            /\ e.stat_mode = p.stat_mode /\ e.stat_mode_delay = 4
            /\ e.oam_mode_interrupt_delay = (IF p.scanline = 0 THEN 4 ELSE 3)
            /\ ~e.oam_mode_interrupt_active
            /\ e.hblank_mode_interrupt_delay = 0 /\ ~e.hblank_mode_interrupt_active
<1> DEFINE b == EnterMode(p, "OamScan")
           early == IF p.scanline = 0 THEN 4 ELSE 3
           e == SetMode(p, "OamScan")
<1>1. /\ b \in Members /\ SameBeam(p, b) /\ SameSelects(p, b) /\ SameCompared(p, b)
      /\ SameShown(p, b) /\ SameScan(p, b) /\ SameLine(p, b) /\ NoDelay(b)
      /\ b.mode = "OamScan" /\ b.pending_stat_mode = "OamScan" /\ b.stat_mode = p.stat_mode
  BY EnterModeFields DEF Modes
<1>2. e = [b EXCEPT !.stat_mode_delay = 4, !.oam_mode_interrupt_delay = early]
  BY DEF SetMode
<1>3. early \in Number /\ 4 \in Number
  BY DEF Number
<1> HIDE DEF b, early, e
<1>4. e \in Members
  BY <1>1, <1>2, <1>3 DEF Members
<1>5. SameBeam(p, e) /\ SameSelects(p, e) /\ SameCompared(p, e) /\ SameShown(p, e)
  BY <1>1, <1>2 DEF Members, SameBeam, SameRow, SameSelects, SameCompared, SameShown
<1>6. SameScan(p, e) /\ SameLine(p, e)
  BY <1>1, <1>2 DEF Members, SameScan, SameLine
<1>7. /\ e.mode = "OamScan" /\ e.pending_stat_mode = "OamScan" /\ e.stat_mode = p.stat_mode
      /\ e.stat_mode_delay = 4 /\ e.oam_mode_interrupt_delay = early
      /\ ~e.oam_mode_interrupt_active
      /\ e.hblank_mode_interrupt_delay = 0 /\ ~e.hblank_mode_interrupt_active
  BY <1>1, <1>2 DEF Members, NoDelay, NoOamDelay
<1> QED
  BY <1>4, <1>5, <1>6, <1>7 DEF early, e

\* The other modes are read at once; mode 0 has the delay of its interrupt.
LEMMA SetModeFields ==
  ASSUME NEW p \in Members, NEW next \in {"HBlank", "Drawing", "VBlank"}
  PROVE  LET e == SetMode(p, next)
         IN /\ e \in Members /\ SameBeam(p, e) /\ SameSelects(p, e) /\ SameCompared(p, e)
            /\ SameShown(p, e) /\ SameScan(p, e) /\ Looked(p, e)
            /\ Stands(e, next) /\ NoOamDelay(e) /\ ~e.hblank_mode_interrupt_active
            /\ e.hblank_mode_interrupt_delay = (IF next = "HBlank" THEN 1 ELSE 0)
<1> DEFINE b == EnterMode(p, next)
           delay == IF next = "HBlank" THEN 1 ELSE 0
           c == [b EXCEPT !.stat_mode = next, !.hblank_mode_interrupt_delay = delay]
           e == SetMode(p, next)
<1>1. next \in Modes
  BY DEF Modes
<1>2. /\ b \in Members /\ SameBeam(p, b) /\ SameSelects(p, b) /\ SameCompared(p, b)
      /\ SameShown(p, b) /\ SameScan(p, b) /\ SameLine(p, b) /\ NoDelay(b)
      /\ b.mode = next /\ b.pending_stat_mode = next
  BY <1>1, EnterModeFields
<1>3. delay \in Number
  BY DEF Number
<1>4. e = UpdateStatInterrupt(c)
  <2>1. CASE next = "HBlank"
    BY <2>1 DEF SetMode
  <2>2. CASE next # "HBlank"
    <3>1. b.hblank_mode_interrupt_delay = 0
      BY <1>2 DEF NoDelay
    <3>2. c = [b EXCEPT !.stat_mode = next]
      BY <1>2, <2>2, <3>1 DEF Members
    <3>3. e = UpdateStatInterrupt([b EXCEPT !.stat_mode = next])
      BY <2>2 DEF SetMode
    <3> QED
      BY <3>2, <3>3
  <2> QED
    BY <2>1, <2>2
<1>5. c = [b EXCEPT !.stat_mode = next, !.hblank_mode_interrupt_delay = delay]
  OBVIOUS
<1> HIDE DEF b, c, delay, e
<1>6. c \in Members
  BY <1>1, <1>2, <1>3, <1>5 DEF Members
<1>7. SameBeam(p, c) /\ SameSelects(p, c) /\ SameCompared(p, c) /\ SameShown(p, c)
  BY <1>2, <1>5 DEF Members, SameBeam, SameRow, SameSelects, SameCompared, SameShown
<1>8. SameScan(p, c) /\ SameLine(p, c)
  BY <1>2, <1>5 DEF Members, SameScan, SameLine
<1>9. /\ Stands(c, next) /\ NoOamDelay(c) /\ ~c.hblank_mode_interrupt_active
      /\ c.hblank_mode_interrupt_delay = delay
  BY <1>2, <1>5 DEF Members, Stands, NoDelay, NoOamDelay
<1>10. /\ e \in Members /\ SameBeam(c, e) /\ SameSelects(c, e) /\ SameCompared(c, e)
       /\ SameShown(c, e) /\ SameModes(c, e) /\ SameDelays(c, e) /\ SameScan(c, e)
       /\ Looked(c, e)
  BY <1>4, <1>6, UpdateFields
<1>11. SameBeam(p, e) /\ SameSelects(p, e) /\ SameCompared(p, e)
  BY <1>7, <1>10 DEF SameBeam, SameRow, SameSelects, SameCompared
<1>12. SameShown(p, e) /\ SameScan(p, e) /\ Looked(p, e)
  BY <1>7, <1>8, <1>10 DEF SameShown, SameScan, Looked, LookedAt, SameVBlank, SameLine
<1>13. /\ Stands(e, next) /\ NoOamDelay(e) /\ ~e.hblank_mode_interrupt_active
       /\ e.hblank_mode_interrupt_delay = delay
  BY <1>9, <1>10 DEF Stands, NoOamDelay, SameModes, SameDelays
<1> QED
  BY <1>10, <1>11, <1>12, <1>13 DEF delay, e

\* The first thing in a dot.
NextDot(p) == [p EXCEPT !.dot_counter = @ + 1]

LEMMA NextDotFields ==
  ASSUME NEW p \in Members
  PROVE  LET b == NextDot(p)
         IN /\ b \in Members /\ SameRow(p, b) /\ SameSelects(p, b) /\ SameCompared(p, b)
            /\ SameShown(p, b) /\ SameModes(p, b) /\ SameDelays(p, b) /\ SameScan(p, b)
            /\ SameLine(p, b) /\ b.dot_counter = p.dot_counter + 1
<1> DEFINE counter == p.dot_counter + 1
           b == NextDot(p)
<1>1. counter \in Number
  BY DEF Members, Number
<1>2. b = [p EXCEPT !.dot_counter = counter]
  BY DEF NextDot
<1> HIDE DEF counter, b
<1>3. b \in Members
  BY <1>1, <1>2 DEF Members
<1>4. /\ SameRow(p, b) /\ SameSelects(p, b) /\ SameCompared(p, b) /\ SameShown(p, b)
      /\ SameModes(p, b) /\ SameDelays(p, b) /\ SameScan(p, b) /\ SameLine(p, b)
  BY <1>2 DEF Members, SameRow, SameSelects, SameCompared, SameShown, SameModes,
              SameDelays, SameScan, SameLine
<1>5. b.dot_counter = counter
  BY <1>2 DEF Members
<1> QED
  BY <1>3, <1>4, <1>5 DEF counter, b

StatChanged(p) ==
  \/ p.mode = "OamScan" /\ p.dot_counter \in {3, 4}
  \/ p.stat_mode_delay = 1 \/ p.oam_mode_interrupt_delay = 1
  \/ p.hblank_mode_interrupt_delay = 1

\* The delays count down; what they delay takes effect at the end, and is looked at.
LEMMA DelaysFields ==
  ASSUME NEW p \in Members
  PROVE  LET t == TickDelays(p)
         IN /\ t \in Members /\ SameBeam(p, t) /\ SameSelects(p, t) /\ SameCompared(p, t)
            /\ SameShown(p, t) /\ SameScan(p, t)
            /\ t.mode = p.mode /\ t.pending_stat_mode = p.pending_stat_mode
            /\ t.stat_mode = (IF p.stat_mode_delay = 1 THEN p.pending_stat_mode
                              ELSE p.stat_mode)
            /\ t.stat_mode_delay = Less(p.stat_mode_delay)
            /\ t.oam_mode_interrupt_delay = Less(p.oam_mode_interrupt_delay)
            /\ t.hblank_mode_interrupt_delay = Less(p.hblank_mode_interrupt_delay)
            /\ t.oam_mode_interrupt_active
                 <=> p.oam_mode_interrupt_active \/ p.oam_mode_interrupt_delay = 1
            /\ t.hblank_mode_interrupt_active
                 <=> p.hblank_mode_interrupt_active \/ p.hblank_mode_interrupt_delay = 1
            /\ StatChanged(p) => Looked(p, t)
            /\ ~StatChanged(p) => SameLine(p, t)
<1> DEFINE mode == IF p.stat_mode_delay = 1 THEN p.pending_stat_mode ELSE p.stat_mode
           oam == p.oam_mode_interrupt_active \/ p.oam_mode_interrupt_delay = 1
           hblank == p.hblank_mode_interrupt_active \/ p.hblank_mode_interrupt_delay = 1
           less1 == Less(p.stat_mode_delay)
           less2 == Less(p.oam_mode_interrupt_delay)
           less3 == Less(p.hblank_mode_interrupt_delay)
           b == [p EXCEPT !.stat_mode = mode, !.oam_mode_interrupt_active = oam,
                   !.hblank_mode_interrupt_active = hblank, !.stat_mode_delay = less1,
                   !.oam_mode_interrupt_delay = less2, !.hblank_mode_interrupt_delay = less3]
           t == TickDelays(p)
<1>1. mode \in Modes
  BY DEF Members
<1>2. oam \in BOOLEAN /\ hblank \in BOOLEAN
  BY DEF Members
<1>3. less1 \in Number /\ less2 \in Number /\ less3 \in Number
  BY DEF Members, Number, Less
<1>4. t = IF StatChanged(p) THEN UpdateStatInterrupt(b) ELSE b
  BY DEF TickDelays, StatChanged
<1>5. b = [p EXCEPT !.stat_mode = mode, !.oam_mode_interrupt_active = oam,
             !.hblank_mode_interrupt_active = hblank, !.stat_mode_delay = less1,
             !.oam_mode_interrupt_delay = less2, !.hblank_mode_interrupt_delay = less3]
  OBVIOUS
<1> HIDE DEF mode, oam, hblank, less1, less2, less3, b, t
<1>6. b \in Members
  <2> DEFINE h == [p EXCEPT !.stat_mode = mode, !.oam_mode_interrupt_active = oam,
                     !.hblank_mode_interrupt_active = hblank]
  <2>1. h \in Members
    BY <1>1, <1>2 DEF Members
  <2>2. b = [h EXCEPT !.stat_mode_delay = less1, !.oam_mode_interrupt_delay = less2,
                      !.hblank_mode_interrupt_delay = less3]
    BY <1>5
  <2> HIDE DEF h
  <2> QED
    BY <1>3, <2>1, <2>2, ZenonT(60) DEF Members
<1>7. /\ SameBeam(p, b) /\ SameSelects(p, b) /\ SameCompared(p, b) /\ SameShown(p, b)
      /\ SameScan(p, b) /\ SameLine(p, b)
  BY <1>5 DEF Members, SameBeam, SameRow, SameSelects, SameCompared, SameShown, SameScan,
              SameLine
<1>8. /\ b.mode = p.mode /\ b.pending_stat_mode = p.pending_stat_mode
      /\ b.stat_mode = mode /\ b.stat_mode_delay = less1
      /\ b.oam_mode_interrupt_delay = less2 /\ b.hblank_mode_interrupt_delay = less3
      /\ b.oam_mode_interrupt_active = oam /\ b.hblank_mode_interrupt_active = hblank
  BY <1>5 DEF Members
<1>9. CASE ~StatChanged(p)
  <2>1. t = b
    BY <1>4, <1>9
  <2> QED
    BY <1>6, <1>7, <1>8, <1>9, <2>1 DEF mode, oam, hblank, less1, less2, less3, t
<1>10. CASE StatChanged(p)
  <2>1. /\ t \in Members /\ SameBeam(b, t) /\ SameSelects(b, t) /\ SameCompared(b, t)
        /\ SameShown(b, t) /\ SameModes(b, t) /\ SameDelays(b, t) /\ SameScan(b, t)
        /\ Looked(b, t)
    BY <1>4, <1>6, <1>10, UpdateFields
  <2>2. SameBeam(p, t) /\ SameSelects(p, t) /\ SameCompared(p, t)
    BY <1>7, <2>1 DEF SameBeam, SameRow, SameSelects, SameCompared
  <2>3. SameShown(p, t) /\ SameScan(p, t) /\ Looked(p, t)
    BY <1>7, <2>1 DEF SameShown, SameScan, SameLine, Looked, LookedAt, SameVBlank
  <2>4. /\ t.mode = p.mode /\ t.pending_stat_mode = p.pending_stat_mode
        /\ t.stat_mode = mode /\ t.stat_mode_delay = less1
        /\ t.oam_mode_interrupt_delay = less2 /\ t.hblank_mode_interrupt_delay = less3
        /\ t.oam_mode_interrupt_active = oam /\ t.hblank_mode_interrupt_active = hblank
    BY <1>8, <2>1 DEF SameModes, SameDelays
  <2> QED
    BY <1>10, <2>1, <2>2, <2>3, <2>4 DEF mode, oam, hblank, less1, less2, less3, t
<1> QED
  BY <1>9, <1>10

\* Without a delay and outside the two dots of mode 2, nothing changes.
LEMMA DelaysIdle ==
  ASSUME NEW p \in Members, NoOamDelay(p), p.hblank_mode_interrupt_delay = 0,
         p.mode # "OamScan"
  PROVE  LET t == TickDelays(p)
         IN /\ t \in Members /\ SameBeam(p, t) /\ SameSelects(p, t) /\ SameCompared(p, t)
            /\ SameShown(p, t) /\ SameModes(p, t) /\ SameDelays(p, t) /\ SameScan(p, t)
            /\ SameLine(p, t)
<1> DEFINE t == TickDelays(p)
<1>1. ~StatChanged(p)
  BY DEF StatChanged, NoOamDelay
<1>2. /\ t \in Members /\ SameBeam(p, t) /\ SameSelects(p, t) /\ SameCompared(p, t)
      /\ SameShown(p, t) /\ SameScan(p, t)
      /\ t.mode = p.mode /\ t.pending_stat_mode = p.pending_stat_mode
      /\ t.stat_mode = (IF p.stat_mode_delay = 1 THEN p.pending_stat_mode ELSE p.stat_mode)
      /\ t.stat_mode_delay = Less(p.stat_mode_delay)
      /\ t.oam_mode_interrupt_delay = Less(p.oam_mode_interrupt_delay)
      /\ t.hblank_mode_interrupt_delay = Less(p.hblank_mode_interrupt_delay)
      /\ t.oam_mode_interrupt_active
           <=> p.oam_mode_interrupt_active \/ p.oam_mode_interrupt_delay = 1
      /\ t.hblank_mode_interrupt_active
           <=> p.hblank_mode_interrupt_active \/ p.hblank_mode_interrupt_delay = 1
      /\ SameLine(p, t)
  BY <1>1, DelaysFields
<1> HIDE DEF t
<1>3. SameModes(p, t)
  BY <1>2 DEF SameModes, NoOamDelay
<1>4. /\ t.stat_mode_delay = p.stat_mode_delay
      /\ t.oam_mode_interrupt_delay = p.oam_mode_interrupt_delay
      /\ t.hblank_mode_interrupt_delay = p.hblank_mode_interrupt_delay
  BY <1>2 DEF NoOamDelay, Less
<1>5. /\ t.oam_mode_interrupt_active <=> p.oam_mode_interrupt_active
      /\ t.hblank_mode_interrupt_active <=> p.hblank_mode_interrupt_active
  BY <1>2 DEF NoOamDelay
<1>6. /\ t.oam_mode_interrupt_active = p.oam_mode_interrupt_active
      /\ t.hblank_mode_interrupt_active = p.hblank_mode_interrupt_active
  BY <1>2, <1>5 DEF Members
<1> QED
  BY <1>2, <1>3, <1>4, <1>6 DEF t, SameDelays

\* A scanned line in its third and fourth dot, as TickLine gets it.
LEMMA ScanLineFields ==
  ASSUME NEW p \in Members, p.mode = "OamScan"
  PROVE  LET c == TickLine(p)
         IN /\ c \in Members /\ SameBeam(p, c) /\ SameSelects(p, c) /\ SameDelays(p, c)
            /\ SameScan(p, c) /\ SameLine(p, c)
            /\ c.mode = p.mode /\ c.pending_stat_mode = p.pending_stat_mode
            /\ c.first_frame_blank = p.first_frame_blank
            /\ p.dot_counter = 3
                 => /\ c.ly = p.scanline /\ c.blocked = p.blocked \union {"oam_read"}
                    /\ c.ly_for_comparison = (IF p.scanline = 0 THEN 0 ELSE -1)
                    /\ c.stat_mode = (IF p.scanline = 0 THEN "HBlank" ELSE p.stat_mode)
            /\ p.dot_counter = 4
                 => /\ c.ly = p.ly /\ c.blocked = p.blocked \union {"oam_write"}
                    /\ c.ly_for_comparison = p.scanline /\ c.stat_mode = p.stat_mode
            /\ p.dot_counter \in {3, 4}
                 => c.coincidence_flag = (c.ly_for_comparison = p.lyc)
            /\ p.dot_counter \notin {3, 4}
                 => SameCompared(p, c) /\ SameShown(p, c) /\ c.stat_mode = p.stat_mode
<1> DEFINE c == TickLine(p)
<1>1. c = TickScanLine(p)
  BY DEF TickLine
<1>2. CASE p.dot_counter = 3
  <2> DEFINE value == IF p.scanline = 0 THEN 0 ELSE -1
             ports == p.blocked \union {"oam_read"}
             mode == IF p.scanline = 0 THEN "HBlank" ELSE p.stat_mode
             ly == p.scanline
             b == Compare(p, value)
  <2>1. value \in Number /\ ly \in Number
    BY DEF Members, Number
  <2>2. ports \in SUBSET Ports /\ mode \in Modes
    BY DEF Members, Ports, Modes
  <2>3. /\ b \in Members /\ SameBeam(p, b) /\ SameSelects(p, b) /\ SameShown(p, b)
        /\ SameModes(p, b) /\ SameDelays(p, b) /\ SameScan(p, b) /\ SameLine(p, b)
        /\ b.ly_for_comparison = value /\ b.coincidence_flag = (value = p.lyc)
    BY <2>1, CompareFields
  <2>4. c = [b EXCEPT !.ly = p.scanline, !.blocked = b.blocked \union {"oam_read"},
                      !.stat_mode = IF p.scanline = 0 THEN "HBlank" ELSE b.stat_mode]
    BY <1>1, <1>2, <2>3 DEF TickScanLine, Members
  <2>5. c = [b EXCEPT !.ly = ly, !.blocked = ports, !.stat_mode = mode]
    BY <2>3, <2>4 DEF SameShown, SameModes
  <2> HIDE DEF value, ports, mode, ly, b, c
  <2>6. c \in Members
    BY <2>1, <2>2, <2>3, <2>5 DEF Members
  <2>7. SameBeam(p, c) /\ SameSelects(p, c) /\ SameDelays(p, c)
    BY <2>3, <2>5 DEF Members, SameBeam, SameRow, SameSelects, SameDelays
  <2>8. /\ SameScan(p, c) /\ SameLine(p, c)
        /\ c.mode = p.mode /\ c.pending_stat_mode = p.pending_stat_mode
        /\ c.first_frame_blank = p.first_frame_blank
    BY <2>3, <2>5 DEF Members, SameScan, SameLine, SameModes, SameShown
  <2>9. /\ c.ly = ly /\ c.blocked = ports /\ c.stat_mode = mode
        /\ c.ly_for_comparison = value /\ c.coincidence_flag = (value = p.lyc)
    BY <2>3, <2>5 DEF Members
  <2> QED
    BY <1>2, <2>6, <2>7, <2>8, <2>9 DEF value, ports, mode, ly, c
<1>3. CASE p.dot_counter = 4
  <2> DEFINE ports == p.blocked \union {"oam_write"}
             b == Compare(p, p.scanline)
  <2>1. p.scanline \in Number
    BY DEF Members
  <2>2. ports \in SUBSET Ports
    BY DEF Members, Ports
  <2>3. /\ b \in Members /\ SameBeam(p, b) /\ SameSelects(p, b) /\ SameShown(p, b)
        /\ SameModes(p, b) /\ SameDelays(p, b) /\ SameScan(p, b) /\ SameLine(p, b)
        /\ b.ly_for_comparison = p.scanline /\ b.coincidence_flag = (p.scanline = p.lyc)
    BY <2>1, CompareFields
  <2>4. c = [b EXCEPT !.blocked = b.blocked \union {"oam_write"}]
    BY <1>1, <1>3, <2>3 DEF TickScanLine, Members
  <2>5. c = [b EXCEPT !.blocked = ports]
    BY <2>3, <2>4 DEF SameShown
  <2> HIDE DEF ports, b, c
  <2>6. c \in Members
    BY <2>2, <2>3, <2>5 DEF Members
  <2>7. SameBeam(p, c) /\ SameSelects(p, c) /\ SameDelays(p, c)
    BY <2>3, <2>5 DEF Members, SameBeam, SameRow, SameSelects, SameDelays
  <2>8. /\ SameScan(p, c) /\ SameLine(p, c) /\ SameModes(p, c)
        /\ c.first_frame_blank = p.first_frame_blank /\ c.ly = p.ly
    BY <2>3, <2>5 DEF Members, SameScan, SameLine, SameModes, SameShown
  <2>9. /\ c.blocked = ports
        /\ c.ly_for_comparison = p.scanline /\ c.coincidence_flag = (p.scanline = p.lyc)
    BY <2>3, <2>5 DEF Members
  <2> QED
    BY <1>3, <2>6, <2>7, <2>8, <2>9 DEF ports, c, SameModes
<1>4. CASE p.dot_counter \notin {3, 4}
  <2>1. c = p
    BY <1>1, <1>4 DEF TickScanLine
  <2> QED
    BY <1>4, <2>1 DEF SameBeam, SameRow, SameSelects, SameCompared, SameShown, SameDelays,
                      SameScan, SameLine
<1> QED
  BY <1>2, <1>3, <1>4

LEMMA ScanEntryFields ==
  ASSUME NEW p \in Members
  PROVE  LET e == ScanOamEntry(p)
         IN /\ e \in Members /\ SameBeam(p, e) /\ SameSelects(p, e) /\ SameCompared(p, e)
            /\ SameModes(p, e) /\ SameDelays(p, e) /\ SameLine(p, e)
            /\ e.ly = p.ly /\ e.first_frame_blank = p.first_frame_blank /\ e.drawn = p.drawn
            /\ e.oam_scan_index = p.oam_scan_index + 1
            /\ e.accessed_oam_row = (p.oam_scan_index \div 2) + 1
            /\ e.blocked = (IF p.oam_scan_index = ScanEntries - 3
                            THEN (p.blocked \union {"vram_read"}) \ {"oam_write"}
                            ELSE p.blocked)
<1> DEFINE ports == IF p.oam_scan_index = ScanEntries - 3
                    THEN (p.blocked \union {"vram_read"}) \ {"oam_write"} ELSE p.blocked
           index == p.oam_scan_index + 1
           row == (p.oam_scan_index \div 2) + 1
           e == ScanOamEntry(p)
<1>1. ports \in SUBSET Ports
  BY DEF Members, Ports
<1>2. index \in Number /\ row \in Number
  BY DEF Members, Number
<1>3. e = [p EXCEPT !.accessed_oam_row = row, !.oam_scan_index = index, !.blocked = ports]
  BY DEF ScanOamEntry
<1> HIDE DEF ports, index, row, e
<1>4. e \in Members
  BY <1>1, <1>2, <1>3 DEF Members
<1>5. SameBeam(p, e) /\ SameSelects(p, e) /\ SameCompared(p, e) /\ SameModes(p, e)
  BY <1>3 DEF Members, SameBeam, SameRow, SameSelects, SameCompared, SameModes
<1>6. /\ SameDelays(p, e) /\ SameLine(p, e)
      /\ e.ly = p.ly /\ e.first_frame_blank = p.first_frame_blank /\ e.drawn = p.drawn
  BY <1>3 DEF Members, SameDelays, SameLine
<1>7. e.oam_scan_index = index /\ e.accessed_oam_row = row /\ e.blocked = ports
  BY <1>3 DEF Members
<1> QED
  BY <1>4, <1>5, <1>6, <1>7 DEF ports, index, row, e

\* Mode 3 begins: all memory is blocked and nothing is drawn yet.
LEMMA BeginMode3Fields ==
  ASSUME NEW p \in Members
  PROVE  LET m == BeginMode3(p)
         IN /\ m \in Members /\ SameBeam(p, m) /\ SameSelects(p, m) /\ SameCompared(p, m)
            /\ m.ly = p.ly /\ m.first_frame_blank = p.first_frame_blank
            /\ m.oam_scan_index = p.oam_scan_index /\ m.accessed_oam_row = -1
            /\ m.drawn = 0 /\ m.blocked = Ports
            /\ Stands(m, "Drawing") /\ NoDelay(m) /\ Looked(p, m)
<1> DEFINE d == SetMode(p, "Drawing")
           e == SetAccessBlocking(d, TRUE, TRUE)
           m == BeginMode3(p)
<1>1. /\ d \in Members /\ SameBeam(p, d) /\ SameSelects(p, d) /\ SameCompared(p, d)
      /\ SameShown(p, d) /\ SameScan(p, d) /\ Looked(p, d)
      /\ Stands(d, "Drawing") /\ NoOamDelay(d) /\ ~d.hblank_mode_interrupt_active
      /\ d.hblank_mode_interrupt_delay = 0
  BY SetModeFields
<1>2. /\ e \in Members /\ SameBeam(d, e) /\ SameSelects(d, e) /\ SameCompared(d, e)
      /\ SameModes(d, e) /\ SameDelays(d, e) /\ SameScan(d, e) /\ SameLine(d, e)
      /\ e.ly = d.ly /\ e.first_frame_blank = d.first_frame_blank /\ e.blocked = Ports
  BY <1>1, BlockingFields
<1>3. m = [e EXCEPT !.accessed_oam_row = -1, !.drawn = 0]
  BY DEF BeginMode3
<1>4. -1 \in Number /\ 0 \in Number
  BY DEF Number
<1> HIDE DEF d, e, m
<1>5. m \in Members
  BY <1>2, <1>3, <1>4, ZenonT(60) DEF Members
<1>6. SameBeam(e, m) /\ SameSelects(e, m) /\ SameCompared(e, m) /\ SameShown(e, m)
  BY <1>2, <1>3 DEF Members, SameBeam, SameRow, SameSelects, SameCompared, SameShown
<1>7. SameModes(e, m) /\ SameDelays(e, m) /\ SameLine(e, m)
  BY <1>2, <1>3 DEF Members, SameModes, SameDelays, SameLine
<1>8. m.oam_scan_index = e.oam_scan_index /\ m.accessed_oam_row = -1 /\ m.drawn = 0
  BY <1>2, <1>3 DEF Members
<1>9. SameBeam(p, m) /\ SameSelects(p, m) /\ SameCompared(p, m)
  BY <1>1, <1>2, <1>6 DEF SameBeam, SameRow, SameSelects, SameCompared
<1>10. /\ m.ly = p.ly /\ m.first_frame_blank = p.first_frame_blank
       /\ m.oam_scan_index = p.oam_scan_index /\ m.blocked = Ports
  BY <1>1, <1>2, <1>6, <1>8 DEF SameShown, SameScan
<1>11. Stands(m, "Drawing") /\ NoDelay(m)
  BY <1>1, <1>2, <1>7 DEF Stands, NoDelay, NoOamDelay, SameModes, SameDelays
<1>12. Looked(p, m)
  <2>1. SameSources(d, m)
    BY <1>2, <1>6, <1>7 DEF SameSources, SameBeam, SameRow, SameSelects, SameCompared,
                            SameModes, SameDelays
  <2>2. StatInterruptActive(m) <=> StatInterruptActive(d)
    BY <2>1, ActiveDepends
  <2>3. m.stat_interrupt_line = d.stat_interrupt_line /\ m.raised = d.raised
    BY <1>2, <1>7 DEF SameLine
  <2> QED
    BY <1>1, <2>2, <2>3 DEF Looked, LookedAt, SameVBlank
<1> QED
  BY <1>5, <1>8, <1>9, <1>10, <1>11, <1>12 DEF m

\* The dot that ends mode 3.
LEMMA FinishFields ==
  ASSUME NEW p \in Members
  PROVE  LET f == TickMode3(p, TRUE)
         IN /\ f \in Members /\ SameBeam(p, f) /\ SameSelects(p, f) /\ SameCompared(p, f)
            /\ f.ly = p.ly /\ f.first_frame_blank = p.first_frame_blank
            /\ f.oam_scan_index = p.oam_scan_index
            /\ f.accessed_oam_row = p.accessed_oam_row /\ f.drawn = 0 /\ f.blocked = {}
            /\ Stands(f, "HBlank") /\ NoOamDelay(f) /\ f.hblank_mode_interrupt_delay = 1
            /\ ~f.hblank_mode_interrupt_active /\ Looked(p, f)
<1> DEFINE d == SetMode(p, "HBlank")
           e == SetAccessBlocking(d, FALSE, FALSE)
           f == TickMode3(p, TRUE)
<1>1. /\ d \in Members /\ SameBeam(p, d) /\ SameSelects(p, d) /\ SameCompared(p, d)
      /\ SameShown(p, d) /\ SameScan(p, d) /\ Looked(p, d)
      /\ Stands(d, "HBlank") /\ NoOamDelay(d) /\ ~d.hblank_mode_interrupt_active
      /\ d.hblank_mode_interrupt_delay = 1
  BY SetModeFields
<1>2. /\ e \in Members /\ SameBeam(d, e) /\ SameSelects(d, e) /\ SameCompared(d, e)
      /\ SameModes(d, e) /\ SameDelays(d, e) /\ SameScan(d, e) /\ SameLine(d, e)
      /\ e.ly = d.ly /\ e.first_frame_blank = d.first_frame_blank /\ e.blocked = {}
  BY <1>1, BlockingFields
<1>3. f = [e EXCEPT !.drawn = 0]
  BY DEF TickMode3
<1>4. 0 \in Number
  BY DEF Number
<1> HIDE DEF d, e, f
<1>5. f \in Members
  BY <1>2, <1>3, <1>4 DEF Members
<1>6. SameBeam(e, f) /\ SameSelects(e, f) /\ SameCompared(e, f) /\ SameShown(e, f)
  BY <1>2, <1>3 DEF Members, SameBeam, SameRow, SameSelects, SameCompared, SameShown
<1>7. /\ SameModes(e, f) /\ SameDelays(e, f) /\ SameLine(e, f)
      /\ f.oam_scan_index = e.oam_scan_index
      /\ f.accessed_oam_row = e.accessed_oam_row /\ f.drawn = 0
  BY <1>2, <1>3 DEF Members, SameModes, SameDelays, SameLine
<1>8. SameBeam(p, f) /\ SameSelects(p, f) /\ SameCompared(p, f)
  BY <1>1, <1>2, <1>6 DEF SameBeam, SameRow, SameSelects, SameCompared
<1>9. /\ f.ly = p.ly /\ f.first_frame_blank = p.first_frame_blank /\ f.blocked = {}
      /\ f.oam_scan_index = p.oam_scan_index /\ f.accessed_oam_row = p.accessed_oam_row
  BY <1>1, <1>2, <1>6, <1>7 DEF SameShown, SameScan
<1>10. /\ Stands(f, "HBlank") /\ NoOamDelay(f) /\ f.hblank_mode_interrupt_delay = 1
       /\ ~f.hblank_mode_interrupt_active
  BY <1>1, <1>2, <1>7 DEF Stands, NoOamDelay, SameModes, SameDelays
<1>11. Looked(p, f)
  <2>1. SameSources(d, f)
    BY <1>2, <1>6, <1>7 DEF SameSources, SameBeam, SameRow, SameSelects, SameCompared,
                            SameModes, SameDelays
  <2>2. StatInterruptActive(f) <=> StatInterruptActive(d)
    BY <2>1, ActiveDepends
  <2>3. f.stat_interrupt_line = d.stat_interrupt_line /\ f.raised = d.raised
    BY <1>2, <1>7 DEF SameLine
  <2> QED
    BY <1>1, <2>2, <2>3 DEF Looked, LookedAt, SameVBlank
<1> QED
  BY <1>5, <1>7, <1>8, <1>9, <1>10, <1>11 DEF f

\* The line after this one, as EndLine begins it.
NextRow(p) ==
  [p EXCEPT !.dot_counter = 0, !.line_dot_limit = LineDots, !.startup_line = FALSE,
            !.scanline = (@ + 1) % Lines]

BeamAtNextRow(p, q) ==
  /\ q.on = p.on /\ q.dot_counter = 0 /\ q.line_dot_limit = LineDots /\ ~q.startup_line
  /\ q.scanline = (p.scanline + 1) % Lines

LEMMA NextRowFields ==
  ASSUME NEW p \in Members
  PROVE  LET r == NextRow(p)
         IN /\ r \in Members /\ BeamAtNextRow(p, r) /\ SameSelects(p, r)
            /\ SameCompared(p, r) /\ SameShown(p, r) /\ SameModes(p, r)
            /\ SameDelays(p, r) /\ SameScan(p, r) /\ SameLine(p, r)
<1> DEFINE row == (p.scanline + 1) % Lines
           r == NextRow(p)
<1>1. row \in Number /\ 0 \in Number /\ LineDots \in Number
  BY PpuAssumption DEF Members, Number
<1>2. r = [p EXCEPT !.dot_counter = 0, !.line_dot_limit = LineDots, !.startup_line = FALSE,
                    !.scanline = row]
  BY DEF NextRow
<1>3. row = (p.scanline + 1) % Lines
  OBVIOUS
<1> HIDE DEF row, r
<1>4. r \in Members
  BY <1>1, <1>2 DEF Members
<1>5. SameSelects(p, r) /\ SameCompared(p, r) /\ SameShown(p, r) /\ SameModes(p, r)
  BY <1>2 DEF Members, SameSelects, SameCompared, SameShown, SameModes
<1>6. SameDelays(p, r) /\ SameScan(p, r) /\ SameLine(p, r)
  BY <1>2 DEF Members, SameDelays, SameScan, SameLine
<1>7. BeamAtNextRow(p, r)
  BY <1>2, <1>3 DEF Members, BeamAtNextRow
<1> QED
  BY <1>4, <1>5, <1>6, <1>7 DEF r

LEMMA EndLineScan ==
  ASSUME NEW p \in Members, (p.scanline + 1) % Lines < Visible
  PROVE  LET e == EndLine(p)
         IN /\ e \in Members /\ BeamAtNextRow(p, e) /\ SameSelects(p, e)
            /\ SameCompared(p, e) /\ SameLine(p, e)
            /\ e.ly = p.ly /\ e.first_frame_blank = p.first_frame_blank /\ e.blocked = {}
            /\ e.mode = "OamScan" /\ e.pending_stat_mode = "OamScan"
            /\ e.stat_mode = p.stat_mode /\ e.stat_mode_delay = 4
            /\ e.oam_mode_interrupt_delay = (IF e.scanline = 0 THEN 4 ELSE 3)
            /\ ~e.oam_mode_interrupt_active
            /\ e.hblank_mode_interrupt_delay = 0 /\ ~e.hblank_mode_interrupt_active
            /\ e.oam_scan_index = 0 /\ e.accessed_oam_row = 0 /\ e.drawn = p.drawn
<1> DEFINE r == NextRow(p)
           s == SetMode(r, "OamScan")
           b == SetAccessBlocking(s, FALSE, FALSE)
           e == EndLine(p)
<1>1. /\ r \in Members /\ BeamAtNextRow(p, r) /\ SameSelects(p, r)
      /\ SameCompared(p, r) /\ SameShown(p, r) /\ SameModes(p, r)
      /\ SameDelays(p, r) /\ SameScan(p, r) /\ SameLine(p, r)
  BY NextRowFields
<1>2. e = BeginScanline(b)
  <2>1. r.scanline < Visible
    BY <1>1 DEF BeamAtNextRow
  <2> QED
    BY <2>1 DEF EndLine, NextRow
<1>3. e = [b EXCEPT !.oam_scan_index = 0, !.accessed_oam_row = 0]
  BY <1>2 DEF BeginScanline
<1>4. /\ s \in Members /\ SameBeam(r, s) /\ SameSelects(r, s) /\ SameCompared(r, s)
      /\ SameShown(r, s) /\ SameScan(r, s) /\ SameLine(r, s)
      /\ s.mode = "OamScan" /\ s.pending_stat_mode = "OamScan"
      /\ s.stat_mode = r.stat_mode /\ s.stat_mode_delay = 4
      /\ s.oam_mode_interrupt_delay = (IF r.scanline = 0 THEN 4 ELSE 3)
      /\ ~s.oam_mode_interrupt_active
      /\ s.hblank_mode_interrupt_delay = 0 /\ ~s.hblank_mode_interrupt_active
  BY <1>1, SetScanFields
<1>5. /\ b \in Members /\ SameBeam(s, b) /\ SameSelects(s, b) /\ SameCompared(s, b)
      /\ SameModes(s, b) /\ SameDelays(s, b) /\ SameScan(s, b) /\ SameLine(s, b)
      /\ b.ly = s.ly /\ b.first_frame_blank = s.first_frame_blank /\ b.blocked = {}
  BY <1>4, BlockingFields
<1>6. 0 \in Number
  BY DEF Number
<1> HIDE DEF r, s, b, e
<1>7. e \in Members
  BY <1>3, <1>5, <1>6 DEF Members
<1>8. SameBeam(b, e) /\ SameSelects(b, e) /\ SameCompared(b, e) /\ SameShown(b, e)
  BY <1>3, <1>5 DEF Members, SameBeam, SameRow, SameSelects, SameCompared, SameShown
<1>9. /\ SameModes(b, e) /\ SameDelays(b, e) /\ SameLine(b, e)
      /\ e.oam_scan_index = 0 /\ e.accessed_oam_row = 0 /\ e.drawn = b.drawn
  BY <1>3, <1>5 DEF Members, SameModes, SameDelays, SameLine
<1>10. BeamAtNextRow(p, e) /\ e.scanline = r.scanline
  BY <1>1, <1>4, <1>5, <1>8 DEF BeamAtNextRow, SameBeam, SameRow
<1>11. SameSelects(p, e) /\ SameCompared(p, e) /\ SameLine(p, e)
  BY <1>1, <1>4, <1>5, <1>8, <1>9 DEF SameSelects, SameCompared, SameLine
<1>12. /\ e.ly = p.ly /\ e.first_frame_blank = p.first_frame_blank /\ e.blocked = {}
       /\ e.drawn = p.drawn
  BY <1>1, <1>4, <1>5, <1>8, <1>9 DEF SameShown, SameScan
<1>13. /\ e.mode = "OamScan" /\ e.pending_stat_mode = "OamScan"
       /\ e.stat_mode = p.stat_mode /\ e.stat_mode_delay = 4
       /\ e.oam_mode_interrupt_delay = (IF e.scanline = 0 THEN 4 ELSE 3)
       /\ ~e.oam_mode_interrupt_active
       /\ e.hblank_mode_interrupt_delay = 0 /\ ~e.hblank_mode_interrupt_active
  BY <1>1, <1>4, <1>5, <1>9, <1>10 DEF SameModes, SameDelays
<1> QED
  BY <1>7, <1>9, <1>10, <1>11, <1>12, <1>13 DEF e

LEMMA EndLineBlank ==
  ASSUME NEW p \in Members, ~((p.scanline + 1) % Lines < Visible)
  PROVE  LET e == EndLine(p)
         IN /\ e \in Members /\ BeamAtNextRow(p, e) /\ SameSelects(p, e)
            /\ e.ly_for_comparison = -1 /\ e.coincidence_flag = (-1 = p.lyc)
            /\ e.ly = p.ly /\ e.first_frame_blank = p.first_frame_blank /\ e.blocked = {}
            /\ SameModes(p, e) /\ SameDelays(p, e) /\ SameScan(p, e) /\ Looked(p, e)
<1> DEFINE r == NextRow(p)
           b == SetAccessBlocking(r, FALSE, FALSE)
           e == EndLine(p)
<1>1. /\ r \in Members /\ BeamAtNextRow(p, r) /\ SameSelects(p, r)
      /\ SameCompared(p, r) /\ SameShown(p, r) /\ SameModes(p, r)
      /\ SameDelays(p, r) /\ SameScan(p, r) /\ SameLine(p, r)
  BY NextRowFields
<1>2. e = SetLyForComparison(b, -1)
  <2>1. ~(r.scanline < Visible)
    BY <1>1 DEF BeamAtNextRow
  <2> QED
    BY <2>1 DEF EndLine, NextRow
<1>3. /\ b \in Members /\ SameBeam(r, b) /\ SameSelects(r, b) /\ SameCompared(r, b)
      /\ SameModes(r, b) /\ SameDelays(r, b) /\ SameScan(r, b) /\ SameLine(r, b)
      /\ b.ly = r.ly /\ b.first_frame_blank = r.first_frame_blank /\ b.blocked = {}
  BY <1>1, BlockingFields
<1>4. -1 \in Number
  BY DEF Number
<1> HIDE DEF r, b, e
<1>5. /\ e \in Members /\ SameBeam(b, e) /\ SameSelects(b, e) /\ SameShown(b, e)
      /\ SameModes(b, e) /\ SameDelays(b, e) /\ SameScan(b, e) /\ Looked(b, e)
      /\ e.ly_for_comparison = -1 /\ e.coincidence_flag = (-1 = b.lyc)
  BY <1>2, <1>3, <1>4, SetLyFields
<1>6. BeamAtNextRow(p, e) /\ SameSelects(p, e) /\ b.lyc = p.lyc
  BY <1>1, <1>3, <1>5 DEF BeamAtNextRow, SameBeam, SameRow, SameSelects
<1>7. /\ e.ly = p.ly /\ e.first_frame_blank = p.first_frame_blank /\ e.blocked = {}
  BY <1>1, <1>3, <1>5 DEF SameShown
<1>8. SameModes(p, e) /\ SameDelays(p, e) /\ SameScan(p, e)
  BY <1>1, <1>3, <1>5 DEF SameModes, SameDelays, SameScan
<1>9. Looked(p, e)
  BY <1>1, <1>3, <1>5 DEF Looked, LookedAt, SameVBlank, SameLine
<1> QED
  BY <1>5, <1>6, <1>7, <1>8, <1>9 DEF e

-----------------------------------------------------------------------------
(* One dot, place by place.  A write of STAT that took effect at its start is *)
(* dealt with before, in StatWritten.                                         *)

\* The dot after UpdateStatWrite.
TickOn(a, finished) ==
  LET ticked == TickMode(TickDelays(TickLine(NextDot(a))), finished) IN
  IF ticked.dot_counter < ticked.line_dot_limit THEN ticked ELSE EndLine(ticked)

LEMMA TickSplits ==
  ASSUME NEW p, NEW finished
  PROVE  TickDot(p, finished) = TickOn(UpdateStatWrite(p), finished)
BY DEF TickDot, TickOn, NextDot

\* A dot in the same line.
Advances(a, q) ==
  /\ SameRow(a, q) /\ q.dot_counter = a.dot_counter + 1
  /\ q.dot_counter < q.line_dot_limit

Faithful(p) == p.coincidence_flag = (p.ly_for_comparison = p.lyc)

SameLevel(a, q) == LevelOf(q) <=> LevelOf(a)

\* The level needs the dot in the first line only, and there no more than this.
LEMMA LevelDepends ==
  ASSUME NEW a, NEW q, q.stat = a.stat, q.coincidence_flag = a.coincidence_flag,
         q.mode = a.mode, q.stat_mode = a.stat_mode, q.scanline = a.scanline,
         q.oam_mode_interrupt_active = a.oam_mode_interrupt_active,
         q.hblank_mode_interrupt_active = a.hblank_mode_interrupt_active,
         q.startup_line = a.startup_line,
         a.startup_line => (q.dot_counter >= ScanEnd - 4 <=> a.dot_counter >= ScanEnd - 4)
  PROVE  SameLevel(a, q)
<1>1. ASSUME NEW source
      PROVE  High(q, source) <=> High(a, source)
  BY DEF High
<1> QED
  BY <1>1 DEF LevelOf, SameLevel

\* Mode 3: a dot draws, or ends the mode and with it the access blocking.
LEMMA DrawingDot ==
  ASSUME NEW a \in Members, InDraw(a), Faithful(a), NEW finished \in BOOLEAN,
         finished => a.drawn + 1 >= DrawMin, a.drawn + 1 >= DrawMax => finished
  PROVE  LET q == TickOn(a, finished)
         IN /\ q \in Members /\ Advances(a, q) /\ SameSelects(a, q) /\ Faithful(q)
            /\ q.first_frame_blank = a.first_frame_blank /\ SameVBlank(a, q)
            /\ finished => InHBlank(q) /\ Looked(a, q)
            /\ ~finished => InDraw(q) /\ SameLine(a, q) /\ SameLevel(a, q)
<1> DEFINE b == NextDot(a)
           d == TickDelays(b)
           t == TickMode3(d, finished)
           q == TickOn(a, finished)
<1>1. /\ b \in Members /\ SameRow(a, b) /\ SameSelects(a, b) /\ SameCompared(a, b)
      /\ SameShown(a, b) /\ SameModes(a, b) /\ SameDelays(a, b) /\ SameScan(a, b)
      /\ SameLine(a, b) /\ b.dot_counter = a.dot_counter + 1
  BY NextDotFields
<1>2. b.mode = "Drawing" /\ NoOamDelay(b) /\ b.hblank_mode_interrupt_delay = 0
  BY <1>1 DEF InDraw, Stands, NoDelay, NoOamDelay, SameModes, SameDelays
<1>3. TickLine(b) = b
  BY <1>2 DEF TickLine
<1>4. /\ d \in Members /\ SameBeam(b, d) /\ SameSelects(b, d) /\ SameCompared(b, d)
      /\ SameShown(b, d) /\ SameModes(b, d) /\ SameDelays(b, d) /\ SameScan(b, d)
      /\ SameLine(b, d)
  BY <1>1, <1>2, DelaysIdle
<1>5. TickMode(d, finished) = t
  BY <1>2, <1>4 DEF TickMode, SameModes
<1>5a. t = TickMode3(d, finished)
  OBVIOUS
<1> HIDE DEF b, d, t
<1>6. /\ SameRow(a, d) /\ d.dot_counter = a.dot_counter + 1 /\ SameSelects(a, d)
      /\ SameCompared(a, d)
  BY <1>1, <1>4 DEF SameBeam, SameRow, SameSelects, SameCompared
<1>7. /\ SameShown(a, d) /\ SameModes(a, d) /\ SameDelays(a, d) /\ SameScan(a, d)
      /\ SameLine(a, d)
  BY <1>1, <1>4 DEF SameShown, SameModes, SameDelays, SameScan, SameLine
<1>8. /\ a.drawn \in Int /\ 0 <= a.drawn /\ a.drawn < DrawMax
      /\ a.dot_counter = DrawFrom(a) + a.drawn /\ a.dot_counter \in Int
      /\ a.line_dot_limit = (IF a.startup_line THEN LineDots - 6 ELSE LineDots)
  BY DEF InDraw, InDrawnLine, Members, Number
<1>9. /\ DrawMin \in Int /\ DrawMax \in Int /\ LineDots \in Int /\ ScanEnd \in Int
      /\ ScanEnd + DrawMax < LineDots - 3 /\ DrawMin >= 1
  BY PpuAssumption DEF ScanEnd
<1>10. /\ DrawFrom(d) = DrawFrom(a) /\ DrawFrom(a) \in Int
       /\ DrawFrom(a) + DrawMax + 1 < a.line_dot_limit
  BY <1>6, <1>8, <1>9 DEF DrawFrom, SameRow
<1>11. d.dot_counter < d.line_dot_limit
  BY <1>6, <1>8, <1>9, <1>10 DEF SameRow
<1>12. InDrawnLine(a) /\ a.ly = a.scanline /\ a.ly_for_comparison = a.scanline /\ NoScan(a)
  BY DEF InDraw
<1>13. CASE finished
  <2>1. t = TickMode3(d, TRUE)
    <3>1. finished = TRUE
      BY <1>13
    <3> QED
      BY <1>5a, <3>1
  <2>2. /\ t \in Members /\ SameBeam(d, t) /\ SameSelects(d, t) /\ SameCompared(d, t)
        /\ t.ly = d.ly /\ t.first_frame_blank = d.first_frame_blank
        /\ t.oam_scan_index = d.oam_scan_index
        /\ t.accessed_oam_row = d.accessed_oam_row /\ t.drawn = 0 /\ t.blocked = {}
        /\ Stands(t, "HBlank") /\ NoOamDelay(t) /\ t.hblank_mode_interrupt_delay = 1
        /\ ~t.hblank_mode_interrupt_active /\ Looked(d, t)
    BY <1>4, <2>1, FinishFields
  <2>3. q = t
    BY <1>3, <1>5, <1>11, <2>2 DEF TickOn, b, d, t, SameBeam, SameRow
  <2> HIDE DEF q
  <2>4. Advances(a, q) /\ SameSelects(a, q) /\ SameCompared(a, q)
    BY <1>6, <1>11, <2>2, <2>3 DEF Advances, SameBeam, SameRow, SameSelects, SameCompared
  <2>5. Looked(a, q) /\ SameVBlank(a, q)
    BY <1>7, <2>2, <2>3 DEF Looked, LookedAt, SameVBlank, SameLine
  <2>6. Faithful(q) /\ q.first_frame_blank = a.first_frame_blank
    BY <1>7, <2>2, <2>3, <2>4 DEF Faithful, SameCompared, SameSelects, SameShown
  <2>7. InDrawnLine(q) /\ q.ly = q.scanline /\ q.ly_for_comparison = q.scanline
    BY <1>7, <1>12, <2>2, <2>3, <2>4
       DEF InDrawnLine, Advances, SameRow, SameCompared, SameShown
  <2>8. NoScan(q)
    BY <1>7, <1>12, <2>2, <2>3 DEF NoScan, SameScan
  <2>9. DrawFrom(q) = DrawFrom(a)
    BY <2>4 DEF DrawFrom, Advances, SameRow
  <2>10. a.drawn + 1 >= DrawMin
    BY <1>13
  <2>11. /\ DrawFrom(q) + DrawMin <= q.dot_counter /\ q.dot_counter < q.line_dot_limit
         /\ q.dot_counter + 1 < q.line_dot_limit
    BY <1>8, <1>9, <1>10, <2>4, <2>9, <2>10 DEF Advances, SameRow
  <2>12. q.hblank_mode_interrupt_active = (q.hblank_mode_interrupt_delay = 0)
    <3>1. q.hblank_mode_interrupt_active = FALSE
      BY <2>2, <2>3 DEF Members
    <3>2. (q.hblank_mode_interrupt_delay = 0) = FALSE
      BY <2>2, <2>3
    <3> QED
      BY <3>1, <3>2
  <2>13. InHBlank(q)
    BY <2>2, <2>3, <2>7, <2>8, <2>11, <2>12 DEF InHBlank
  <2> QED
    BY <1>13, <2>2, <2>3, <2>4, <2>5, <2>6, <2>13 DEF q
<1>14. CASE ~finished
  <2> DEFINE drawn == d.drawn + 1
  <2>1. t = [d EXCEPT !.drawn = drawn]
    BY <1>5a, <1>14 DEF TickMode3
  <2>2. drawn \in Number /\ drawn = a.drawn + 1
    BY <1>7, <1>8 DEF Number, SameScan
  <2> HIDE DEF drawn
  <2>3. t \in Members
    BY <1>4, <2>1, <2>2 DEF Members
  <2>4. /\ SameBeam(d, t) /\ SameSelects(d, t) /\ SameCompared(d, t) /\ SameShown(d, t)
        /\ SameModes(d, t) /\ SameDelays(d, t) /\ SameLine(d, t)
    BY <1>4, <2>1 DEF Members, SameBeam, SameRow, SameSelects, SameCompared, SameShown,
                      SameModes, SameDelays, SameLine
  <2>5. /\ t.drawn = drawn /\ t.oam_scan_index = d.oam_scan_index
        /\ t.accessed_oam_row = d.accessed_oam_row
    BY <1>4, <2>1 DEF Members
  <2>6. q = t
    BY <1>3, <1>5, <1>11, <2>4 DEF TickOn, b, d, t, SameBeam, SameRow
  <2> HIDE DEF q
  <2>7. Advances(a, q) /\ SameSelects(a, q) /\ SameCompared(a, q)
    BY <1>6, <1>11, <2>4, <2>6 DEF Advances, SameBeam, SameRow, SameSelects, SameCompared
  <2>8. SameShown(a, q) /\ SameModes(a, q) /\ SameDelays(a, q) /\ SameLine(a, q)
    BY <1>7, <2>4, <2>6 DEF SameShown, SameModes, SameDelays, SameLine
  <2>9. Faithful(q) /\ q.first_frame_blank = a.first_frame_blank /\ SameVBlank(a, q)
    BY <2>7, <2>8
       DEF Faithful, SameCompared, SameSelects, SameShown, SameVBlank, SameLine
  <2>10. InDrawnLine(q) /\ q.ly = q.scanline /\ q.ly_for_comparison = q.scanline
    BY <1>12, <2>7, <2>8 DEF InDrawnLine, Advances, SameRow, SameCompared, SameShown
  <2>11. NoScan(q)
    BY <1>7, <1>12, <2>5, <2>6 DEF NoScan, SameScan
  <2>12. DrawFrom(q) = DrawFrom(a)
    BY <2>7 DEF DrawFrom, Advances, SameRow
  <2>13. 0 <= q.drawn /\ q.drawn < DrawMax /\ q.dot_counter = DrawFrom(q) + q.drawn
    BY <1>8, <1>9, <1>10, <1>14, <2>2, <2>5, <2>6, <2>7, <2>12 DEF Advances
  <2>14. Stands(q, "Drawing") /\ NoDelay(q) /\ q.blocked = Ports
    BY <2>8 DEF InDraw, Stands, NoDelay, NoOamDelay, SameShown, SameModes, SameDelays
  <2>15. InDraw(q)
    BY <2>10, <2>11, <2>13, <2>14 DEF InDraw
  <2>16. q.dot_counter >= ScanEnd - 4 /\ a.dot_counter >= ScanEnd - 4
    BY <1>8, <1>9, <2>7 DEF Advances, DrawFrom
  <2>17. SameLevel(a, q)
    BY <2>7, <2>8, <2>16, LevelDepends
       DEF Advances, SameRow, SameSelects, SameCompared, SameModes, SameDelays
  <2> QED
    BY <1>14, <2>3, <2>6, <2>7, <2>8, <2>9, <2>15, <2>17 DEF q
<1> QED
  BY <1>13, <1>14

LEMMA RowNumber ==
  ASSUME NEW row \in Int, 0 <= row, row < Lines
  PROVE  (row + 1) % Lines = (IF row + 1 = Lines THEN 0 ELSE row + 1)
<1>1. Lines \in Int /\ Lines > 0
  BY PpuAssumption
<1>2. CASE row + 1 = Lines
  <2>1. (row + 1) % Lines = 0
    BY <1>1, <1>2
  <2> QED
    BY <1>2, <2>1
<1>3. CASE row + 1 # Lines
  <2>1. (row + 1) % Lines = row + 1
    BY <1>1, <1>3
  <2> QED
    BY <1>3, <2>1
<1> QED
  BY <1>2, <1>3

\* A line that is scanned begins by hiding its sources, it raises none.
LEMMA LevelAtScan ==
  ASSUME NEW a, NEW q, q.stat = a.stat, q.coincidence_flag = a.coincidence_flag,
         q.stat_mode = a.stat_mode, q.scanline # Visible,
         ~q.oam_mode_interrupt_active, ~q.hblank_mode_interrupt_active
  PROVE  LevelOf(q) => LevelOf(a)
<1>1. ASSUME NEW source, High(q, source)
      PROVE  High(a, source)
  BY <1>1 DEF High
<1> QED
  BY <1>1 DEF LevelOf

\* The first state of a scanned line.
ScanBegins(q) ==
  /\ q.on /\ q.dot_counter = 0 /\ q.line_dot_limit = LineDots /\ ~q.startup_line
  /\ 0 <= q.scanline /\ q.scanline < Visible /\ q.drawn = 0 /\ q.blocked = {}
  /\ q.mode = "OamScan" /\ q.pending_stat_mode = "OamScan" /\ q.stat_mode_delay = 4
  /\ q.oam_mode_interrupt_delay = (IF q.scanline = 0 THEN 4 ELSE 3)
  /\ ~q.oam_mode_interrupt_active
  /\ q.hblank_mode_interrupt_delay = 0 /\ ~q.hblank_mode_interrupt_active
  /\ q.oam_scan_index = 0 /\ q.accessed_oam_row = 0
  /\ q.scanline = 0 => q.stat_mode = "VBlank" /\ q.ly = 0 /\ q.ly_for_comparison = 0
  /\ q.scanline # 0 => /\ q.stat_mode = "HBlank" /\ q.ly = q.scanline - 1
                       /\ q.ly_for_comparison = q.scanline - 1

LEMMA ScanBegun ==
  ASSUME NEW q \in Members, ScanBegins(q)
  PROVE  InScan(q) /\ Unseen(q) /\ q.dot_counter < q.line_dot_limit
<1>1. ScanEnd \in Int /\ ScanEnd >= 12 /\ LineDots \in Int /\ LineDots > ScanEnd
  BY PpuAssumption DEF ScanEnd
<1>2. q.dot_counter = 0 /\ q.scanline \in Int
  BY DEF ScanBegins, Members, Number
<1>3. InDrawnLine(q)
  BY DEF ScanBegins, InDrawnLine
<1>4. /\ q.ly = (IF q.dot_counter < 3 /\ q.scanline > 0 THEN q.scanline - 1 ELSE q.scanline)
      /\ q.ly_for_comparison =
           (IF q.scanline = 0 THEN 0
            ELSE IF q.dot_counter < 3 THEN q.scanline - 1
            ELSE IF q.dot_counter = 3 THEN -1 ELSE q.scanline)
  BY <1>2 DEF ScanBegins
<1>5. q.stat_mode = (IF q.dot_counter >= 4 THEN "OamScan"
                     ELSE IF q.scanline = 0 /\ q.dot_counter < 3 THEN "VBlank" ELSE "HBlank")
  BY <1>2 DEF ScanBegins
<1>6. q.stat_mode_delay = (IF q.dot_counter < 4 THEN 4 - q.dot_counter ELSE 0)
  BY <1>2 DEF ScanBegins
<1>7. LET early == IF q.scanline = 0 THEN 4 ELSE 3 IN
      /\ q.oam_mode_interrupt_delay = (IF q.dot_counter < early THEN early - q.dot_counter ELSE 0)
      /\ q.oam_mode_interrupt_active = (q.dot_counter >= early)
  <2> DEFINE early == IF q.scanline = 0 THEN 4 ELSE 3
  <2>1. q.oam_mode_interrupt_active = FALSE
    BY DEF ScanBegins, Members
  <2>2. (q.dot_counter >= early) = FALSE
    BY <1>2
  <2>3. q.oam_mode_interrupt_delay
          = (IF q.dot_counter < early THEN early - q.dot_counter ELSE 0)
    BY <1>2 DEF ScanBegins
  <2> QED
    BY <2>1, <2>2, <2>3
<1>8. q.blocked = (IF q.dot_counter >= 3 THEN {"oam_read"} ELSE {})
                    \union (IF 4 <= q.dot_counter /\ q.dot_counter < ScanEnd - 4
                            THEN {"oam_write"} ELSE {})
                    \union (IF q.dot_counter >= ScanEnd - 4 THEN {"vram_read"} ELSE {})
  BY <1>1, <1>2 DEF ScanBegins
<1>9. /\ q.oam_scan_index = (IF q.dot_counter < 6 THEN 0 ELSE (q.dot_counter - 4) \div 2)
      /\ q.accessed_oam_row =
           (IF q.dot_counter < 6 THEN 0 ELSE ((q.dot_counter - 6) \div 4) + 1)
  BY <1>2 DEF ScanBegins
<1>10. InScan(q)
  BY <1>1, <1>2, <1>3, <1>4, <1>5, <1>6, <1>7, <1>8, <1>9 DEF ScanBegins, InScan
<1> QED
  BY <1>1, <1>2, <1>10 DEF ScanBegins, Unseen

\* Mode 0 of a drawn line: its interrupt comes a dot late, and the line ends.
LEMMA HBlankDot ==
  ASSUME NEW a \in Members, InHBlank(a), Faithful(a), NEW finished
  PROVE  LET q == TickOn(a, finished)
         IN /\ q \in Members /\ SameSelects(a, q) /\ Faithful(q)
            /\ q.first_frame_blank = a.first_frame_blank /\ SameVBlank(a, q)
            /\ a.dot_counter + 1 < a.line_dot_limit
                 => /\ Advances(a, q) /\ InHBlank(q)
                    /\ Looked(a, q) \/ (SameLine(a, q) /\ SameLevel(a, q))
            /\ ~(a.dot_counter + 1 < a.line_dot_limit)
                 => /\ BeamAtNextRow(a, q) /\ a.dot_counter + 1 = a.line_dot_limit
                    /\ \/ /\ InScan(q) /\ Unseen(q) /\ SameLine(a, q)
                          /\ LevelOf(q) => LevelOf(a)
                       \/ BeforeVBlank(q) /\ Looked(a, q)
<1> DEFINE b == NextDot(a)
           d == TickDelays(b)
           q == TickOn(a, finished)
<1>1. /\ b \in Members /\ SameRow(a, b) /\ SameSelects(a, b) /\ SameCompared(a, b)
      /\ SameShown(a, b) /\ SameModes(a, b) /\ SameDelays(a, b) /\ SameScan(a, b)
      /\ SameLine(a, b) /\ b.dot_counter = a.dot_counter + 1
  BY NextDotFields
<1>2. /\ a.mode = "HBlank" /\ a.stat_mode = "HBlank" /\ a.pending_stat_mode = "HBlank"
      /\ a.stat_mode_delay = 0 /\ a.oam_mode_interrupt_delay = 0
      /\ ~a.oam_mode_interrupt_active /\ a.hblank_mode_interrupt_delay \in 0 .. 1
      /\ a.hblank_mode_interrupt_active = (a.hblank_mode_interrupt_delay = 0)
      /\ a.hblank_mode_interrupt_delay = 1 => a.dot_counter + 1 < a.line_dot_limit
  BY DEF InHBlank, Stands, NoOamDelay
<1>3. /\ a.scanline \in Int /\ a.dot_counter \in Int /\ a.line_dot_limit \in Int
      /\ 0 <= a.scanline /\ a.scanline < Visible
      /\ DrawFrom(a) + DrawMin <= a.dot_counter /\ a.dot_counter < a.line_dot_limit
      /\ a.line_dot_limit = (IF a.startup_line THEN LineDots - 6 ELSE LineDots)
      /\ a.on /\ a.blocked = {} /\ a.drawn = 0 /\ NoScan(a) /\ InDrawnLine(a)
      /\ a.ly = a.scanline /\ a.ly_for_comparison = a.scanline
  BY DEF InHBlank, InDrawnLine, Members, Number
<1>4. /\ DrawMin \in Int /\ DrawMin >= 1 /\ ScanEnd \in Int /\ LineDots \in Int
      /\ Visible \in Int /\ Lines \in Int /\ Visible >= 2 /\ Lines >= Visible + 2
  BY PpuAssumption DEF ScanEnd
<1>5. TickLine(b) = b
  BY <1>1, <1>2, <1>3, <1>4 DEF TickLine, SameModes, SameRow
<1>6. StatChanged(b) <=> a.hblank_mode_interrupt_delay = 1
  BY <1>1, <1>2 DEF StatChanged, SameDelays, SameModes
<1>7. /\ d \in Members /\ SameBeam(b, d) /\ SameSelects(b, d) /\ SameCompared(b, d)
      /\ SameShown(b, d) /\ SameScan(b, d)
      /\ d.mode = b.mode /\ d.pending_stat_mode = b.pending_stat_mode
      /\ d.stat_mode = (IF b.stat_mode_delay = 1 THEN b.pending_stat_mode ELSE b.stat_mode)
      /\ d.stat_mode_delay = Less(b.stat_mode_delay)
      /\ d.oam_mode_interrupt_delay = Less(b.oam_mode_interrupt_delay)
      /\ d.hblank_mode_interrupt_delay = Less(b.hblank_mode_interrupt_delay)
      /\ d.oam_mode_interrupt_active
           <=> b.oam_mode_interrupt_active \/ b.oam_mode_interrupt_delay = 1
      /\ d.hblank_mode_interrupt_active
           <=> b.hblank_mode_interrupt_active \/ b.hblank_mode_interrupt_delay = 1
      /\ StatChanged(b) => Looked(b, d)
      /\ ~StatChanged(b) => SameLine(b, d)
  BY <1>1, DelaysFields
<1> HIDE DEF b, d
<1>8. /\ SameRow(a, d) /\ d.dot_counter = a.dot_counter + 1 /\ SameSelects(a, d)
      /\ SameCompared(a, d) /\ SameShown(a, d) /\ SameScan(a, d)
  BY <1>1, <1>7 DEF SameBeam, SameRow, SameSelects, SameCompared, SameShown, SameScan
<1>9. Stands(d, "HBlank") /\ d.stat_mode = a.stat_mode
  BY <1>1, <1>2, <1>7 DEF Stands, SameModes, SameDelays
<1>10. /\ NoOamDelay(d) /\ d.hblank_mode_interrupt_delay = 0 /\ d.hblank_mode_interrupt_active
  <2>1. /\ d.stat_mode_delay = 0 /\ d.oam_mode_interrupt_delay = 0
        /\ d.hblank_mode_interrupt_delay = 0
    BY <1>1, <1>2, <1>7 DEF SameDelays, Less
  <2>2. ~d.oam_mode_interrupt_active
    BY <1>1, <1>2, <1>7 DEF SameDelays
  <2>3. d.hblank_mode_interrupt_active
    <3>1. CASE a.hblank_mode_interrupt_delay = 1
      BY <1>1, <1>7, <3>1 DEF SameDelays
    <3>2. CASE a.hblank_mode_interrupt_delay = 0
      BY <1>1, <1>2, <1>7, <3>2 DEF SameDelays
    <3> QED
      BY <1>2, <3>1, <3>2
  <2> QED
    BY <2>1, <2>2, <2>3 DEF NoOamDelay
<1>11. /\ a.hblank_mode_interrupt_delay = 1 => Looked(a, d)
       /\ a.hblank_mode_interrupt_delay # 1 => SameLine(a, d)
  BY <1>1, <1>6, <1>7 DEF Looked, LookedAt, SameVBlank, SameLine
<1>12. TickMode(d, finished) = d
  <2>1. d.mode = "HBlank"
    BY <1>9 DEF Stands
  <2>2. d.startup_line => d.dot_counter > ScanEnd - 4
    BY <1>3, <1>4, <1>8 DEF DrawFrom, SameRow
  <2>3. d.dot_counter \in Int
    BY <1>3, <1>8
  <2>4. d.startup_line => d.dot_counter # ScanEnd - 6 /\ d.dot_counter # ScanEnd - 4
    BY <1>4, <2>2, <2>3
  <2> QED
    BY <2>1, <2>4 DEF TickMode
<1>13. q = IF d.dot_counter < d.line_dot_limit THEN d ELSE EndLine(d)
  BY <1>5, <1>12 DEF TickOn, b, d
<1>14. Faithful(d)
  BY <1>8 DEF Faithful, SameCompared, SameSelects
<1>15. CASE a.dot_counter + 1 < a.line_dot_limit
  <2>1. q = d
    BY <1>8, <1>13, <1>15 DEF SameRow
  <2> HIDE DEF q
  <2>2. Advances(a, q)
    BY <1>8, <1>15, <2>1 DEF Advances, SameRow
  <2>3. DrawFrom(q) + DrawMin <= q.dot_counter /\ q.dot_counter < q.line_dot_limit
    <3>1. DrawFrom(q) = DrawFrom(a)
      BY <2>2 DEF DrawFrom, Advances, SameRow
    <3>2. DrawFrom(a) \in Int
      BY <1>4 DEF DrawFrom
    <3> QED
      BY <1>3, <1>4, <1>8, <1>15, <2>1, <3>1, <3>2 DEF SameRow
  <2>4. InDrawnLine(q) /\ q.ly = q.scanline /\ q.ly_for_comparison = q.scanline
    BY <1>3, <1>8, <2>1, <2>2 DEF InDrawnLine, SameRow, Advances, SameCompared, SameShown
  <2>5. NoScan(q) /\ q.blocked = {} /\ q.drawn = 0
    BY <1>3, <1>8, <2>1 DEF NoScan, SameScan, SameShown
  <2>6. q.hblank_mode_interrupt_active = (q.hblank_mode_interrupt_delay = 0)
    <3>1. q.hblank_mode_interrupt_active = TRUE
      BY <1>7, <1>10, <2>1 DEF Members
    <3>2. (q.hblank_mode_interrupt_delay = 0) = TRUE
      BY <1>10, <2>1
    <3> QED
      BY <3>1, <3>2
  <2>7. InHBlank(q)
    BY <1>9, <1>10, <2>1, <2>3, <2>4, <2>5, <2>6 DEF InHBlank
  <2>8. CASE a.hblank_mode_interrupt_delay = 1
    <3>1. Looked(a, q) /\ SameVBlank(a, q)
      BY <1>11, <2>1, <2>8 DEF Looked
    <3> QED
      BY <1>7, <1>8, <1>14, <1>15, <2>1, <2>2, <2>7, <3>1 DEF q, SameShown
  <2>9. CASE a.hblank_mode_interrupt_delay # 1
    <3>1. SameLine(a, q) /\ SameVBlank(a, q)
      BY <1>11, <2>1, <2>9 DEF SameLine, SameVBlank
    <3>2. a.hblank_mode_interrupt_active /\ q.hblank_mode_interrupt_active
      <4>1. a.hblank_mode_interrupt_delay = 0
        BY <1>2, <2>9
      <4> QED
        BY <1>2, <1>10, <2>1, <4>1
    <3>3. a.hblank_mode_interrupt_active = q.hblank_mode_interrupt_active
      BY <1>7, <2>1, <3>2 DEF Members
    <3>4. a.oam_mode_interrupt_active = q.oam_mode_interrupt_active
      BY <1>2, <1>7, <1>10, <2>1 DEF Members, NoOamDelay
    <3>5. q.startup_line => q.dot_counter >= ScanEnd - 4 /\ a.dot_counter >= ScanEnd - 4
      BY <1>3, <1>4, <1>8, <2>1 DEF DrawFrom, SameRow
    <3>6. q.mode = a.mode /\ q.stat_mode = a.stat_mode
      BY <1>2, <1>9, <2>1 DEF Stands
    <3>7. SameLevel(a, q)
      BY <1>8, <2>1, <3>3, <3>4, <3>5, <3>6, LevelDepends
         DEF SameRow, SameSelects, SameCompared
    <3> QED
      BY <1>7, <1>8, <1>14, <1>15, <2>1, <2>2, <2>7, <3>1, <3>7 DEF q, SameShown
  <2> QED
    BY <2>8, <2>9
<1>16. CASE ~(a.dot_counter + 1 < a.line_dot_limit)
  <2>1. q = EndLine(d)
    BY <1>8, <1>13, <1>16 DEF SameRow
  <2>2. a.dot_counter + 1 = a.line_dot_limit /\ a.hblank_mode_interrupt_delay = 0
    BY <1>2, <1>3, <1>16
  <2>3. SameLine(a, d)
    BY <1>11, <2>2
  <2>4. (d.scanline + 1) % Lines = a.scanline + 1
    BY <1>3, <1>4, <1>8, RowNumber DEF SameRow
  <2>5. CASE a.scanline + 1 < Visible
    <3>1. /\ q \in Members /\ BeamAtNextRow(d, q) /\ SameSelects(d, q)
          /\ SameCompared(d, q) /\ SameLine(d, q)
          /\ q.ly = d.ly /\ q.first_frame_blank = d.first_frame_blank /\ q.blocked = {}
          /\ q.mode = "OamScan" /\ q.pending_stat_mode = "OamScan"
          /\ q.stat_mode = d.stat_mode /\ q.stat_mode_delay = 4
          /\ q.oam_mode_interrupt_delay = (IF q.scanline = 0 THEN 4 ELSE 3)
          /\ ~q.oam_mode_interrupt_active
          /\ q.hblank_mode_interrupt_delay = 0 /\ ~q.hblank_mode_interrupt_active
          /\ q.oam_scan_index = 0 /\ q.accessed_oam_row = 0 /\ q.drawn = d.drawn
      BY <1>7, <2>1, <2>4, <2>5, EndLineScan
    <3> HIDE DEF q
    <3>2. BeamAtNextRow(a, q) /\ SameSelects(a, q) /\ SameCompared(a, q)
      BY <1>8, <3>1 DEF BeamAtNextRow, SameRow, SameSelects, SameCompared
    <3>3. q.scanline = a.scanline + 1 /\ q.scanline > 0 /\ q.scanline < Visible
      BY <1>3, <1>4, <2>4, <2>5, <3>1 DEF BeamAtNextRow
    <3>4. /\ q.ly = a.scanline /\ q.ly_for_comparison = a.scanline /\ q.drawn = 0
          /\ q.first_frame_blank = a.first_frame_blank
      BY <1>3, <1>8, <3>1, <3>2 DEF SameShown, SameCompared, SameScan
    <3>5. q.stat_mode = "HBlank"
      BY <1>2, <1>9, <3>1
    <3>6. ScanBegins(q)
      BY <1>3, <1>4, <3>1, <3>2, <3>3, <3>4, <3>5 DEF ScanBegins, BeamAtNextRow
    <3>7. InScan(q) /\ Unseen(q)
      BY <3>1, <3>6, ScanBegun
    <3>8. SameLine(a, q) /\ SameVBlank(a, q)
      BY <2>3, <3>1 DEF SameLine, SameVBlank
    <3>9. LevelOf(q) => LevelOf(a)
      <4>1. q.scanline # Visible
        BY <1>4, <3>3
      <4> QED
        BY <1>9, <3>1, <3>2, <4>1, LevelAtScan DEF SameSelects, SameCompared
    <3>10. Faithful(q)
      BY <3>2 DEF Faithful, SameCompared, SameSelects
    <3> QED
      BY <1>16, <2>2, <3>1, <3>2, <3>4, <3>7, <3>8, <3>9, <3>10 DEF q
  <2>6. CASE ~(a.scanline + 1 < Visible)
    <3>1. /\ q \in Members /\ BeamAtNextRow(d, q) /\ SameSelects(d, q)
          /\ q.ly_for_comparison = -1 /\ q.coincidence_flag = (-1 = d.lyc)
          /\ q.ly = d.ly /\ q.first_frame_blank = d.first_frame_blank /\ q.blocked = {}
          /\ SameModes(d, q) /\ SameDelays(d, q) /\ SameScan(d, q) /\ Looked(d, q)
      BY <1>7, <2>1, <2>4, <2>6, EndLineBlank
    <3> HIDE DEF q
    <3>2. BeamAtNextRow(a, q) /\ SameSelects(a, q)
      BY <1>8, <3>1 DEF BeamAtNextRow, SameRow, SameSelects
    <3>3. q.scanline = Visible /\ a.scanline = Visible - 1
      BY <1>3, <1>4, <2>4, <2>6, <3>1 DEF BeamAtNextRow
    <3>4. Faithful(q)
      BY <3>1, <3>2 DEF Faithful, SameSelects
    <3>5. Looked(a, q) /\ SameVBlank(a, q)
      BY <2>3, <3>1 DEF SameLine, Looked, LookedAt, SameVBlank
    <3>6. Stands(q, "HBlank") /\ NoOamDelay(q) /\ q.hblank_mode_interrupt_delay = 0
      BY <1>9, <1>10, <3>1 DEF Stands, NoOamDelay, SameModes, SameDelays
    <3>7. q.hblank_mode_interrupt_active
      BY <1>10, <3>1 DEF SameDelays
    <3>8. /\ q.ly = Visible - 1 /\ q.drawn = 0 /\ NoScan(q)
          /\ q.first_frame_blank = a.first_frame_blank
      BY <1>3, <1>8, <3>1, <3>3 DEF SameShown, SameScan, NoScan
    <3>9. InBlankLine(q)
      BY <1>3, <1>4, <3>1, <3>2, <3>6, <3>8, PpuAssumption DEF InBlankLine, BeamAtNextRow
    <3>10. BeforeVBlank(q)
      BY <3>1, <3>2, <3>3, <3>6, <3>7, <3>8, <3>9 DEF BeforeVBlank, BeamAtNextRow
    <3> QED
      BY <1>16, <2>2, <3>1, <3>2, <3>4, <3>5, <3>8, <3>10 DEF q
  <2> QED
    BY <2>5, <2>6
<1> QED
  BY <1>15, <1>16

\* The line after LCD on shows mode 0 until its mode 3 begins.
LEMMA StartupDot ==
  ASSUME NEW a \in Members, InStartup(a), Faithful(a), NEW finished
  PROVE  LET q == TickOn(a, finished)
         IN /\ q \in Members /\ Advances(a, q) /\ SameSelects(a, q) /\ Faithful(q)
            /\ q.first_frame_blank = a.first_frame_blank /\ SameVBlank(a, q)
            /\ q.dot_counter = ScanEnd - 4 => InDraw(q) /\ Looked(a, q)
            /\ q.dot_counter # ScanEnd - 4
                 => /\ InStartup(q)
                    /\ \/ q.dot_counter = 1 /\ Looked(a, q)
                       \/ SameLine(a, q) /\ SameLevel(a, q)
<1> DEFINE b == NextDot(a)
           d == TickDelays(b)
           q == TickOn(a, finished)
<1>1. /\ b \in Members /\ SameRow(a, b) /\ SameSelects(a, b) /\ SameCompared(a, b)
      /\ SameShown(a, b) /\ SameModes(a, b) /\ SameDelays(a, b) /\ SameScan(a, b)
      /\ SameLine(a, b) /\ b.dot_counter = a.dot_counter + 1
  BY NextDotFields
<1>2. /\ a.mode = "HBlank" /\ a.stat_mode = "HBlank" /\ a.pending_stat_mode = "HBlank"
      /\ a.stat_mode_delay = 0 /\ a.oam_mode_interrupt_delay = 0
      /\ ~a.oam_mode_interrupt_active
  BY DEF InStartup, Stands, NoOamDelay
<1>3. /\ a.on /\ a.startup_line /\ a.scanline = 0 /\ a.first_frame_blank
      /\ a.dot_counter \in Int /\ 0 <= a.dot_counter /\ a.dot_counter < ScanEnd - 4
      /\ a.line_dot_limit = LineDots - 6 /\ a.ly = 0 /\ a.ly_for_comparison = 0
      /\ NoScan(a) /\ a.drawn = 0
  BY DEF InStartup, Members, Number
<1>4. /\ a.hblank_mode_interrupt_delay = (IF a.dot_counter = 0 THEN 1 ELSE 0)
      /\ a.hblank_mode_interrupt_active = (a.dot_counter # 0)
      /\ a.blocked = (IF a.dot_counter >= ScanEnd - 6 THEN {"oam_write"} ELSE {})
  BY DEF InStartup
<1>5. /\ ScanEnd \in Int /\ ScanEnd >= 12 /\ LineDots \in Int /\ DrawMax \in Int
      /\ DrawMax >= 1 /\ ScanEnd + DrawMax < LineDots - 3 /\ Visible \in Int /\ Visible >= 2
  BY PpuAssumption DEF ScanEnd
<1>6. TickLine(b) = b
  BY <1>1, <1>2, <1>3, <1>5 DEF TickLine, SameModes, SameRow
<1>7. StatChanged(b) <=> a.dot_counter = 0
  BY <1>1, <1>2, <1>4 DEF StatChanged, SameDelays, SameModes
<1>8. /\ d \in Members /\ SameBeam(b, d) /\ SameSelects(b, d) /\ SameCompared(b, d)
      /\ SameShown(b, d) /\ SameScan(b, d)
      /\ d.mode = b.mode /\ d.pending_stat_mode = b.pending_stat_mode
      /\ d.stat_mode = (IF b.stat_mode_delay = 1 THEN b.pending_stat_mode ELSE b.stat_mode)
      /\ d.stat_mode_delay = Less(b.stat_mode_delay)
      /\ d.oam_mode_interrupt_delay = Less(b.oam_mode_interrupt_delay)
      /\ d.hblank_mode_interrupt_delay = Less(b.hblank_mode_interrupt_delay)
      /\ d.oam_mode_interrupt_active
           <=> b.oam_mode_interrupt_active \/ b.oam_mode_interrupt_delay = 1
      /\ d.hblank_mode_interrupt_active
           <=> b.hblank_mode_interrupt_active \/ b.hblank_mode_interrupt_delay = 1
      /\ StatChanged(b) => Looked(b, d)
      /\ ~StatChanged(b) => SameLine(b, d)
  BY <1>1, DelaysFields
<1> HIDE DEF b, d
<1>9. /\ SameRow(a, d) /\ d.dot_counter = a.dot_counter + 1 /\ SameSelects(a, d)
      /\ SameCompared(a, d) /\ SameShown(a, d) /\ SameScan(a, d)
  BY <1>1, <1>8 DEF SameBeam, SameRow, SameSelects, SameCompared, SameShown, SameScan
<1>10. Stands(d, "HBlank")
  BY <1>1, <1>2, <1>8 DEF Stands, SameModes, SameDelays
<1>11. NoOamDelay(d) /\ d.hblank_mode_interrupt_delay = 0
  <2>1. /\ d.stat_mode_delay = 0 /\ d.oam_mode_interrupt_delay = 0
        /\ d.hblank_mode_interrupt_delay = 0
    BY <1>1, <1>2, <1>4, <1>8 DEF SameDelays, Less
  <2>2. ~d.oam_mode_interrupt_active
    BY <1>1, <1>2, <1>8 DEF SameDelays
  <2> QED
    BY <2>1, <2>2 DEF NoOamDelay
<1>12. d.hblank_mode_interrupt_active = TRUE
  <2>1. CASE a.dot_counter = 0
    BY <1>1, <1>4, <1>8, <2>1 DEF SameDelays, Members
  <2>2. CASE a.dot_counter # 0
    BY <1>1, <1>4, <1>8, <2>2 DEF SameDelays, Members
  <2> QED
    BY <2>1, <2>2
<1>13. /\ a.dot_counter = 0 => Looked(a, d)
       /\ a.dot_counter # 0 => SameLine(a, d)
  BY <1>1, <1>7, <1>8 DEF Looked, LookedAt, SameVBlank, SameLine
<1>14. d.dot_counter < d.line_dot_limit /\ d.startup_line /\ d.mode = "HBlank"
  BY <1>3, <1>5, <1>9, <1>10 DEF SameRow, Stands
<1>15. Faithful(d)
  BY <1>9 DEF Faithful, SameCompared, SameSelects
<1>16. a.oam_mode_interrupt_active = d.oam_mode_interrupt_active
  BY <1>2, <1>8, <1>11 DEF Members, NoOamDelay
<1>17. CASE a.dot_counter + 1 = ScanEnd - 4
  <2>1. TickMode(d, finished) = BeginMode3(d)
    BY <1>5, <1>9, <1>14, <1>17 DEF TickMode
  <2> DEFINE m == BeginMode3(d)
  <2>2. /\ m \in Members /\ SameBeam(d, m) /\ SameSelects(d, m) /\ SameCompared(d, m)
        /\ m.ly = d.ly /\ m.first_frame_blank = d.first_frame_blank
        /\ m.oam_scan_index = d.oam_scan_index /\ m.accessed_oam_row = -1
        /\ m.drawn = 0 /\ m.blocked = Ports
        /\ Stands(m, "Drawing") /\ NoDelay(m) /\ Looked(d, m)
    BY <1>8, BeginMode3Fields
  <2> HIDE DEF m
  <2>3. q = m
    BY <1>6, <1>14, <2>1, <2>2 DEF TickOn, b, d, m, SameBeam, SameRow
  <2> HIDE DEF q
  <2>4. Advances(a, q) /\ SameSelects(a, q) /\ SameCompared(a, q)
    BY <1>9, <1>14, <2>2, <2>3 DEF Advances, SameBeam, SameRow, SameSelects, SameCompared
  <2>5. Looked(a, q) /\ SameVBlank(a, q)
    <3>1. SameLine(a, d)
      BY <1>3, <1>5, <1>13, <1>17
    <3> QED
      BY <2>2, <2>3, <3>1 DEF Looked, LookedAt, SameVBlank, SameLine
  <2>6. Faithful(q) /\ q.first_frame_blank = a.first_frame_blank
    BY <1>9, <2>2, <2>3, <2>4 DEF Faithful, SameCompared, SameSelects, SameShown
  <2>7. InDrawnLine(q)
    BY <1>3, <1>5, <2>4 DEF InDrawnLine, Advances, SameRow
  <2>8. q.ly = q.scanline /\ q.ly_for_comparison = q.scanline /\ NoScan(q)
    BY <1>3, <1>9, <2>2, <2>3, <2>4
       DEF Advances, SameRow, SameCompared, SameShown, NoScan, SameScan
  <2>9. DrawFrom(q) = ScanEnd - 4 /\ q.dot_counter = ScanEnd - 4
    BY <1>3, <1>17, <2>4 DEF DrawFrom, Advances, SameRow
  <2>10. InDraw(q)
    BY <1>5, <2>2, <2>3, <2>7, <2>8, <2>9 DEF InDraw
  <2> QED
    BY <2>2, <2>3, <2>4, <2>5, <2>6, <2>9, <2>10 DEF q
<1>18. CASE a.dot_counter + 1 # ScanEnd - 4
  <2> DEFINE ports == IF a.dot_counter + 1 = ScanEnd - 6
                      THEN d.blocked \union {"oam_write"} ELSE d.blocked
             m == [d EXCEPT !.blocked = ports]
  <2>1. TickMode(d, finished) = m
    <3>1. CASE a.dot_counter + 1 = ScanEnd - 6
      BY <1>5, <1>9, <1>14, <1>18, <3>1 DEF TickMode
    <3>2. CASE a.dot_counter + 1 # ScanEnd - 6
      <4>1. TickMode(d, finished) = d
        BY <1>5, <1>9, <1>14, <1>18, <3>2 DEF TickMode
      <4> QED
        BY <1>8, <3>2, <4>1 DEF Members
    <3> QED
      BY <3>1, <3>2
  <2>2. ports \in SUBSET Ports
    BY <1>8 DEF Members, Ports
  <2>3. ports = (IF a.dot_counter + 1 >= ScanEnd - 6 THEN {"oam_write"} ELSE {})
    BY <1>3, <1>4, <1>5, <1>9 DEF SameShown
  <2>4. m = [d EXCEPT !.blocked = ports]
    OBVIOUS
  <2> HIDE DEF ports, m
  <2>5. m \in Members
    BY <1>8, <2>2, <2>4 DEF Members
  <2>6. /\ SameBeam(d, m) /\ SameSelects(d, m) /\ SameCompared(d, m) /\ SameModes(d, m)
        /\ SameDelays(d, m) /\ SameScan(d, m) /\ SameLine(d, m)
        /\ m.ly = d.ly /\ m.first_frame_blank = d.first_frame_blank
    BY <1>8, <2>4 DEF Members, SameBeam, SameRow, SameSelects, SameCompared, SameModes,
                      SameDelays, SameScan, SameLine
  <2>7. m.blocked = ports
    BY <1>8, <2>4 DEF Members
  <2>8. q = m
    BY <1>6, <1>14, <2>1, <2>6 DEF TickOn, b, d, SameBeam, SameRow
  <2> HIDE DEF q
  <2>9. Advances(a, q) /\ SameSelects(a, q) /\ SameCompared(a, q)
    BY <1>9, <1>14, <2>6, <2>8 DEF Advances, SameBeam, SameRow, SameSelects, SameCompared
  <2>10. Faithful(q) /\ q.first_frame_blank = a.first_frame_blank
    BY <1>9, <2>6, <2>8, <2>9 DEF Faithful, SameCompared, SameSelects, SameShown
  <2>11. /\ Stands(q, "HBlank") /\ NoOamDelay(q) /\ q.hblank_mode_interrupt_delay = 0
         /\ q.hblank_mode_interrupt_active = TRUE
         /\ q.oam_mode_interrupt_active = a.oam_mode_interrupt_active
    BY <1>10, <1>11, <1>12, <1>16, <2>6, <2>8 DEF Stands, NoOamDelay, SameModes, SameDelays
  <2>12. q.dot_counter = a.dot_counter + 1 /\ q.dot_counter > 0 /\ q.dot_counter < ScanEnd - 4
    BY <1>3, <1>5, <1>18, <2>9 DEF Advances
  <2>13. /\ q.hblank_mode_interrupt_delay = (IF q.dot_counter = 0 THEN 1 ELSE 0)
         /\ q.hblank_mode_interrupt_active = (q.dot_counter # 0)
    <3>1. (q.dot_counter # 0) = TRUE
      BY <1>3, <2>12
    <3> QED
      BY <1>3, <2>11, <2>12, <3>1
  <2>14. q.ly = 0 /\ q.ly_for_comparison = 0 /\ NoScan(q) /\ q.drawn = 0
    BY <1>3, <1>9, <2>6, <2>8, <2>9 DEF SameCompared, SameShown, NoScan, SameScan
  <2>15. q.blocked = (IF q.dot_counter >= ScanEnd - 6 THEN {"oam_write"} ELSE {})
    BY <2>3, <2>7, <2>8, <2>12
  <2>16. /\ q.on /\ q.startup_line /\ q.scanline = 0 /\ q.first_frame_blank
         /\ q.line_dot_limit = LineDots - 6
    BY <1>3, <2>9, <2>10 DEF Advances, SameRow
  <2>17. InStartup(q)
    BY <1>3, <2>11, <2>12, <2>13, <2>14, <2>15, <2>16 DEF InStartup
  <2>18. CASE a.dot_counter = 0
    <3>1. SameSources(d, m)
      BY <2>6 DEF SameSources, SameSelects, SameCompared, SameModes
    <3>2. StatInterruptActive(m) <=> StatInterruptActive(d)
      BY <3>1, ActiveDepends
    <3>3. Looked(a, q) /\ SameVBlank(a, q)
      BY <1>13, <2>6, <2>8, <2>18, <3>2 DEF Looked, LookedAt, SameVBlank, SameLine
    <3>4. q.dot_counter = 1 /\ q.dot_counter # ScanEnd - 4
      BY <1>5, <2>12, <2>18
    <3> QED
      BY <2>5, <2>8, <2>9, <2>10, <2>17, <3>3, <3>4 DEF q
  <2>19. CASE a.dot_counter # 0
    <3>1. SameLine(a, q) /\ SameVBlank(a, q)
      BY <1>13, <2>6, <2>8, <2>19 DEF SameVBlank, SameLine
    <3>2. a.hblank_mode_interrupt_active = q.hblank_mode_interrupt_active
      BY <1>4, <2>11, <2>19
    <3>3. q.mode = a.mode /\ q.stat_mode = a.stat_mode
      BY <1>2, <2>11 DEF Stands
    <3>4. ~(q.dot_counter >= ScanEnd - 4) /\ ~(a.dot_counter >= ScanEnd - 4)
      BY <1>3, <1>5, <2>12
    <3>5. SameLevel(a, q)
      BY <2>9, <2>11, <3>2, <3>3, <3>4, LevelDepends
         DEF Advances, SameRow, SameSelects, SameCompared
    <3>6. q.dot_counter # ScanEnd - 4
      BY <1>5, <2>12
    <3> QED
      BY <2>5, <2>8, <2>9, <2>10, <2>17, <3>1, <3>5, <3>6 DEF q
  <2> QED
    BY <2>18, <2>19
<1> QED
  BY <1>17, <1>18

\* Before the scan of an object: the line's early dots and its delays have run.
BeforeEntry(a, d) ==
  /\ SameRow(a, d) /\ d.dot_counter = a.dot_counter + 1 /\ SameSelects(a, d) /\ SameScan(a, d)
  /\ d.first_frame_blank = a.first_frame_blank
  /\ d.mode = "OamScan" /\ d.pending_stat_mode = "OamScan"
  /\ d.hblank_mode_interrupt_delay = 0 /\ d.hblank_mode_interrupt_active = FALSE

LEMMA ScanEarlyDot ==
  ASSUME NEW a \in Members, InScan(a), Faithful(a)
  PROVE  LET d == TickDelays(TickLine(NextDot(a)))
             n == a.dot_counter + 1
             early == IF a.scanline = 0 THEN 4 ELSE 3
         IN /\ d \in Members /\ BeforeEntry(a, d) /\ Faithful(d) /\ SameVBlank(a, d)
            /\ d.ly = (IF n < 3 /\ a.scanline > 0 THEN a.scanline - 1 ELSE a.scanline)
            /\ d.ly_for_comparison =
                 (IF a.scanline = 0 THEN 0 ELSE IF n < 3 THEN a.scanline - 1
                  ELSE IF n = 3 THEN -1 ELSE a.scanline)
            /\ d.stat_mode = (IF n >= 4 THEN "OamScan"
                              ELSE IF a.scanline = 0 /\ n < 3 THEN "VBlank" ELSE "HBlank")
            /\ d.stat_mode_delay = (IF n < 4 THEN 4 - n ELSE 0)
            /\ d.oam_mode_interrupt_delay = (IF n < early THEN early - n ELSE 0)
            /\ d.oam_mode_interrupt_active = (n >= early)
            /\ d.blocked = (IF n = 3 THEN a.blocked \union {"oam_read"}
                            ELSE IF n = 4 THEN a.blocked \union {"oam_write"} ELSE a.blocked)
            /\ n \in {3, 4} => Looked(a, d)
            /\ n \notin {3, 4} => SameLine(a, d) /\ SameLevel(a, d)
<1> DEFINE b == NextDot(a)
           c == TickLine(b)
           d == TickDelays(c)
           n == a.dot_counter + 1
           early == IF a.scanline = 0 THEN 4 ELSE 3
<1>1. /\ b \in Members /\ SameRow(a, b) /\ SameSelects(a, b) /\ SameCompared(a, b)
      /\ SameShown(a, b) /\ SameModes(a, b) /\ SameDelays(a, b) /\ SameScan(a, b)
      /\ SameLine(a, b) /\ b.dot_counter = n
  BY NextDotFields
<1>2. /\ a.mode = "OamScan" /\ a.pending_stat_mode = "OamScan"
      /\ a.hblank_mode_interrupt_delay = 0 /\ ~a.hblank_mode_interrupt_active
      /\ a.dot_counter \in Int /\ 0 <= a.dot_counter /\ a.scanline \in Int /\ 0 <= a.scanline
      /\ ~a.startup_line
  BY DEF InScan, InDrawnLine, Members, Number
<1>3. /\ a.ly = (IF a.dot_counter < 3 /\ a.scanline > 0 THEN a.scanline - 1 ELSE a.scanline)
      /\ a.ly_for_comparison =
           (IF a.scanline = 0 THEN 0
            ELSE IF a.dot_counter < 3 THEN a.scanline - 1
            ELSE IF a.dot_counter = 3 THEN -1 ELSE a.scanline)
      /\ a.stat_mode = (IF a.dot_counter >= 4 THEN "OamScan"
                        ELSE IF a.scanline = 0 /\ a.dot_counter < 3 THEN "VBlank"
                        ELSE "HBlank")
      /\ a.stat_mode_delay = (IF a.dot_counter < 4 THEN 4 - a.dot_counter ELSE 0)
      /\ a.oam_mode_interrupt_delay
           = (IF a.dot_counter < early THEN early - a.dot_counter ELSE 0)
      /\ a.oam_mode_interrupt_active = (a.dot_counter >= early)
  BY DEF InScan
<1>4. /\ c \in Members /\ SameBeam(b, c) /\ SameSelects(b, c) /\ SameDelays(b, c)
      /\ SameScan(b, c) /\ SameLine(b, c)
      /\ c.mode = b.mode /\ c.pending_stat_mode = b.pending_stat_mode
      /\ c.first_frame_blank = b.first_frame_blank
      /\ b.dot_counter = 3
           => /\ c.ly = b.scanline /\ c.blocked = b.blocked \union {"oam_read"}
              /\ c.ly_for_comparison = (IF b.scanline = 0 THEN 0 ELSE -1)
              /\ c.stat_mode = (IF b.scanline = 0 THEN "HBlank" ELSE b.stat_mode)
      /\ b.dot_counter = 4
           => /\ c.ly = b.ly /\ c.blocked = b.blocked \union {"oam_write"}
              /\ c.ly_for_comparison = b.scanline /\ c.stat_mode = b.stat_mode
      /\ b.dot_counter \in {3, 4}
           => c.coincidence_flag = (c.ly_for_comparison = b.lyc)
      /\ b.dot_counter \notin {3, 4}
           => SameCompared(b, c) /\ SameShown(b, c) /\ c.stat_mode = b.stat_mode
  <2>1. b.mode = "OamScan"
    BY <1>1, <1>2 DEF SameModes
  <2> QED
    BY <1>1, <2>1, ScanLineFields
<1>5. /\ d \in Members /\ SameBeam(c, d) /\ SameSelects(c, d) /\ SameCompared(c, d)
      /\ SameShown(c, d) /\ SameScan(c, d)
      /\ d.mode = c.mode /\ d.pending_stat_mode = c.pending_stat_mode
      /\ d.stat_mode = (IF c.stat_mode_delay = 1 THEN c.pending_stat_mode ELSE c.stat_mode)
      /\ d.stat_mode_delay = Less(c.stat_mode_delay)
      /\ d.oam_mode_interrupt_delay = Less(c.oam_mode_interrupt_delay)
      /\ d.hblank_mode_interrupt_delay = Less(c.hblank_mode_interrupt_delay)
      /\ d.oam_mode_interrupt_active
           <=> c.oam_mode_interrupt_active \/ c.oam_mode_interrupt_delay = 1
      /\ d.hblank_mode_interrupt_active
           <=> c.hblank_mode_interrupt_active \/ c.hblank_mode_interrupt_delay = 1
      /\ StatChanged(c) => Looked(c, d)
      /\ ~StatChanged(c) => SameLine(c, d)
  BY <1>4, DelaysFields
<1> HIDE DEF b, c, d
<1>6. /\ c.stat_mode_delay = a.stat_mode_delay
      /\ c.oam_mode_interrupt_delay = a.oam_mode_interrupt_delay
      /\ c.oam_mode_interrupt_active = a.oam_mode_interrupt_active
      /\ c.hblank_mode_interrupt_delay = a.hblank_mode_interrupt_delay
      /\ c.hblank_mode_interrupt_active = a.hblank_mode_interrupt_active
      /\ SameRow(a, c) /\ c.dot_counter = n /\ SameSelects(a, c) /\ SameScan(a, c)
      /\ SameLine(a, c)
      /\ c.mode = "OamScan" /\ c.pending_stat_mode = "OamScan"
  BY <1>1, <1>2, <1>4 DEF SameDelays, SameBeam, SameRow, SameSelects, SameScan, SameLine,
                          SameModes
<1>7. StatChanged(c) <=> n \in {3, 4}
  BY <1>2, <1>3, <1>6 DEF StatChanged
<1>8. BeforeEntry(a, d)
  <2>1. d.hblank_mode_interrupt_delay = 0
    BY <1>2, <1>5, <1>6 DEF Less
  <2>2. d.hblank_mode_interrupt_active = FALSE
    BY <1>2, <1>5, <1>6 DEF Members
  <2>3. d.first_frame_blank = a.first_frame_blank
    BY <1>1, <1>4, <1>5 DEF SameShown
  <2> QED
    BY <1>5, <1>6, <2>1, <2>2, <2>3 DEF BeforeEntry, SameBeam, SameRow, SameSelects, SameScan
<1>9. d.ly = (IF n < 3 /\ a.scanline > 0 THEN a.scanline - 1 ELSE a.scanline)
  <2>1. d.ly = (IF n = 3 THEN a.scanline ELSE a.ly)
    BY <1>1, <1>4, <1>5 DEF SameShown, SameRow
  <2> QED
    BY <1>2, <1>3, <2>1
<1>10. d.ly_for_comparison =
         (IF a.scanline = 0 THEN 0 ELSE IF n < 3 THEN a.scanline - 1
          ELSE IF n = 3 THEN -1 ELSE a.scanline)
  <2>1. d.ly_for_comparison =
          (IF n = 3 THEN IF a.scanline = 0 THEN 0 ELSE -1
           ELSE IF n = 4 THEN a.scanline ELSE a.ly_for_comparison)
    BY <1>1, <1>4, <1>5 DEF SameCompared, SameRow
  <2> QED
    BY <1>2, <1>3, <2>1
<1>11. d.stat_mode = (IF n >= 4 THEN "OamScan"
                      ELSE IF a.scanline = 0 /\ n < 3 THEN "VBlank" ELSE "HBlank")
  <2>1. c.stat_mode = (IF n = 3 /\ a.scanline = 0 THEN "HBlank" ELSE a.stat_mode)
    BY <1>1, <1>4 DEF SameRow, SameModes
  <2>2. d.stat_mode = (IF a.stat_mode_delay = 1 THEN "OamScan" ELSE c.stat_mode)
    BY <1>5, <1>6
  <2> QED
    BY <1>2, <1>3, <2>1, <2>2
<1>12. /\ d.stat_mode_delay = (IF n < 4 THEN 4 - n ELSE 0)
       /\ d.oam_mode_interrupt_delay = (IF n < early THEN early - n ELSE 0)
  BY <1>2, <1>3, <1>5, <1>6 DEF Less
<1>13. d.oam_mode_interrupt_active = (n >= early)
  <2>1. d.oam_mode_interrupt_active
          <=> a.oam_mode_interrupt_active \/ a.oam_mode_interrupt_delay = 1
    BY <1>5, <1>6
  <2>2. a.oam_mode_interrupt_active <=> a.dot_counter >= early
    BY <1>3
  <2>3. a.dot_counter >= early \/ a.oam_mode_interrupt_delay = 1 <=> n >= early
    BY <1>2, <1>3
  <2>4. d.oam_mode_interrupt_active <=> n >= early
    BY <2>1, <2>2, <2>3
  <2>5. d.oam_mode_interrupt_active \in BOOLEAN /\ (n >= early) \in BOOLEAN
    BY <1>2, <1>5 DEF Members
  <2> HIDE DEF n, early
  <2> QED
    BY <2>4, <2>5
<1>14. d.blocked = (IF n = 3 THEN a.blocked \union {"oam_read"}
                    ELSE IF n = 4 THEN a.blocked \union {"oam_write"} ELSE a.blocked)
  BY <1>1, <1>4, <1>5 DEF SameShown
<1>15. Faithful(d)
  <2>1. CASE n \in {3, 4}
    BY <1>1, <1>4, <1>5, <2>1 DEF Faithful, SameCompared, SameSelects
  <2>2. CASE n \notin {3, 4}
    BY <1>1, <1>4, <1>5, <2>2 DEF Faithful, SameCompared, SameSelects
  <2> QED
    BY <2>1, <2>2
<1>16. /\ n \in {3, 4} => Looked(a, d)
       /\ n \notin {3, 4} => SameLine(a, d)
  <2>1. c.stat_interrupt_line = a.stat_interrupt_line /\ c.raised = a.raised
    BY <1>6 DEF SameLine
  <2> HIDE DEF n
  <2> QED
    BY <1>5, <1>7, <2>1 DEF Looked, LookedAt, SameVBlank, SameLine
<1>17. SameVBlank(a, d)
  <2> HIDE DEF n
  <2> QED
    BY <1>16 DEF Looked, SameVBlank, SameLine
<1>18. n \notin {3, 4} => SameLevel(a, d)
  <2> SUFFICES ASSUME n \notin {3, 4}
               PROVE  SameLevel(a, d)
    OBVIOUS
  <2>1. d.coincidence_flag = a.coincidence_flag /\ d.stat = a.stat
    BY <1>1, <1>4, <1>5 DEF SameCompared, SameSelects
  <2>2. d.mode = a.mode /\ d.scanline = a.scanline /\ d.startup_line = a.startup_line
    BY <1>2, <1>8 DEF BeforeEntry, SameRow
  <2>3. d.stat_mode = a.stat_mode
    BY <1>2, <1>3, <1>11
  <2>4. d.oam_mode_interrupt_active = a.oam_mode_interrupt_active
    <3>1. n >= early <=> a.dot_counter >= early
      BY <1>2
    <3> DEFINE x == n >= early
               y == a.dot_counter >= early
    <3>2. x \in BOOLEAN /\ y \in BOOLEAN /\ (x <=> y)
      BY <1>2, <3>1
    <3>3. d.oam_mode_interrupt_active = x /\ a.oam_mode_interrupt_active = y
      BY <1>3, <1>13
    <3> HIDE DEF x, y
    <3> QED
      BY <3>2, <3>3
  <2>5. d.hblank_mode_interrupt_active = a.hblank_mode_interrupt_active
    BY <1>2, <1>8 DEF BeforeEntry, Members
  <2> QED
    BY <1>2, <2>1, <2>2, <2>3, <2>4, <2>5, LevelDepends
<1> HIDE DEF n, early
<1> QED
  BY <1>5, <1>8, <1>9, <1>10, <1>11, <1>12, <1>13, <1>14, <1>15, <1>16, <1>17, <1>18
     DEF b, c, d, n, early

\* The entry that is scanned in a dot, and the row of eight bytes it is in.
LEMMA EntryNumbers ==
  ASSUME NEW n \in Int, n >= 6
  PROVE  /\ n % 2 = 0 => /\ (n - 5) \div 2 + 1 = (n - 4) \div 2
                         /\ ((n - 5) \div 2) \div 2 + 1 = ((n - 6) \div 4) + 1
         /\ n % 2 # 0 => /\ (n - 5) \div 2 = (n - 4) \div 2
                         /\ n >= 7 /\ ((n - 7) \div 4) + 1 = ((n - 6) \div 4) + 1
<1>1. CASE n % 2 = 0
  <2>1. PICK k \in Int : n = 2 * k
    BY <1>1
  <2>2. (n - 5) \div 2 = k - 3 /\ (n - 4) \div 2 = k - 2
    BY <2>1
  <2>3. (k - 3) \div 2 = (n - 6) \div 4
    BY <2>1
  <2> QED
    BY <1>1, <2>1, <2>2, <2>3
<1>2. CASE n % 2 # 0
  <2>1. PICK k \in Int : n = 2 * k + 1
    BY <1>2
  <2>2. (n - 5) \div 2 = k - 2 /\ (n - 4) \div 2 = k - 2
    BY <2>1
  <2>3. (n - 7) \div 4 = (n - 6) \div 4
    BY <2>1
  <2> QED
    BY <1>2, <2>1, <2>2, <2>3
<1> QED
  BY <1>1, <1>2

\* Mode 2: an object every two dots, and then mode 3.
LEMMA ScanDot ==
  ASSUME NEW a \in Members, InScan(a), Faithful(a), NEW finished
  PROVE  LET q == TickOn(a, finished)
         IN /\ q \in Members /\ Advances(a, q) /\ SameSelects(a, q) /\ Faithful(q)
            /\ q.first_frame_blank = a.first_frame_blank /\ SameVBlank(a, q)
            /\ q.dot_counter = ScanEnd => InDraw(q) /\ Looked(a, q)
            /\ q.dot_counter # ScanEnd
                 => /\ InScan(q)
                    /\ \/ Looked(a, q) /\ ~Unseen(q)
                       \/ /\ SameLine(a, q) /\ SameLevel(a, q)
                          /\ Unseen(q) \/ ~Unseen(a)
<1> DEFINE d == TickDelays(TickLine(NextDot(a)))
           n == a.dot_counter + 1
           early == IF a.scanline = 0 THEN 4 ELSE 3
           entry == n >= 6 /\ n % 2 = 0
           e == IF entry THEN ScanOamEntry(d) ELSE d
           q == TickOn(a, finished)
<1>1. /\ d \in Members /\ BeforeEntry(a, d) /\ Faithful(d) /\ SameVBlank(a, d)
      /\ d.ly = (IF n < 3 /\ a.scanline > 0 THEN a.scanline - 1 ELSE a.scanline)
      /\ d.ly_for_comparison =
           (IF a.scanline = 0 THEN 0 ELSE IF n < 3 THEN a.scanline - 1
            ELSE IF n = 3 THEN -1 ELSE a.scanline)
      /\ d.stat_mode = (IF n >= 4 THEN "OamScan"
                        ELSE IF a.scanline = 0 /\ n < 3 THEN "VBlank" ELSE "HBlank")
      /\ d.stat_mode_delay = (IF n < 4 THEN 4 - n ELSE 0)
      /\ d.oam_mode_interrupt_delay = (IF n < early THEN early - n ELSE 0)
      /\ d.oam_mode_interrupt_active = (n >= early)
      /\ d.blocked = (IF n = 3 THEN a.blocked \union {"oam_read"}
                      ELSE IF n = 4 THEN a.blocked \union {"oam_write"} ELSE a.blocked)
      /\ n \in {3, 4} => Looked(a, d)
      /\ n \notin {3, 4} => SameLine(a, d) /\ SameLevel(a, d)
  BY ScanEarlyDot
<1>2. /\ a.on /\ ~a.startup_line /\ a.mode = "OamScan" /\ a.drawn = 0
      /\ a.dot_counter \in Int /\ 0 <= a.dot_counter /\ a.dot_counter < ScanEnd
      /\ a.scanline \in Int /\ 0 <= a.scanline /\ a.scanline < Visible
      /\ a.line_dot_limit = LineDots
      /\ a.blocked = (IF a.dot_counter >= 3 THEN {"oam_read"} ELSE {})
                       \union (IF 4 <= a.dot_counter /\ a.dot_counter < ScanEnd - 4
                               THEN {"oam_write"} ELSE {})
                       \union (IF a.dot_counter >= ScanEnd - 4 THEN {"vram_read"} ELSE {})
      /\ a.oam_scan_index = (IF a.dot_counter < 6 THEN 0 ELSE (a.dot_counter - 4) \div 2)
      /\ a.accessed_oam_row = (IF a.dot_counter < 6 THEN 0 ELSE ((a.dot_counter - 6) \div 4) + 1)
  BY DEF InScan, InDrawnLine, Members, Number
<1>3. /\ ScanEntries \in Int /\ ScanEntries >= 4 /\ ScanEnd = 4 + 2 * ScanEntries
      /\ LineDots \in Int /\ DrawMax \in Int /\ DrawMax >= 1
      /\ ScanEnd + DrawMax < LineDots - 3
  BY PpuAssumption DEF ScanEnd
<1>4. /\ n \in Int /\ n = a.dot_counter + 1 /\ 1 <= n /\ n <= ScanEnd
  BY <1>2, <1>3
<1>5. d.dot_counter = n /\ SameRow(a, d) /\ d.mode = "OamScan" /\ SameScan(a, d)
  BY <1>1 DEF BeforeEntry
<1>6. /\ TickMode(d, finished) = (IF n = ScanEnd THEN BeginMode3(e) ELSE e)
      /\ q = LET t == TickMode(d, finished) IN
             IF t.dot_counter < t.line_dot_limit THEN t ELSE EndLine(t)
  <2>1. TickMode(d, finished)
          = LET x == IF d.dot_counter >= 6 /\ d.dot_counter % 2 = 0
                     THEN ScanOamEntry(d) ELSE d
            IN  IF d.dot_counter = ScanEnd THEN BeginMode3(x) ELSE x
    BY <1>5 DEF TickMode
  <2> QED
    BY <1>5, <2>1 DEF TickOn
<1> HIDE DEF d, q
\* The scanned entry.
<1>7. /\ e \in Members /\ SameBeam(d, e) /\ SameSelects(d, e) /\ SameCompared(d, e)
      /\ SameModes(d, e) /\ SameDelays(d, e) /\ SameLine(d, e)
      /\ e.ly = d.ly /\ e.first_frame_blank = d.first_frame_blank /\ e.drawn = d.drawn
      /\ e.oam_scan_index = (IF entry THEN d.oam_scan_index + 1 ELSE d.oam_scan_index)
      /\ e.accessed_oam_row = (IF entry THEN (d.oam_scan_index \div 2) + 1
                               ELSE d.accessed_oam_row)
      /\ e.blocked = (IF entry /\ d.oam_scan_index = ScanEntries - 3
                      THEN (d.blocked \union {"vram_read"}) \ {"oam_write"} ELSE d.blocked)
  <2>1. CASE entry
    <3>1. e = ScanOamEntry(d)
      BY <2>1
    <3> HIDE DEF entry, e
    <3> QED
      BY <1>1, <2>1, <3>1, ScanEntryFields
  <2>2. CASE ~entry
    <3>1. e = d
      BY <2>2
    <3> HIDE DEF entry, e
    <3> QED
      BY <1>1, <2>2, <3>1 DEF SameBeam, SameRow, SameSelects, SameCompared, SameModes,
                              SameDelays, SameLine
  <2> QED
    BY <2>1, <2>2
<1> HIDE DEF e
<1>8. SameRow(a, e) /\ e.dot_counter = n /\ SameSelects(a, e)
  BY <1>1, <1>5, <1>7 DEF BeforeEntry, SameBeam, SameRow, SameSelects
<1>9. Faithful(e) /\ e.first_frame_blank = a.first_frame_blank /\ e.drawn = 0
  BY <1>1, <1>2, <1>5, <1>7
     DEF Faithful, SameCompared, SameSelects, BeforeEntry, SameScan
<1>10. /\ n \in {3, 4} => Looked(a, e)
       /\ n \notin {3, 4} => SameLine(a, e) /\ SameLevel(a, e)
       /\ SameVBlank(a, e)
  <2>1. StatInterruptActive(e) <=> StatInterruptActive(d)
    <3>1. SameSources(d, e)
      BY <1>7 DEF SameSources, SameSelects, SameCompared, SameModes
    <3> QED
      BY <3>1, ActiveDepends
  <2>2. SameLevel(d, e)
    <3>1. e.dot_counter = d.dot_counter
      BY <1>7 DEF SameBeam
    <3>2. e.dot_counter >= ScanEnd - 4 <=> d.dot_counter >= ScanEnd - 4
      BY <3>1
    <3> QED
      BY <1>7, <3>2, LevelDepends
         DEF SameBeam, SameRow, SameSelects, SameCompared, SameModes, SameDelays
  <2>3. e.stat_interrupt_line = d.stat_interrupt_line /\ e.raised = d.raised
    BY <1>7 DEF SameLine
  <2> HIDE DEF n
  <2> QED
    BY <1>1, <2>1, <2>2, <2>3 DEF Looked, LookedAt, SameVBlank, SameLine, SameLevel
<1>11. n <= ScanEnd /\ e.dot_counter < e.line_dot_limit
  BY <1>2, <1>3, <1>4, <1>8 DEF SameRow
<1>12. /\ e.oam_scan_index = (IF n < 6 THEN 0 ELSE (n - 4) \div 2)
       /\ e.accessed_oam_row = (IF n < 6 THEN 0 ELSE ((n - 6) \div 4) + 1)
  <2>1. /\ d.oam_scan_index = (IF n < 7 THEN 0 ELSE (n - 5) \div 2)
        /\ d.accessed_oam_row = (IF n < 7 THEN 0 ELSE ((n - 7) \div 4) + 1)
    BY <1>2, <1>5 DEF SameScan
  <2>2. CASE n < 6
    <3>1. ~entry
      BY <1>4, <2>2
    <3>2. e.oam_scan_index = d.oam_scan_index /\ e.accessed_oam_row = d.accessed_oam_row
      <4> HIDE DEF entry
      <4> QED
        BY <1>7, <3>1
    <3> QED
      BY <1>4, <2>1, <2>2, <3>2
  <2>3. CASE n >= 6 /\ n % 2 = 0
    <3>1. /\ (n - 5) \div 2 + 1 = (n - 4) \div 2
          /\ ((n - 5) \div 2) \div 2 + 1 = ((n - 6) \div 4) + 1
      BY <1>4, <2>3, EntryNumbers
    <3>2. e.oam_scan_index = d.oam_scan_index + 1
      BY <1>7, <2>3
    <3>3. e.accessed_oam_row = (d.oam_scan_index \div 2) + 1
      BY <1>7, <2>3
    <3>4. d.oam_scan_index = (n - 5) \div 2
      BY <1>4, <2>1, <2>3
    <3> QED
      BY <1>4, <2>3, <3>1, <3>2, <3>3, <3>4
  <2>4. CASE n >= 6 /\ n % 2 # 0
    <3>1. /\ (n - 5) \div 2 = (n - 4) \div 2
          /\ n >= 7 /\ ((n - 7) \div 4) + 1 = ((n - 6) \div 4) + 1
      BY <1>4, <2>4, EntryNumbers
    <3>2. e.oam_scan_index = d.oam_scan_index /\ e.accessed_oam_row = d.accessed_oam_row
      BY <1>7, <2>4
    <3> QED
      BY <1>4, <2>1, <2>4, <3>1, <3>2
  <2> QED
    BY <1>4, <2>2, <2>3, <2>4
<1>13. e.blocked = (IF n >= 3 THEN {"oam_read"} ELSE {})
                     \union (IF 4 <= n /\ n < ScanEnd - 4 THEN {"oam_write"} ELSE {})
                     \union (IF n >= ScanEnd - 4 THEN {"vram_read"} ELSE {})
  <2>1. entry /\ d.oam_scan_index = ScanEntries - 3 <=> n = ScanEnd - 4
    <3>1. d.oam_scan_index = (IF n < 7 THEN 0 ELSE (n - 5) \div 2)
      BY <1>2, <1>5 DEF SameScan
    <3>2. CASE n < 6
      BY <1>3, <1>4, <3>2
    <3>3. CASE n >= 6 /\ n % 2 = 0
      <4>1. (n - 5) \div 2 + 1 = (n - 4) \div 2
        BY <1>4, <3>3, EntryNumbers
      <4>2. PICK k \in Int : n = 2 * k
        BY <1>4, <3>3
      <4>3. (n - 4) \div 2 = k - 2
        BY <4>2
      <4>4. n = 6 => (n - 5) \div 2 = 0
        OBVIOUS
      <4>5. d.oam_scan_index = k - 3
        BY <1>4, <3>1, <3>3, <4>1, <4>2, <4>3, <4>4
      <4> QED
        BY <1>3, <1>4, <3>3, <4>2, <4>5
    <3>4. CASE n >= 6 /\ n % 2 # 0
      <4>1. n # 2 * ScanEntries
        BY <1>3, <3>4
      <4> QED
        BY <1>3, <3>4, <4>1
    <3> QED
      BY <1>4, <3>2, <3>3, <3>4
  <2>2. d.blocked = (IF n >= 3 THEN {"oam_read"} ELSE {})
                      \union (IF 4 <= n /\ n <= ScanEnd - 4 THEN {"oam_write"} ELSE {})
                      \union (IF n > ScanEnd - 4 THEN {"vram_read"} ELSE {})
    <3>1. CASE n < 3
      BY <1>1, <1>2, <1>3, <1>4, <3>1
    <3>2. CASE n = 3
      BY <1>1, <1>2, <1>3, <1>4, <3>2
    <3>3. CASE n = 4
      BY <1>1, <1>2, <1>3, <1>4, <3>3
    <3>4. CASE n > 4
      BY <1>1, <1>2, <1>3, <1>4, <3>4
    <3> QED
      BY <1>4, <3>1, <3>2, <3>3, <3>4
  <2>3. e.blocked = (IF n = ScanEnd - 4 THEN (d.blocked \union {"vram_read"}) \ {"oam_write"}
                     ELSE d.blocked)
    <3> HIDE DEF entry, n
    <3> QED
      BY <1>7, <2>1
  <2>4. CASE n = ScanEnd - 4
    <3>1. d.blocked = {"oam_read", "oam_write"}
      BY <1>3, <1>4, <2>2, <2>4
    <3>2. e.blocked = {"oam_read", "vram_read"}
      BY <2>3, <2>4, <3>1
    <3> QED
      BY <1>3, <1>4, <2>4, <3>2
  <2>5. CASE n # ScanEnd - 4
    BY <1>3, <1>4, <2>2, <2>3, <2>5
  <2> QED
    BY <2>4, <2>5
\* Mode 3 begins, or the scan goes on.
<1>14. CASE n = ScanEnd
  <2> DEFINE m == BeginMode3(e)
  <2>1. /\ m \in Members /\ SameBeam(e, m) /\ SameSelects(e, m) /\ SameCompared(e, m)
        /\ m.ly = e.ly /\ m.first_frame_blank = e.first_frame_blank
        /\ m.oam_scan_index = e.oam_scan_index /\ m.accessed_oam_row = -1
        /\ m.drawn = 0 /\ m.blocked = Ports
        /\ Stands(m, "Drawing") /\ NoDelay(m) /\ Looked(e, m)
    BY <1>7, BeginMode3Fields
  <2> HIDE DEF m
  <2>2. q = m
    BY <1>6, <1>11, <1>14, <2>1 DEF m, SameBeam, SameRow
  <2>3. Advances(a, q) /\ SameSelects(a, q)
    BY <1>8, <1>11, <2>1, <2>2 DEF Advances, SameBeam, SameRow, SameSelects
  <2>4. Faithful(q) /\ q.first_frame_blank = a.first_frame_blank
    BY <1>9, <2>1, <2>2 DEF Faithful, SameCompared, SameSelects
  <2>5. Looked(a, q) /\ SameVBlank(a, q)
    <3>1. SameLine(a, e)
      BY <1>3, <1>10, <1>14
    <3> QED
      BY <2>1, <2>2, <3>1 DEF Looked, LookedAt, SameVBlank, SameLine
  <2>6. InDrawnLine(q) /\ ~q.startup_line
    BY <1>2, <2>3 DEF InDrawnLine, Advances, SameRow
  <2>7. q.ly = q.scanline /\ q.ly_for_comparison = q.scanline
    BY <1>1, <1>2, <1>3, <1>4, <1>7, <1>14, <2>1, <2>2, <2>3
       DEF SameCompared, Advances, SameRow
  <2>8. NoScan(q)
    <3>1. (ScanEnd - 4) \div 2 = ScanEntries
      BY <1>3
    <3>2. q.oam_scan_index = ScanEntries
      BY <1>3, <1>12, <1>14, <2>1, <2>2, <3>1
    <3> QED
      BY <1>3, <2>1, <2>2, <3>2 DEF NoScan
  <2>9. DrawFrom(q) = ScanEnd /\ q.dot_counter = ScanEnd
    BY <1>4, <1>14, <2>3, <2>6 DEF DrawFrom, Advances
  <2>10. InDraw(q)
    BY <1>3, <2>1, <2>2, <2>6, <2>7, <2>8, <2>9 DEF InDraw
  <2> QED
    BY <2>1, <2>2, <2>3, <2>4, <2>5, <2>9, <2>10 DEF q
<1>15. CASE n # ScanEnd
  <2>1. q = e
    BY <1>6, <1>11, <1>15
  <2>2. Advances(a, q)
    BY <1>8, <1>11, <2>1 DEF Advances
  <2>3. q.dot_counter = n /\ q.scanline = a.scanline /\ ~q.startup_line /\ InDrawnLine(q)
    BY <1>2, <1>8, <2>1 DEF InDrawnLine, SameRow
  <2>4. /\ q.mode = "OamScan" /\ q.pending_stat_mode = "OamScan"
        /\ q.hblank_mode_interrupt_delay = 0 /\ ~q.hblank_mode_interrupt_active
        /\ q.stat_mode = d.stat_mode /\ q.stat_mode_delay = d.stat_mode_delay
        /\ q.oam_mode_interrupt_delay = d.oam_mode_interrupt_delay
        /\ q.oam_mode_interrupt_active = d.oam_mode_interrupt_active
        /\ q.ly = d.ly /\ q.ly_for_comparison = d.ly_for_comparison
    BY <1>1, <1>7, <2>1 DEF BeforeEntry, SameModes, SameDelays, SameCompared
  <2>5. 0 <= n /\ n < ScanEnd
    BY <1>3, <1>4, <1>15
  <2>6. /\ LET starts == IF q.scanline = 0 THEN 4 ELSE 3 IN
           /\ q.oam_mode_interrupt_delay
                = (IF q.dot_counter < starts THEN starts - q.dot_counter ELSE 0)
           /\ q.oam_mode_interrupt_active = (q.dot_counter >= starts)
    BY <1>1, <2>3, <2>4
  <2>7. /\ q.ly = (IF q.dot_counter < 3 /\ q.scanline > 0 THEN q.scanline - 1 ELSE q.scanline)
        /\ q.ly_for_comparison =
             (IF q.scanline = 0 THEN 0
              ELSE IF q.dot_counter < 3 THEN q.scanline - 1
              ELSE IF q.dot_counter = 3 THEN -1 ELSE q.scanline)
        /\ q.stat_mode = (IF q.dot_counter >= 4 THEN "OamScan"
                          ELSE IF q.scanline = 0 /\ q.dot_counter < 3 THEN "VBlank"
                          ELSE "HBlank")
        /\ q.stat_mode_delay = (IF q.dot_counter < 4 THEN 4 - q.dot_counter ELSE 0)
    BY <1>1, <2>3, <2>4
  <2>8. /\ q.blocked = (IF q.dot_counter >= 3 THEN {"oam_read"} ELSE {})
                         \union (IF 4 <= q.dot_counter /\ q.dot_counter < ScanEnd - 4
                                 THEN {"oam_write"} ELSE {})
                         \union (IF q.dot_counter >= ScanEnd - 4 THEN {"vram_read"} ELSE {})
        /\ q.oam_scan_index = (IF q.dot_counter < 6 THEN 0 ELSE (q.dot_counter - 4) \div 2)
        /\ q.accessed_oam_row
             = (IF q.dot_counter < 6 THEN 0 ELSE ((q.dot_counter - 6) \div 4) + 1)
    <3> HIDE DEF n
    <3> QED
      BY <1>12, <1>13, <2>1, <2>3
  <2>9. InScan(q)
    <3> HIDE DEF n
    <3> QED
      BY <1>9, <2>1, <2>3, <2>4, <2>5, <2>6, <2>7, <2>8 DEF InScan
  <2>10. \/ Looked(a, q) /\ ~Unseen(q)
         \/ SameLine(a, q) /\ SameLevel(a, q) /\ (Unseen(q) \/ ~Unseen(a))
    <3>1. CASE n \in {3, 4}
      BY <1>10, <2>1, <2>3, <3>1 DEF Unseen
    <3>2. CASE n \notin {3, 4}
      <4>1. n < 3 \/ ~(a.dot_counter < 3)
        BY <1>2, <3>2
      <4> QED
        BY <1>10, <2>1, <2>3, <2>4, <3>2, <4>1 DEF Unseen
    <3> QED
      BY <3>1, <3>2
  <2> QED
    BY <1>7, <1>8, <1>9, <1>10, <1>15, <2>1, <2>2, <2>3, <2>9, <2>10 DEF q
<1> QED
  BY <1>14, <1>15

\* In a line that is not drawn nothing follows TickLine.
LEMMA BlankRest ==
  ASSUME NEW t \in Members, ~t.startup_line, NoOamDelay(t),
         t.hblank_mode_interrupt_delay = 0, t.mode \in {"HBlank", "VBlank"}, NEW finished
  PROVE  LET e == TickMode(TickDelays(t), finished)
         IN /\ e \in Members /\ SameBeam(t, e) /\ SameSelects(t, e) /\ SameCompared(t, e)
            /\ SameShown(t, e) /\ SameModes(t, e) /\ SameDelays(t, e) /\ SameScan(t, e)
            /\ SameLine(t, e)
<1> DEFINE d == TickDelays(t)
<1>1. /\ d \in Members /\ SameBeam(t, d) /\ SameSelects(t, d) /\ SameCompared(t, d)
      /\ SameShown(t, d) /\ SameModes(t, d) /\ SameDelays(t, d) /\ SameScan(t, d)
      /\ SameLine(t, d)
  BY DelaysIdle
<1>2. ~d.startup_line /\ d.mode \in {"HBlank", "VBlank"}
  BY <1>1 DEF SameBeam, SameRow, SameModes
<1> HIDE DEF d
<1>3. TickMode(d, finished) = d
  BY <1>2 DEF TickMode
<1> QED
  BY <1>1, <1>3 DEF d

\* VBlank begins.
LEMMA EnterVBlankFields ==
  ASSUME NEW p \in Members
  PROVE  LET v == EnterVBlank(p)
         IN /\ v \in Members /\ SameBeam(p, v) /\ SameSelects(p, v) /\ SameCompared(p, v)
            /\ SameScan(p, v) /\ v.ly = p.ly /\ v.blocked = {} /\ ~v.first_frame_blank
            /\ Stands(v, "VBlank") /\ NoDelay(v) /\ LookedAt(p, v)
            /\ "VBlank" \in v.raised
<1> DEFINE d == SetMode(p, "VBlank")
           e == SetAccessBlocking(d, FALSE, FALSE)
           requests == e.raised \union {"VBlank"}
           v == EnterVBlank(p)
<1>1. /\ d \in Members /\ SameBeam(p, d) /\ SameSelects(p, d) /\ SameCompared(p, d)
      /\ SameShown(p, d) /\ SameScan(p, d) /\ Looked(p, d)
      /\ Stands(d, "VBlank") /\ NoOamDelay(d) /\ ~d.hblank_mode_interrupt_active
      /\ d.hblank_mode_interrupt_delay = 0
  BY SetModeFields
<1>2. /\ e \in Members /\ SameBeam(d, e) /\ SameSelects(d, e) /\ SameCompared(d, e)
      /\ SameModes(d, e) /\ SameDelays(d, e) /\ SameScan(d, e) /\ SameLine(d, e)
      /\ e.ly = d.ly /\ e.first_frame_blank = d.first_frame_blank /\ e.blocked = {}
  BY <1>1, BlockingFields
<1>3. v = [e EXCEPT !.raised = requests, !.first_frame_blank = FALSE]
  BY DEF EnterVBlank
<1>4. requests \in SUBSET {"LCDStat", "VBlank"}
  BY <1>2 DEF Members
<1>5. "VBlank" \in requests /\ ("LCDStat" \in requests <=> "LCDStat" \in e.raised)
  OBVIOUS
<1> HIDE DEF d, e, requests, v
<1>6. v \in Members
  BY <1>2, <1>3, <1>4 DEF Members
<1>7. SameBeam(e, v) /\ SameSelects(e, v) /\ SameCompared(e, v)
  BY <1>2, <1>3 DEF Members, SameBeam, SameRow, SameSelects, SameCompared
<1>8. SameModes(e, v) /\ SameDelays(e, v) /\ SameScan(e, v)
  BY <1>2, <1>3 DEF Members, SameModes, SameDelays, SameScan
<1>9. /\ v.ly = e.ly /\ v.blocked = e.blocked /\ ~v.first_frame_blank
      /\ v.raised = requests /\ v.stat_interrupt_line = e.stat_interrupt_line
  BY <1>2, <1>3 DEF Members
<1>10. SameBeam(p, v) /\ SameSelects(p, v) /\ SameCompared(p, v)
  BY <1>1, <1>2, <1>7 DEF SameBeam, SameRow, SameSelects, SameCompared
<1>11. SameScan(p, v) /\ v.ly = p.ly /\ v.blocked = {}
  BY <1>1, <1>2, <1>8, <1>9 DEF SameScan, SameShown
<1>12. Stands(v, "VBlank") /\ NoDelay(v)
  BY <1>1, <1>2, <1>8 DEF Stands, NoDelay, NoOamDelay, SameModes, SameDelays
<1>13. LookedAt(p, v)
  <2>1. SameSources(d, v)
    BY <1>2, <1>7, <1>8 DEF SameSources, SameBeam, SameRow, SameSelects, SameCompared,
                            SameModes, SameDelays
  <2>2. StatInterruptActive(v) <=> StatInterruptActive(d)
    BY <2>1, ActiveDepends
  <2> QED
    BY <1>1, <1>2, <1>5, <1>9, <2>2 DEF Looked, LookedAt, SameLine
<1> QED
  BY <1>5, <1>6, <1>9, <1>10, <1>11, <1>12, <1>13 DEF v

\* The first dots of line Visible, which end with the VBlank interrupt.
LEMMA BeforeVBlankDot ==
  ASSUME NEW a \in Members, BeforeVBlank(a), Faithful(a), NEW finished
  PROVE  LET q == TickOn(a, finished)
         IN /\ q \in Members /\ Advances(a, q) /\ SameSelects(a, q) /\ Faithful(q)
            /\ q.dot_counter = 5 => /\ InVBlank(q) /\ LookedAt(a, q)
                                    /\ "VBlank" \in q.raised
            /\ q.dot_counter # 5
                 => /\ BeforeVBlank(q) /\ SameVBlank(a, q)
                    /\ q.first_frame_blank = a.first_frame_blank
                    /\ LookedAt(a, q) \/ (SameLine(a, q) /\ SameLevel(a, q))
<1> DEFINE b == NextDot(a)
           t == TickLine(b)
           e == TickMode(TickDelays(t), finished)
           q == TickOn(a, finished)
<1>1. /\ b \in Members /\ SameRow(a, b) /\ SameSelects(a, b) /\ SameCompared(a, b)
      /\ SameShown(a, b) /\ SameModes(a, b) /\ SameDelays(a, b) /\ SameScan(a, b)
      /\ SameLine(a, b) /\ b.dot_counter = a.dot_counter + 1
  BY NextDotFields
<1>2. /\ a.on /\ ~a.startup_line /\ a.line_dot_limit = LineDots
      /\ a.dot_counter \in Int /\ 0 <= a.dot_counter /\ a.dot_counter < 5
      /\ NoOamDelay(a) /\ a.hblank_mode_interrupt_delay = 0 /\ a.hblank_mode_interrupt_active
      /\ a.blocked = {} /\ NoScan(a) /\ a.drawn = 0 /\ Stands(a, "HBlank")
      /\ a.scanline = Visible
      /\ a.ly = (IF a.dot_counter < 2 THEN Visible - 1 ELSE Visible)
      /\ a.ly_for_comparison = (IF a.dot_counter < 4 THEN -1 ELSE Visible)
  BY DEF BeforeVBlank, InBlankLine, Members, Number
<1>3. /\ Visible \in Int /\ Visible >= 2 /\ Lines \in Int /\ Lines >= Visible + 2
      /\ LineDots \in Int /\ LineDots >= 16
  BY PpuAssumption
<1>4. /\ b.mode = "HBlank" /\ b.scanline = Visible /\ InBlankLine(b)
  BY <1>1, <1>2, <1>3 DEF Stands, InBlankLine, NoOamDelay, NoScan, SameRow, SameModes,
                          SameDelays, SameShown, SameScan
<1>5. t = TickBlankLine(b)
  BY <1>4 DEF TickLine
<1>6. q = IF e.dot_counter < e.line_dot_limit THEN e ELSE EndLine(e)
  BY DEF TickOn
<1> HIDE DEF b, t, e, q
<1>7. CASE a.dot_counter + 1 = 5
  <2>1. t = EnterVBlank(b)
    BY <1>1, <1>4, <1>5, <1>7 DEF TickBlankLine
  <2>2. /\ t \in Members /\ SameBeam(b, t) /\ SameSelects(b, t) /\ SameCompared(b, t)
        /\ SameScan(b, t) /\ t.ly = b.ly /\ t.blocked = {} /\ ~t.first_frame_blank
        /\ Stands(t, "VBlank") /\ NoDelay(t) /\ LookedAt(b, t) /\ "VBlank" \in t.raised
    BY <1>1, <2>1, EnterVBlankFields
  <2>3. InBlankLine(t)
    BY <1>4, <2>2 DEF InBlankLine, NoDelay, NoScan, SameBeam, SameRow, SameScan
  <2>4. /\ e \in Members /\ SameBeam(t, e) /\ SameSelects(t, e) /\ SameCompared(t, e)
        /\ SameShown(t, e) /\ SameModes(t, e) /\ SameDelays(t, e) /\ SameScan(t, e)
        /\ SameLine(t, e)
    BY <2>2, <2>3, BlankRest DEF e, Stands, InBlankLine
  <2>5. /\ SameRow(a, e) /\ e.dot_counter = 5 /\ SameSelects(a, e)
    BY <1>1, <1>7, <2>2, <2>4 DEF SameBeam, SameRow, SameSelects
  <2>6. q = e
    BY <1>2, <1>3, <1>6, <2>5 DEF SameRow
  <2>7. Advances(a, q)
    <3>1. q.line_dot_limit = LineDots /\ q.dot_counter = 5
      BY <1>2, <2>5, <2>6 DEF SameRow
    <3>2. q.dot_counter < q.line_dot_limit /\ q.dot_counter = a.dot_counter + 1
      BY <1>3, <1>7, <3>1
    <3> QED
      BY <2>5, <2>6, <3>2 DEF Advances
  <2>8. SameCompared(a, q) /\ Faithful(q)
    BY <1>1, <2>2, <2>4, <2>5, <2>6 DEF SameCompared, SameSelects, Faithful
  <2>9. q.ly = Visible /\ q.ly_for_comparison = Visible
    BY <1>1, <1>2, <1>3, <1>7, <2>2, <2>4, <2>6, <2>8 DEF SameShown, SameCompared
  <2>10. /\ Stands(q, "VBlank") /\ NoDelay(q) /\ q.blocked = {} /\ NoScan(q) /\ q.drawn = 0
         /\ ~q.first_frame_blank /\ "VBlank" \in q.raised
    BY <1>1, <1>2, <2>2, <2>4, <2>6
       DEF Stands, NoDelay, NoOamDelay, NoScan, SameModes, SameDelays, SameShown, SameScan,
           SameLine
  <2>11. InBlankLine(q)
    <3>1. q.on /\ ~q.startup_line /\ q.line_dot_limit = LineDots /\ q.dot_counter = 5
      BY <1>2, <2>5, <2>6 DEF SameRow
    <3>2. 0 <= q.dot_counter /\ q.dot_counter < LineDots
      BY <1>3, <3>1
    <3> QED
      BY <2>10, <3>1, <3>2 DEF InBlankLine, NoDelay
  <2>12. InVBlank(q)
    BY <1>2, <1>3, <2>5, <2>6, <2>9, <2>10, <2>11 DEF InVBlank, SameRow, NoDelay
  <2>13. LookedAt(a, q)
    <3>1. SameSources(t, e)
      BY <2>4 DEF SameSources, SameSelects, SameCompared, SameModes
    <3>2. StatInterruptActive(e) <=> StatInterruptActive(t)
      BY <3>1, ActiveDepends
    <3> QED
      BY <1>1, <2>2, <2>4, <2>6, <3>2 DEF LookedAt, SameLine
  <2> QED
    BY <2>4, <2>5, <2>6, <2>7, <2>8, <2>10, <2>12, <2>13 DEF q
<1>8. CASE a.dot_counter + 1 # 5
  <2>1. /\ t \in Members /\ SameBeam(b, t) /\ SameSelects(b, t) /\ SameModes(b, t)
        /\ SameDelays(b, t) /\ SameScan(b, t) /\ SameVBlank(b, t)
        /\ t.blocked = b.blocked /\ t.first_frame_blank = b.first_frame_blank
        /\ t.ly = (IF b.dot_counter = 2 THEN Visible ELSE b.ly)
        /\ t.ly_for_comparison
             = (IF b.dot_counter = 4 THEN Visible ELSE b.ly_for_comparison)
        /\ b.dot_counter = 4
             => LookedAt(b, t) /\ t.coincidence_flag = (t.ly_for_comparison = b.lyc)
        /\ b.dot_counter # 4
             => SameLine(b, t) /\ t.coincidence_flag = b.coincidence_flag
    <3>1. CASE b.dot_counter = 2
      <4>1. t = [b EXCEPT !.ly = b.scanline]
        BY <1>5, <3>1 DEF TickBlankLine
      <4>2. b.scanline \in Number /\ b.scanline = Visible
        BY <1>1, <1>4 DEF Members
      <4>3. t \in Members
        BY <1>1, <4>1, <4>2 DEF Members
      <4>4. SameBeam(b, t) /\ SameSelects(b, t) /\ SameModes(b, t) /\ SameCompared(b, t)
        BY <1>1, <4>1 DEF Members, SameBeam, SameRow, SameSelects, SameModes, SameCompared
      <4>5. /\ SameDelays(b, t) /\ SameScan(b, t) /\ SameLine(b, t)
            /\ t.blocked = b.blocked /\ t.first_frame_blank = b.first_frame_blank
        BY <1>1, <4>1 DEF Members, SameDelays, SameScan, SameLine
      <4>6. t.ly = Visible
        BY <1>1, <4>1, <4>2 DEF Members
      <4> QED
        BY <3>1, <4>3, <4>4, <4>5, <4>6 DEF SameCompared, SameVBlank, SameLine
    <3>2. CASE b.dot_counter = 4
      <4>1. t = SetLyForComparison(b, b.scanline)
        BY <1>5, <3>2 DEF TickBlankLine
      <4>2. b.scanline \in Number /\ b.scanline = Visible
        BY <1>1, <1>4 DEF Members
      <4>3. /\ t \in Members /\ SameBeam(b, t) /\ SameSelects(b, t) /\ SameShown(b, t)
            /\ SameModes(b, t) /\ SameDelays(b, t) /\ SameScan(b, t) /\ Looked(b, t)
            /\ t.ly_for_comparison = b.scanline /\ t.coincidence_flag = (b.scanline = b.lyc)
        BY <1>1, <4>1, <4>2, SetLyFields
      <4> QED
        BY <3>2, <4>2, <4>3 DEF SameShown, Looked
    <3>3. CASE b.dot_counter \notin {2, 4}
      <4>1. b.dot_counter # 5 /\ b.dot_counter # 8 /\ b.dot_counter # 12
        BY <1>1, <1>2, <1>8
      <4>2. t = b
        BY <1>5, <3>3, <4>1 DEF TickBlankLine
      <4> QED
        BY <1>1, <3>3, <4>2 DEF SameBeam, SameRow, SameSelects, SameModes, SameDelays,
                                SameScan, SameLine, SameVBlank
    <3> QED
      BY <3>1, <3>2, <3>3
  <2>2. InBlankLine(t) /\ t.mode = "HBlank"
    BY <1>4, <2>1 DEF InBlankLine, NoOamDelay, NoScan, SameBeam, SameRow, SameDelays,
                      SameScan, SameModes
  <2>3. /\ e \in Members /\ SameBeam(t, e) /\ SameSelects(t, e) /\ SameCompared(t, e)
        /\ SameShown(t, e) /\ SameModes(t, e) /\ SameDelays(t, e) /\ SameScan(t, e)
        /\ SameLine(t, e)
    BY <2>1, <2>2, BlankRest DEF e, InBlankLine
  <2>4. SameRow(a, e) /\ e.dot_counter = a.dot_counter + 1 /\ SameSelects(a, e)
    BY <1>1, <2>1, <2>3 DEF SameBeam, SameRow, SameSelects
  <2>5. q = e
    BY <1>2, <1>3, <1>6, <2>4 DEF SameRow
  <2>6. Advances(a, q) /\ q.line_dot_limit = LineDots
    <3>1. q.line_dot_limit = LineDots /\ q.dot_counter = a.dot_counter + 1
      BY <1>2, <2>4, <2>5 DEF SameRow
    <3>2. q.dot_counter < q.line_dot_limit
      BY <1>2, <1>3, <3>1
    <3> QED
      BY <2>4, <2>5, <3>1, <3>2 DEF Advances
  <2>7. q.dot_counter < 5 /\ q.dot_counter > 0 /\ q.dot_counter # 5
    BY <1>2, <1>8, <2>4, <2>5
  <2>8. /\ q.ly = (IF q.dot_counter < 2 THEN Visible - 1 ELSE Visible)
        /\ q.ly_for_comparison = (IF q.dot_counter < 4 THEN -1 ELSE Visible)
    BY <1>1, <1>2, <1>3, <1>8, <2>1, <2>3, <2>4, <2>5 DEF SameShown, SameCompared
  <2>9. Faithful(q)
    <3>1. q.coincidence_flag = t.coincidence_flag /\ q.ly_for_comparison = t.ly_for_comparison
      BY <2>3, <2>5 DEF SameCompared
    <3>2. q.lyc = a.lyc /\ b.lyc = a.lyc
      BY <1>1, <2>4, <2>5 DEF SameSelects
    <3>3. b.coincidence_flag = (b.ly_for_comparison = b.lyc)
      BY <1>1, <3>2 DEF Faithful, SameCompared
    <3> QED
      BY <2>1, <3>1, <3>2, <3>3 DEF Faithful
  <2>10. /\ Stands(q, "HBlank") /\ NoOamDelay(q) /\ q.hblank_mode_interrupt_delay = 0
         /\ q.hblank_mode_interrupt_active
         /\ q.oam_mode_interrupt_active = a.oam_mode_interrupt_active
         /\ q.hblank_mode_interrupt_active = a.hblank_mode_interrupt_active
    <3>1. SameModes(a, q) /\ SameDelays(a, q)
      BY <1>1, <2>1, <2>3, <2>5 DEF SameModes, SameDelays
    <3>2. Stands(q, "HBlank")
      BY <1>2, <3>1 DEF Stands, SameModes
    <3> QED
      BY <1>2, <3>1, <3>2 DEF NoOamDelay, SameDelays
  <2>11. /\ q.blocked = {} /\ NoScan(q) /\ q.drawn = 0
         /\ q.first_frame_blank = a.first_frame_blank
    BY <1>1, <1>2, <2>1, <2>3, <2>5 DEF NoScan, SameScan, SameShown
  <2>12. BeforeVBlank(q)
    <3>1. InBlankLine(q)
      <4>1. q.on /\ ~q.startup_line
        BY <1>2, <2>4, <2>5 DEF SameRow
      <4>2. 0 <= q.dot_counter /\ q.dot_counter < LineDots
        <5>1. q.dot_counter \in Int
          BY <1>2, <2>4, <2>5
        <5> QED
          BY <2>6, <2>7, <5>1 DEF Advances
      <4> QED
        BY <2>6, <2>10, <2>11, <4>1, <4>2 DEF InBlankLine
    <3> QED
      BY <1>2, <2>4, <2>5, <2>7, <2>8, <2>10, <3>1 DEF BeforeVBlank, SameRow
  <2>13. SameVBlank(a, q)
    BY <1>1, <2>1, <2>3, <2>5 DEF SameVBlank, SameLine
  <2>14. CASE b.dot_counter = 4
    <3>1. SameSources(t, e)
      BY <2>3 DEF SameSources, SameSelects, SameCompared, SameModes
    <3>2. StatInterruptActive(e) <=> StatInterruptActive(t)
      BY <3>1, ActiveDepends
    <3>3. LookedAt(a, q)
      BY <1>1, <2>1, <2>3, <2>5, <2>14, <3>2 DEF LookedAt, SameLine
    <3> QED
      BY <2>3, <2>4, <2>5, <2>6, <2>7, <2>9, <2>11, <2>12, <2>13, <3>3 DEF q
  <2>15. CASE b.dot_counter # 4
    <3>1. SameLine(a, q)
      BY <1>1, <2>1, <2>3, <2>5, <2>15 DEF SameLine
    <3>2. q.coincidence_flag = a.coincidence_flag
      BY <1>1, <2>1, <2>3, <2>5, <2>15 DEF SameCompared
    <3>3. SameLevel(a, q)
      <4>1. q.stat = a.stat /\ q.scanline = a.scanline /\ q.startup_line = a.startup_line
        BY <2>4, <2>5 DEF SameRow, SameSelects
      <4>2. q.mode = a.mode /\ q.stat_mode = a.stat_mode /\ ~a.startup_line
        BY <1>2, <2>10 DEF Stands
      <4> QED
        BY <2>10, <3>2, <4>1, <4>2, LevelDepends
    <3> QED
      BY <2>3, <2>4, <2>5, <2>6, <2>7, <2>9, <2>11, <2>12, <2>13, <3>1, <3>3 DEF q
  <2> QED
    BY <2>14, <2>15
<1> QED
  BY <1>7, <1>8

\* A line of VBlank, before its delays: what LY and its comparison become.
LEMMA BlankLineFields ==
  ASSUME NEW b \in Members, b.mode = "VBlank"
  PROVE  LET t == TickBlankLine(b)
             n == b.dot_counter
             last == b.scanline = Lines - 1
         IN /\ t \in Members /\ SameBeam(b, t) /\ SameSelects(b, t) /\ SameModes(b, t)
            /\ SameDelays(b, t) /\ SameScan(b, t) /\ SameVBlank(b, t)
            /\ t.blocked = b.blocked /\ t.first_frame_blank = b.first_frame_blank
            /\ t.ly = (IF n = 2 THEN b.scanline ELSE IF n = 8 /\ last THEN 0 ELSE b.ly)
            /\ t.ly_for_comparison =
                 (IF n = 4 THEN b.scanline
                  ELSE IF n = 8 /\ last THEN -1
                  ELSE IF n = 12 /\ last THEN 0 ELSE b.ly_for_comparison)
            /\ n = 4 \/ (n \in {8, 12} /\ last)
                 => Looked(b, t) /\ t.coincidence_flag = (t.ly_for_comparison = b.lyc)
            /\ ~(n = 4 \/ (n \in {8, 12} /\ last))
                 => SameLine(b, t) /\ t.coincidence_flag = b.coincidence_flag
<1> DEFINE t == TickBlankLine(b)
           n == b.dot_counter
           last == b.scanline = Lines - 1
<1>1. b.scanline \in Number /\ 0 \in Number /\ -1 \in Number
  BY DEF Members, Number
<1>2. n \in Int
  BY DEF Members, Number
<1>3. CASE n = 2
  <2>1. t = [b EXCEPT !.ly = b.scanline]
    BY <1>3 DEF TickBlankLine
  <2> HIDE DEF t
  <2>2. t \in Members
    BY <1>1, <2>1 DEF Members
  <2>3. SameBeam(b, t) /\ SameSelects(b, t) /\ SameModes(b, t) /\ SameCompared(b, t)
    BY <2>1 DEF Members, SameBeam, SameRow, SameSelects, SameModes, SameCompared
  <2>4. /\ SameDelays(b, t) /\ SameScan(b, t) /\ SameLine(b, t)
        /\ t.blocked = b.blocked /\ t.first_frame_blank = b.first_frame_blank
    BY <2>1 DEF Members, SameDelays, SameScan, SameLine
  <2>5. t.ly = b.scanline
    BY <2>1 DEF Members
  <2> QED
    BY <1>3, <2>2, <2>3, <2>4, <2>5 DEF t, SameCompared, SameVBlank, SameLine
<1>4. CASE n = 4
  <2>1. t = SetLyForComparison(b, b.scanline)
    BY <1>4 DEF TickBlankLine
  <2> HIDE DEF t
  <2>2. /\ t \in Members /\ SameBeam(b, t) /\ SameSelects(b, t) /\ SameShown(b, t)
        /\ SameModes(b, t) /\ SameDelays(b, t) /\ SameScan(b, t) /\ Looked(b, t)
        /\ t.ly_for_comparison = b.scanline /\ t.coincidence_flag = (b.scanline = b.lyc)
    BY <1>1, <2>1, SetLyFields
  <2> QED
    BY <1>4, <2>2 DEF t, SameShown, Looked
<1>5. CASE n = 8 /\ last
  <2> DEFINE c == [b EXCEPT !.ly = 0]
  <2>1. t = SetLyForComparison(c, -1)
    <3>1. b.dot_counter = 8 /\ b.mode = "VBlank" /\ b.scanline = Lines - 1
      BY <1>5
    <3> QED
      BY <3>1 DEF TickBlankLine
  <2>2. c = [b EXCEPT !.ly = 0]
    OBVIOUS
  <2> HIDE DEF t, c
  <2>3. c \in Members
    BY <1>1, <2>2 DEF Members
  <2>4. SameBeam(b, c) /\ SameSelects(b, c) /\ SameModes(b, c) /\ SameCompared(b, c)
    BY <2>2 DEF Members, SameBeam, SameRow, SameSelects, SameModes, SameCompared
  <2>5. /\ SameDelays(b, c) /\ SameScan(b, c) /\ SameLine(b, c)
        /\ c.blocked = b.blocked /\ c.first_frame_blank = b.first_frame_blank
    BY <2>2 DEF Members, SameDelays, SameScan, SameLine
  <2>6. c.ly = 0
    BY <2>2 DEF Members
  <2>7. /\ t \in Members /\ SameBeam(c, t) /\ SameSelects(c, t) /\ SameShown(c, t)
        /\ SameModes(c, t) /\ SameDelays(c, t) /\ SameScan(c, t) /\ Looked(c, t)
        /\ t.ly_for_comparison = -1 /\ t.coincidence_flag = (-1 = c.lyc)
    BY <1>1, <2>1, <2>3, SetLyFields
  <2>8. SameBeam(b, t) /\ SameSelects(b, t) /\ SameModes(b, t)
    BY <2>4, <2>7 DEF SameBeam, SameRow, SameSelects, SameModes
  <2>9. SameDelays(b, t) /\ SameScan(b, t) /\ t.coincidence_flag = (-1 = b.lyc)
    BY <2>4, <2>5, <2>7 DEF SameDelays, SameScan, SameSelects
  <2>10. Looked(b, t)
    BY <2>5, <2>7 DEF Looked, LookedAt, SameVBlank, SameLine
  <2>11. t.blocked = b.blocked /\ t.first_frame_blank = b.first_frame_blank /\ t.ly = 0
    BY <2>5, <2>6, <2>7 DEF SameShown
  <2> QED
    BY <1>5, <2>7, <2>8, <2>9, <2>10, <2>11 DEF t, Looked
<1>6. CASE n = 12 /\ last
  <2>1. t = SetLyForComparison(b, 0)
    <3>1. b.dot_counter = 12 /\ b.mode = "VBlank" /\ b.scanline = Lines - 1
      BY <1>6
    <3> QED
      BY <3>1 DEF TickBlankLine
  <2> HIDE DEF t
  <2>2. /\ t \in Members /\ SameBeam(b, t) /\ SameSelects(b, t) /\ SameShown(b, t)
        /\ SameModes(b, t) /\ SameDelays(b, t) /\ SameScan(b, t) /\ Looked(b, t)
        /\ t.ly_for_comparison = 0 /\ t.coincidence_flag = (0 = b.lyc)
    BY <1>1, <2>1, SetLyFields
  <2> QED
    BY <1>6, <2>2 DEF t, SameShown, Looked
<1>7. CASE n # 2 /\ n # 4 /\ ~(n = 8 /\ last) /\ ~(n = 12 /\ last)
  <2>1. t = b
    BY <1>7 DEF TickBlankLine
  <2> HIDE DEF t
  <2>2. /\ SameBeam(b, t) /\ SameSelects(b, t) /\ SameModes(b, t) /\ SameDelays(b, t)
        /\ SameScan(b, t) /\ SameLine(b, t) /\ SameVBlank(b, t)
    BY <2>1 DEF SameBeam, SameRow, SameSelects, SameModes, SameDelays, SameScan, SameLine,
                SameVBlank
  <2> QED
    BY <1>7, <2>1, <2>2 DEF t
<1> QED
  BY <1>3, <1>4, <1>5, <1>6, <1>7

\* VBlank: LY wraps early in the last line, and line 0 is scanned after it.
LEMMA VBlankDot ==
  ASSUME NEW a \in Members, InVBlank(a), Faithful(a), NEW finished
  PROVE  LET q == TickOn(a, finished)
         IN /\ q \in Members /\ SameSelects(a, q) /\ Faithful(q)
            /\ q.first_frame_blank = a.first_frame_blank /\ SameVBlank(a, q)
            /\ a.dot_counter + 1 < LineDots
                 => /\ Advances(a, q) /\ InVBlank(q)
                    /\ Looked(a, q) \/ (SameLine(a, q) /\ SameLevel(a, q))
            /\ ~(a.dot_counter + 1 < LineDots)
                 => /\ BeamAtNextRow(a, q) /\ a.dot_counter + 1 = a.line_dot_limit
                    /\ \/ /\ InScan(q) /\ Unseen(q) /\ SameLine(a, q)
                          /\ LevelOf(q) => LevelOf(a)
                       \/ InVBlank(q) /\ Looked(a, q)
<1> DEFINE b == NextDot(a)
           t == TickLine(b)
           e == TickMode(TickDelays(t), finished)
           q == TickOn(a, finished)
           n == a.dot_counter + 1
           last == a.scanline = Lines - 1
<1>1. /\ b \in Members /\ SameRow(a, b) /\ SameSelects(a, b) /\ SameCompared(a, b)
      /\ SameShown(a, b) /\ SameModes(a, b) /\ SameDelays(a, b) /\ SameScan(a, b)
      /\ SameLine(a, b) /\ b.dot_counter = n
  BY NextDotFields
<1>2. /\ a.on /\ ~a.startup_line /\ a.line_dot_limit = LineDots
      /\ a.dot_counter \in Int /\ 0 <= a.dot_counter /\ a.dot_counter < LineDots
      /\ NoOamDelay(a) /\ a.hblank_mode_interrupt_delay = 0
      /\ ~a.hblank_mode_interrupt_active
      /\ a.blocked = {} /\ NoScan(a) /\ a.drawn = 0 /\ Stands(a, "VBlank")
      /\ ~a.first_frame_blank
  BY DEF InVBlank, InBlankLine, Members, Number
<1>3. /\ a.scanline \in Int /\ Visible <= a.scanline /\ a.scanline < Lines
      /\ a.scanline = Visible => a.dot_counter >= 5
      /\ a.ly = (IF a.dot_counter < 2 THEN a.scanline - 1
                 ELSE IF last /\ a.dot_counter >= 8 THEN 0 ELSE a.scanline)
      /\ a.ly_for_comparison =
           (IF a.dot_counter < 4 THEN -1
            ELSE IF last /\ a.dot_counter >= 8 THEN IF a.dot_counter < 12 THEN -1 ELSE 0
            ELSE a.scanline)
  BY DEF InVBlank, Members, Number
<1>4. /\ Visible \in Int /\ Visible >= 2 /\ Lines \in Int /\ Lines >= Visible + 2
      /\ LineDots \in Int /\ LineDots >= 16
  BY PpuAssumption
<1>5. b.mode = "VBlank" /\ b.scanline = a.scanline
  BY <1>1, <1>2 DEF Stands, SameRow, SameModes
<1>6. t = TickBlankLine(b)
  BY <1>5 DEF TickLine
<1>7. q = IF e.dot_counter < e.line_dot_limit THEN e ELSE EndLine(e)
  BY DEF TickOn
<1> HIDE DEF b, t, e, q
<1>8. /\ t \in Members /\ SameBeam(b, t) /\ SameSelects(b, t) /\ SameModes(b, t)
      /\ SameDelays(b, t) /\ SameScan(b, t) /\ SameVBlank(b, t)
      /\ t.blocked = b.blocked /\ t.first_frame_blank = b.first_frame_blank
      /\ t.ly = (IF n = 2 THEN a.scanline ELSE IF n = 8 /\ last THEN 0 ELSE b.ly)
      /\ t.ly_for_comparison =
           (IF n = 4 THEN a.scanline
            ELSE IF n = 8 /\ last THEN -1
            ELSE IF n = 12 /\ last THEN 0 ELSE b.ly_for_comparison)
      /\ n = 4 \/ (n \in {8, 12} /\ last)
           => Looked(b, t) /\ t.coincidence_flag = (t.ly_for_comparison = b.lyc)
      /\ ~(n = 4 \/ (n \in {8, 12} /\ last))
           => SameLine(b, t) /\ t.coincidence_flag = b.coincidence_flag
  BY <1>1, <1>5, <1>6, BlankLineFields
\* The delays are idle, so that nothing else happens in the dot.
<1>9. /\ e \in Members /\ SameBeam(t, e) /\ SameSelects(t, e) /\ SameCompared(t, e)
      /\ SameShown(t, e) /\ SameModes(t, e) /\ SameDelays(t, e) /\ SameScan(t, e)
      /\ SameLine(t, e)
  <2>1. NoOamDelay(t) /\ t.hblank_mode_interrupt_delay = 0
    BY <1>1, <1>2, <1>8 DEF NoOamDelay, SameDelays
  <2>2. ~t.startup_line /\ t.mode \in {"HBlank", "VBlank"}
    BY <1>1, <1>2, <1>8 DEF Stands, SameModes, SameBeam, SameRow
  <2> QED
    BY <1>8, <2>1, <2>2, BlankRest DEF e
<1>10. SameRow(a, e) /\ e.dot_counter = n /\ SameSelects(a, e)
  BY <1>1, <1>8, <1>9 DEF SameBeam, SameRow, SameSelects
<1>11. SameModes(a, e) /\ SameDelays(a, e) /\ SameScan(a, e)
  BY <1>1, <1>8, <1>9 DEF SameModes, SameDelays, SameScan
<1>12. e.blocked = {} /\ e.first_frame_blank = a.first_frame_blank /\ SameVBlank(a, e)
  BY <1>1, <1>2, <1>8, <1>9 DEF SameShown, SameVBlank, SameLine
<1>13. /\ e.ly = (IF n < 2 THEN a.scanline - 1 ELSE IF last /\ n >= 8 THEN 0 ELSE a.scanline)
       /\ e.ly_for_comparison =
            (IF n < 4 THEN -1
             ELSE IF last /\ n >= 8 THEN IF n < 12 THEN -1 ELSE 0 ELSE a.scanline)
  <2>1. e.ly = t.ly /\ e.ly_for_comparison = t.ly_for_comparison
    BY <1>9 DEF SameShown, SameCompared
  <2>2. b.ly = a.ly /\ b.ly_for_comparison = a.ly_for_comparison
    BY <1>1 DEF SameShown, SameCompared
  <2> QED
    BY <1>2, <1>3, <1>4, <1>8, <2>1, <2>2
<1>14. Faithful(e)
  <2>1. e.coincidence_flag = t.coincidence_flag /\ e.ly_for_comparison = t.ly_for_comparison
    BY <1>9 DEF SameCompared
  <2>2. e.lyc = a.lyc /\ b.lyc = a.lyc
    BY <1>1, <1>10 DEF SameSelects
  <2>3. b.coincidence_flag = (b.ly_for_comparison = b.lyc)
    BY <1>1, <2>2 DEF Faithful, SameCompared
  <2> QED
    BY <1>8, <2>1, <2>2, <2>3 DEF Faithful
<1>15. \/ Looked(a, e)
       \/ SameLine(a, e) /\ e.coincidence_flag = a.coincidence_flag
  <2>1. CASE n = 4 \/ (n \in {8, 12} /\ last)
    <3>1. SameSources(t, e)
      BY <1>9 DEF SameSources, SameSelects, SameCompared, SameModes
    <3>2. StatInterruptActive(e) <=> StatInterruptActive(t)
      BY <3>1, ActiveDepends
    <3>3. Looked(b, t)
      BY <1>8, <2>1
    <3> QED
      BY <1>1, <1>9, <3>2, <3>3 DEF Looked, LookedAt, SameVBlank, SameLine
  <2>2. CASE ~(n = 4 \/ (n \in {8, 12} /\ last))
    <3>1. SameLine(b, t) /\ t.coincidence_flag = b.coincidence_flag
      BY <1>8, <2>2
    <3> QED
      BY <1>1, <1>9, <3>1 DEF SameLine, SameCompared
  <2> QED
    BY <2>1, <2>2
<1>16. CASE n < LineDots
  <2>1. q = e
    BY <1>2, <1>7, <1>10, <1>16 DEF SameRow
  <2>2. Advances(a, q)
    <3>1. q.line_dot_limit = LineDots /\ q.dot_counter = n
      BY <1>2, <1>10, <2>1 DEF SameRow
    <3>2. q.dot_counter < q.line_dot_limit
      BY <1>16, <3>1
    <3> QED
      BY <1>10, <2>1, <3>1, <3>2 DEF Advances
  <2>3. /\ Stands(q, "VBlank") /\ NoOamDelay(q) /\ q.hblank_mode_interrupt_delay = 0
        /\ ~q.hblank_mode_interrupt_active
    BY <1>2, <1>11, <2>1 DEF Stands, NoOamDelay, SameModes, SameDelays
  <2>4. NoScan(q) /\ q.drawn = 0 /\ q.blocked = {} /\ ~q.first_frame_blank
    BY <1>2, <1>11, <1>12, <2>1 DEF NoScan, SameScan
  <2>5. q.on /\ ~q.startup_line /\ q.line_dot_limit = LineDots /\ q.scanline = a.scanline
    BY <1>2, <1>10, <2>1 DEF SameRow
  <2>6. q.dot_counter = n /\ 0 <= q.dot_counter /\ q.dot_counter < LineDots
    BY <1>2, <1>10, <1>16, <2>1
  <2>7. InBlankLine(q)
    BY <2>3, <2>4, <2>5, <2>6 DEF InBlankLine
  <2>8. q.scanline = Visible => q.dot_counter >= 5
    BY <1>2, <1>3, <2>5, <2>6
  <2>9. /\ q.ly = (IF q.dot_counter < 2 THEN q.scanline - 1
                   ELSE IF q.scanline = Lines - 1 /\ q.dot_counter >= 8 THEN 0
                   ELSE q.scanline)
        /\ q.ly_for_comparison =
             (IF q.dot_counter < 4 THEN -1
              ELSE IF q.scanline = Lines - 1 /\ q.dot_counter >= 8
              THEN IF q.dot_counter < 12 THEN -1 ELSE 0
              ELSE q.scanline)
    BY <1>13, <2>1, <2>5, <2>6
  <2>10. InVBlank(q)
    BY <1>3, <2>3, <2>4, <2>5, <2>7, <2>8, <2>9 DEF InVBlank
  <2>11. Looked(a, q) \/ (SameLine(a, q) /\ SameLevel(a, q))
    <3>1. CASE Looked(a, e)
      BY <2>1, <3>1
    <3>2. CASE SameLine(a, e) /\ e.coincidence_flag = a.coincidence_flag
      <4>1. q.stat = a.stat /\ q.startup_line = a.startup_line
        BY <1>10, <2>1 DEF SameRow, SameSelects
      <4>2. q.mode = a.mode /\ q.stat_mode = a.stat_mode /\ ~a.startup_line
        BY <1>2, <1>11, <2>1 DEF SameModes
      <4>3. /\ q.oam_mode_interrupt_active = a.oam_mode_interrupt_active
            /\ q.hblank_mode_interrupt_active = a.hblank_mode_interrupt_active
        BY <1>11, <2>1 DEF SameDelays
      <4>4. SameLevel(a, q)
        BY <2>1, <2>5, <3>2, <4>1, <4>2, <4>3, LevelDepends
      <4> QED
        BY <2>1, <3>2, <4>4
    <3> QED
      BY <1>15, <3>1, <3>2
  <2> QED
    BY <1>9, <1>10, <1>12, <1>14, <1>16, <2>1, <2>2, <2>10, <2>11 DEF q
<1>17. CASE ~(n < LineDots)
  <2>1. n = LineDots /\ n > 12
    BY <1>2, <1>4, <1>17
  <2>2. SameLine(a, e) /\ e.coincidence_flag = a.coincidence_flag
    <3>1. SameLine(b, t) /\ t.coincidence_flag = b.coincidence_flag
      BY <1>8, <2>1
    <3> QED
      BY <1>1, <1>9, <3>1 DEF SameLine, SameCompared
  <2>3. q = EndLine(e)
    BY <1>2, <1>7, <1>10, <1>17 DEF SameRow
  <2>4. e.scanline = a.scanline /\ e.on = a.on
    BY <1>10 DEF SameRow
  <2>5. (a.scanline + 1) % Lines = (IF last THEN 0 ELSE a.scanline + 1)
    BY <1>3, <1>4, RowNumber
  <2>6. a.dot_counter + 1 = a.line_dot_limit
    BY <1>2, <2>1
  <2>7. CASE last
    <3>1. (e.scanline + 1) % Lines = 0 /\ 0 < Visible
      BY <1>4, <2>4, <2>5, <2>7
    <3>2. /\ q \in Members /\ BeamAtNextRow(e, q) /\ SameSelects(e, q)
          /\ SameCompared(e, q) /\ SameLine(e, q)
          /\ q.ly = e.ly /\ q.first_frame_blank = e.first_frame_blank /\ q.blocked = {}
          /\ q.mode = "OamScan" /\ q.pending_stat_mode = "OamScan"
          /\ q.stat_mode = e.stat_mode /\ q.stat_mode_delay = 4
          /\ q.oam_mode_interrupt_delay = (IF q.scanline = 0 THEN 4 ELSE 3)
          /\ ~q.oam_mode_interrupt_active
          /\ q.hblank_mode_interrupt_delay = 0 /\ ~q.hblank_mode_interrupt_active
          /\ q.oam_scan_index = 0 /\ q.accessed_oam_row = 0 /\ q.drawn = e.drawn
      BY <1>9, <2>3, <3>1, EndLineScan
    <3>3. BeamAtNextRow(a, q) /\ q.scanline = 0 /\ q.on
      BY <1>2, <2>4, <3>1, <3>2 DEF BeamAtNextRow
    <3>4. SameSelects(a, q) /\ SameLine(a, q) /\ SameVBlank(a, q)
      BY <1>10, <2>2, <3>2 DEF SameSelects, SameLine, SameVBlank
    <3>5. Faithful(q) /\ q.coincidence_flag = a.coincidence_flag
      BY <1>14, <2>2, <3>2 DEF Faithful, SameCompared, SameSelects
    <3>6. q.ly = 0 /\ q.ly_for_comparison = 0
      <4>1. e.ly = 0 /\ e.ly_for_comparison = 0
        BY <1>4, <1>13, <2>1, <2>7
      <4> QED
        BY <3>2, <4>1 DEF SameCompared
    <3>7. q.stat_mode = "VBlank" /\ q.stat_mode = a.stat_mode /\ q.drawn = 0
      BY <1>2, <1>11, <3>2 DEF Stands, SameModes, SameScan
    <3>8. ScanBegins(q)
      BY <1>4, <3>2, <3>3, <3>6, <3>7 DEF ScanBegins, BeamAtNextRow
    <3>9. InScan(q) /\ Unseen(q)
      BY <3>2, <3>8, ScanBegun
    <3>10. LevelOf(q) => LevelOf(a)
      <4>1. q.scanline # Visible /\ q.stat = a.stat
        BY <1>4, <3>3, <3>4 DEF SameSelects
      <4> QED
        BY <3>2, <3>5, <3>7, <4>1, LevelAtScan
    <3> QED
      BY <1>12, <1>17, <2>6, <3>2, <3>3, <3>4, <3>5, <3>9, <3>10 DEF q
  <2>8. CASE ~last
    <3>1. (e.scanline + 1) % Lines = a.scanline + 1
      BY <2>4, <2>5, <2>8
    <3>2. ~((e.scanline + 1) % Lines < Visible)
      BY <1>3, <1>4, <3>1
    <3>3. /\ q \in Members /\ BeamAtNextRow(e, q) /\ SameSelects(e, q)
          /\ q.ly_for_comparison = -1 /\ q.coincidence_flag = (-1 = e.lyc)
          /\ q.ly = e.ly /\ q.first_frame_blank = e.first_frame_blank /\ q.blocked = {}
          /\ SameModes(e, q) /\ SameDelays(e, q) /\ SameScan(e, q) /\ Looked(e, q)
      BY <1>9, <2>3, <3>2, EndLineBlank
    <3>4. BeamAtNextRow(a, q) /\ q.scanline = a.scanline + 1 /\ q.on
      BY <1>2, <2>4, <3>1, <3>3 DEF BeamAtNextRow
    <3>5. SameSelects(a, q) /\ Faithful(q)
      BY <1>10, <3>3 DEF SameSelects, Faithful
    <3>6. Looked(a, q)
      BY <2>2, <3>3 DEF Looked, LookedAt, SameVBlank, SameLine
    <3>7. q.dot_counter = 0 /\ q.line_dot_limit = LineDots /\ ~q.startup_line
      BY <3>4 DEF BeamAtNextRow
    <3>8. SameModes(a, q) /\ SameDelays(a, q) /\ SameScan(a, q)
      BY <1>11, <3>3 DEF SameModes, SameDelays, SameScan
    <3>9. /\ Stands(q, "VBlank") /\ NoOamDelay(q) /\ q.hblank_mode_interrupt_delay = 0
          /\ ~q.hblank_mode_interrupt_active
      BY <1>2, <3>8 DEF Stands, NoOamDelay, SameModes, SameDelays
    <3>10. NoScan(q) /\ q.drawn = 0 /\ q.blocked = {} /\ ~q.first_frame_blank
      BY <1>2, <1>12, <3>3, <3>8 DEF NoScan, SameScan
    <3>11. 0 <= q.dot_counter /\ q.dot_counter < LineDots
      BY <1>4, <3>7
    <3>12. InBlankLine(q)
      BY <3>4, <3>7, <3>9, <3>10, <3>11 DEF InBlankLine
    <3>13. /\ Visible <= q.scanline /\ q.scanline < Lines /\ q.scanline # Visible
           /\ q.scanline \in Int
      BY <1>3, <1>4, <2>8, <3>4
    <3>14. q.ly = a.scanline
      <4>1. e.ly = a.scanline
        BY <1>4, <1>13, <2>1, <2>8
      <4> QED
        BY <3>3, <4>1
    <3>15. /\ q.ly = (IF q.dot_counter < 2 THEN q.scanline - 1
                      ELSE IF q.scanline = Lines - 1 /\ q.dot_counter >= 8 THEN 0
                      ELSE q.scanline)
           /\ q.ly_for_comparison =
                (IF q.dot_counter < 4 THEN -1
                 ELSE IF q.scanline = Lines - 1 /\ q.dot_counter >= 8
                 THEN IF q.dot_counter < 12 THEN -1 ELSE 0
                 ELSE q.scanline)
      BY <1>3, <3>3, <3>4, <3>7, <3>14
    <3>16. InVBlank(q)
      BY <3>9, <3>10, <3>12, <3>13, <3>15 DEF InVBlank
    <3> QED
      BY <1>12, <1>17, <2>6, <3>3, <3>4, <3>5, <3>6, <3>16 DEF q, Looked
  <2> QED
    BY <2>7, <2>8
<1> QED
  BY <1>16, <1>17

-----------------------------------------------------------------------------
(* A dot, wherever in the frame it falls. *)

\* Where a frame goes on in the dot after a.
Turns(a, q) ==
  \/ /\ Advances(a, q) /\ q.first_frame_blank = a.first_frame_blank /\ SameVBlank(a, q)
     /\ \/ InStartup(a) /\ (q.dot_counter = ScanEnd - 4 => InDraw(q))
                        /\ (q.dot_counter # ScanEnd - 4 => InStartup(q))
        \/ InScan(a) /\ (q.dot_counter = ScanEnd => InDraw(q))
                     /\ (q.dot_counter # ScanEnd => InScan(q))
        \/ InDraw(a) /\ (InDraw(q) \/ InHBlank(q))
        \/ InHBlank(a) /\ InHBlank(q)
        \/ BeforeVBlank(a) /\ BeforeVBlank(q)
        \/ InVBlank(a) /\ InVBlank(q)
  \/ /\ Advances(a, q) /\ BeforeVBlank(a) /\ InVBlank(q) /\ q.dot_counter = 5
     /\ "VBlank" \in q.raised
  \/ /\ BeamAtNextRow(a, q) /\ a.dot_counter + 1 = a.line_dot_limit
     /\ q.first_frame_blank = a.first_frame_blank /\ SameVBlank(a, q)
     /\ \/ InHBlank(a) /\ (InScan(q) \/ BeforeVBlank(q))
        \/ InVBlank(a) /\ (InScan(q) \/ InVBlank(q))

\* The dot of the first line for which the code lets mode 0 through too early.
TooEarly(p) == p.startup_line /\ p.dot_counter = ScanEnd - 5

\* What becomes of the interrupt line: the PPU looks at it, or has no reason to.
Watched(a, q) ==
  \/ LookedAt(a, q) /\ ~Unseen(q) /\ ~TooEarly(q)
  \/ /\ SameLine(a, q) /\ (LevelOf(q) => LevelOf(a))
     /\ Unseen(q) \/ (~Unseen(a) /\ SameLevel(a, q))

LEMMA PlainPlaces ==
  ASSUME NEW p \in Members,
         InDraw(p) \/ InHBlank(p) \/ BeforeVBlank(p) \/ InVBlank(p)
  PROVE  ~Unseen(p) /\ ~TooEarly(p)
<1>1. p.mode # "OamScan"
  BY DEF InDraw, InHBlank, BeforeVBlank, InVBlank, Stands
<1>2. p.startup_line => p.dot_counter # ScanEnd - 5
  <2>1. /\ p.dot_counter \in Int /\ p.drawn \in Int /\ ScanEnd \in Int
        /\ DrawMin \in Int /\ DrawMin >= 1
    BY PpuAssumption DEF Members, Number, ScanEnd
  <2>2. CASE InDraw(p)
    BY <2>1, <2>2 DEF InDraw, DrawFrom
  <2>3. CASE InHBlank(p)
    BY <2>1, <2>3 DEF InHBlank, DrawFrom
  <2>4. CASE BeforeVBlank(p) \/ InVBlank(p)
    BY <2>4 DEF BeforeVBlank, InVBlank, InBlankLine
  <2> QED
    BY <2>2, <2>3, <2>4
<1> QED
  BY <1>1, <1>2 DEF Unseen, TooEarly

LEMMA OnDot ==
  ASSUME NEW a \in Members, Placed(a), a.on, Faithful(a), NEW finished \in BOOLEAN,
         finished => MayFinish(a), MustFinish(a) => finished
  PROVE  LET q == TickOn(a, finished)
         IN q \in Members /\ SameSelects(a, q) /\ Faithful(q) /\ Turns(a, q) /\ Watched(a, q)
<1> DEFINE q == TickOn(a, finished)
<1>1. CASE InStartup(a)
  <2>1. /\ q \in Members /\ Advances(a, q) /\ SameSelects(a, q) /\ Faithful(q)
        /\ q.first_frame_blank = a.first_frame_blank /\ SameVBlank(a, q)
        /\ q.dot_counter = ScanEnd - 4 => InDraw(q) /\ Looked(a, q)
        /\ q.dot_counter # ScanEnd - 4
             => /\ InStartup(q)
                /\ \/ q.dot_counter = 1 /\ Looked(a, q)
                   \/ SameLine(a, q) /\ SameLevel(a, q)
    BY <1>1, StartupDot
  <2> HIDE DEF q
  <2>2. Turns(a, q)
    BY <1>1, <2>1 DEF Turns
  <2>3. CASE q.dot_counter = ScanEnd - 4
    <3>1. ~Unseen(q) /\ ~TooEarly(q)
      BY <2>1, <2>3, PlainPlaces
    <3>2. Watched(a, q)
      BY <2>1, <2>3, <3>1 DEF Watched, Looked
    <3> QED
      BY <2>1, <2>2, <3>2 DEF q
  <2>4. CASE q.dot_counter # ScanEnd - 4
    <3>1. ~Unseen(q) /\ ~Unseen(a)
      BY <1>1, <2>1, <2>4 DEF InStartup, Stands, Unseen
    <3>2. q.dot_counter = 1 => ~TooEarly(q)
      BY PpuAssumption DEF TooEarly, ScanEnd
    <3>3. Watched(a, q)
      BY <2>1, <2>4, <3>1, <3>2 DEF Watched, Looked, SameLevel
    <3> QED
      BY <2>1, <2>2, <3>3 DEF q
  <2> QED
    BY <2>3, <2>4
<1>2. CASE InScan(a)
  <2>1. /\ q \in Members /\ Advances(a, q) /\ SameSelects(a, q) /\ Faithful(q)
        /\ q.first_frame_blank = a.first_frame_blank /\ SameVBlank(a, q)
        /\ q.dot_counter = ScanEnd => InDraw(q) /\ Looked(a, q)
        /\ q.dot_counter # ScanEnd
             => /\ InScan(q)
                /\ \/ Looked(a, q) /\ ~Unseen(q)
                   \/ /\ SameLine(a, q) /\ SameLevel(a, q)
                      /\ Unseen(q) \/ ~Unseen(a)
    BY <1>2, ScanDot
  <2> HIDE DEF q
  <2>2. Turns(a, q)
    BY <1>2, <2>1 DEF Turns
  <2>3. CASE q.dot_counter = ScanEnd
    <3>1. ~Unseen(q) /\ ~TooEarly(q)
      BY <2>1, <2>3, PlainPlaces
    <3>2. Watched(a, q)
      BY <2>1, <2>3, <3>1 DEF Watched, Looked
    <3> QED
      BY <2>1, <2>2, <3>2 DEF q
  <2>4. CASE q.dot_counter # ScanEnd
    <3>1. ~TooEarly(q)
      BY <2>1, <2>4 DEF InScan, TooEarly
    <3>2. Watched(a, q)
      BY <2>1, <2>4, <3>1 DEF Watched, Looked, SameLevel
    <3> QED
      BY <2>1, <2>2, <3>2 DEF q
  <2> QED
    BY <2>3, <2>4
<1>3. CASE InDraw(a)
  <2>1. a.mode = "Drawing"
    BY <1>3 DEF InDraw, Stands
  <2>2. (finished => a.drawn + 1 >= DrawMin) /\ (a.drawn + 1 >= DrawMax => finished)
    BY <2>1 DEF MayFinish, MustFinish
  <2>3. /\ q \in Members /\ Advances(a, q) /\ SameSelects(a, q) /\ Faithful(q)
        /\ q.first_frame_blank = a.first_frame_blank /\ SameVBlank(a, q)
        /\ finished => InHBlank(q) /\ Looked(a, q)
        /\ ~finished => InDraw(q) /\ SameLine(a, q) /\ SameLevel(a, q)
    BY <1>3, <2>2, DrawingDot
  <2> HIDE DEF q
  <2>4. Turns(a, q)
    BY <1>3, <2>3 DEF Turns
  <2>5. ~Unseen(q) /\ ~TooEarly(q) /\ ~Unseen(a)
    BY <1>3, <2>3, PlainPlaces
  <2>6. Watched(a, q)
    BY <2>3, <2>5 DEF Watched, Looked, SameLevel
  <2> QED
    BY <2>3, <2>4, <2>6 DEF q
<1>4. CASE InHBlank(a)
  <2>1. /\ q \in Members /\ SameSelects(a, q) /\ Faithful(q)
        /\ q.first_frame_blank = a.first_frame_blank /\ SameVBlank(a, q)
        /\ a.dot_counter + 1 < a.line_dot_limit
             => /\ Advances(a, q) /\ InHBlank(q)
                /\ Looked(a, q) \/ (SameLine(a, q) /\ SameLevel(a, q))
        /\ ~(a.dot_counter + 1 < a.line_dot_limit)
             => /\ BeamAtNextRow(a, q) /\ a.dot_counter + 1 = a.line_dot_limit
                /\ \/ /\ InScan(q) /\ Unseen(q) /\ SameLine(a, q)
                      /\ LevelOf(q) => LevelOf(a)
                   \/ BeforeVBlank(q) /\ Looked(a, q)
    BY <1>4, HBlankDot
  <2> HIDE DEF q
  <2>2. Turns(a, q)
    BY <1>4, <2>1 DEF Turns
  <2>3. ~Unseen(a)
    BY <1>4, PlainPlaces
  <2>4. InHBlank(q) \/ BeforeVBlank(q) => ~Unseen(q) /\ ~TooEarly(q)
    BY <2>1, PlainPlaces
  <2>5. Watched(a, q)
    BY <2>1, <2>3, <2>4 DEF Watched, Looked, SameLevel
  <2> QED
    BY <2>1, <2>2, <2>5 DEF q
<1>5. CASE BeforeVBlank(a)
  <2>1. /\ q \in Members /\ Advances(a, q) /\ SameSelects(a, q) /\ Faithful(q)
        /\ q.dot_counter = 5 => InVBlank(q) /\ LookedAt(a, q) /\ "VBlank" \in q.raised
        /\ q.dot_counter # 5
             => /\ BeforeVBlank(q) /\ SameVBlank(a, q)
                /\ q.first_frame_blank = a.first_frame_blank
                /\ LookedAt(a, q) \/ (SameLine(a, q) /\ SameLevel(a, q))
    BY <1>5, BeforeVBlankDot
  <2> HIDE DEF q
  <2>2. Turns(a, q)
    BY <1>5, <2>1 DEF Turns
  <2>3. ~Unseen(q) /\ ~TooEarly(q) /\ ~Unseen(a)
    BY <1>5, <2>1, PlainPlaces
  <2>4. Watched(a, q)
    BY <2>1, <2>3 DEF Watched, SameLevel
  <2> QED
    BY <2>1, <2>2, <2>4 DEF q
<1>6. CASE InVBlank(a)
  <2>1. /\ q \in Members /\ SameSelects(a, q) /\ Faithful(q)
        /\ q.first_frame_blank = a.first_frame_blank /\ SameVBlank(a, q)
        /\ a.dot_counter + 1 < LineDots
             => /\ Advances(a, q) /\ InVBlank(q)
                /\ Looked(a, q) \/ (SameLine(a, q) /\ SameLevel(a, q))
        /\ ~(a.dot_counter + 1 < LineDots)
             => /\ BeamAtNextRow(a, q) /\ a.dot_counter + 1 = a.line_dot_limit
                /\ \/ /\ InScan(q) /\ Unseen(q) /\ SameLine(a, q)
                      /\ LevelOf(q) => LevelOf(a)
                   \/ InVBlank(q) /\ Looked(a, q)
    BY <1>6, VBlankDot
  <2> HIDE DEF q
  <2>2. Turns(a, q)
    BY <1>6, <2>1 DEF Turns
  <2>3. ~Unseen(a)
    BY <1>6, PlainPlaces
  <2>4. InVBlank(q) => ~Unseen(q) /\ ~TooEarly(q)
    BY <2>1, PlainPlaces
  <2>5. Watched(a, q)
    BY <2>1, <2>3, <2>4 DEF Watched, Looked, SameLevel
  <2> QED
    BY <2>1, <2>2, <2>5 DEF q
<1>7. ~IsOff(a)
  BY DEF IsOff
<1> QED
  BY <1>1, <1>2, <1>3, <1>4, <1>5, <1>6, <1>7 DEF Placed

-----------------------------------------------------------------------------
(* The interrupt line at rest, and a written STAT that takes effect. *)

SamePlace(p, q) ==
  /\ SameBeam(p, q) /\ SameShown(p, q) /\ SameModes(p, q) /\ SameDelays(p, q)
  /\ SameScan(p, q) /\ q.ly_for_comparison = p.ly_for_comparison

\* The place in the frame has nothing to do with the selects, LYC and the line.
LEMMA SamePlaces ==
  ASSUME NEW p, NEW q, SamePlace(p, q)
  PROVE  /\ InStartup(p) => InStartup(q)
         /\ InScan(p) => InScan(q)
         /\ InDraw(p) => InDraw(q)
         /\ InHBlank(p) => InHBlank(q)
         /\ BeforeVBlank(p) => BeforeVBlank(q)
         /\ InVBlank(p) => InVBlank(q)
         /\ IsOff(p) /\ q.stat_write_dots_remaining = 0 => IsOff(q)
<1>1. /\ q.on = p.on /\ q.scanline = p.scanline /\ q.line_dot_limit = p.line_dot_limit
      /\ q.startup_line = p.startup_line /\ q.dot_counter = p.dot_counter
      /\ q.ly = p.ly /\ q.blocked = p.blocked /\ q.first_frame_blank = p.first_frame_blank
      /\ q.mode = p.mode /\ q.stat_mode = p.stat_mode
      /\ q.pending_stat_mode = p.pending_stat_mode
  BY DEF SamePlace, SameBeam, SameRow, SameShown, SameModes
<1>2. /\ q.stat_mode_delay = p.stat_mode_delay
      /\ q.oam_mode_interrupt_delay = p.oam_mode_interrupt_delay
      /\ q.oam_mode_interrupt_active = p.oam_mode_interrupt_active
      /\ q.hblank_mode_interrupt_delay = p.hblank_mode_interrupt_delay
      /\ q.hblank_mode_interrupt_active = p.hblank_mode_interrupt_active
      /\ q.oam_scan_index = p.oam_scan_index /\ q.accessed_oam_row = p.accessed_oam_row
      /\ q.drawn = p.drawn /\ q.ly_for_comparison = p.ly_for_comparison
  BY DEF SamePlace, SameDelays, SameScan
<1>3. /\ NoScan(p) => NoScan(q)
      /\ NoOamDelay(p) => NoOamDelay(q)
      /\ InDrawnLine(p) => InDrawnLine(q)
      /\ DrawFrom(q) = DrawFrom(p)
      /\ \A mode : Stands(p, mode) => Stands(q, mode)
  BY <1>1, <1>2 DEF NoScan, NoOamDelay, InDrawnLine, DrawFrom, Stands
<1>4. NoDelay(p) => NoDelay(q)
  BY <1>2, <1>3 DEF NoDelay
<1>5. InBlankLine(p) => InBlankLine(q)
  BY <1>1, <1>2, <1>3 DEF InBlankLine
<1>6. IsOff(p) /\ q.stat_write_dots_remaining = 0 => IsOff(q)
  BY <1>1, <1>2, <1>3, <1>4 DEF IsOff
<1>7. InStartup(p) => InStartup(q)
  BY <1>1, <1>2, <1>3 DEF InStartup
<1>8. InScan(p) => InScan(q)
  BY <1>1, <1>2, <1>3 DEF InScan
<1>9. InDraw(p) => InDraw(q)
  BY <1>1, <1>2, <1>3, <1>4 DEF InDraw
<1>10. InHBlank(p) => InHBlank(q)
  BY <1>1, <1>2, <1>3 DEF InHBlank
<1>11. BeforeVBlank(p) => BeforeVBlank(q)
  BY <1>1, <1>2, <1>3, <1>5 DEF BeforeVBlank
<1>12. InVBlank(p) => InVBlank(q)
  BY <1>1, <1>2, <1>3, <1>5 DEF InVBlank
<1> QED
  BY <1>6, <1>7, <1>8, <1>9, <1>10, <1>11, <1>12

LEMMA PlaceDepends ==
  ASSUME NEW p, NEW q, SamePlace(p, q), Placed(p),
         p.on \/ q.stat_write_dots_remaining = 0
  PROVE  Placed(q)
<1>1. IsOff(p) => q.stat_write_dots_remaining = 0
  BY DEF IsOff
<1> QED
  BY <1>1, SamePlaces DEF Placed

\* What the code takes for the level of the line is the level of its sources,
\* except in one dot of the first line.
LEMMA LevelIsActive ==
  ASSUME NEW p \in Members, Placed(p), p.on, ~TooEarly(p)
  PROVE  StatInterruptActive(p) <=> LevelOf(p)
<1> DEFINE masked == p.startup_line /\ p.stat_mode = "HBlank" /\ p.dot_counter < ScanEnd - 5
           shown == p.startup_line => p.dot_counter >= ScanEnd - 4
<1>1. p.hblank_mode_interrupt_active => (~masked <=> shown)
  <2>1. /\ p.dot_counter \in Int /\ ScanEnd \in Int /\ DrawMin \in Int /\ DrawMin >= 1
    BY PpuAssumption DEF Members, Number, ScanEnd
  <2>2. p.startup_line => p.dot_counter # ScanEnd - 5
    BY DEF TooEarly
  <2>3. CASE InStartup(p)
    <3>1. p.stat_mode = "HBlank"
      BY <2>3 DEF InStartup, Stands
    <3> QED
      BY <2>1, <2>2, <3>1
  <2>4. CASE InHBlank(p)
    <3>1. p.startup_line => p.dot_counter >= ScanEnd - 4 /\ ~(p.dot_counter < ScanEnd - 5)
      BY <2>1, <2>4 DEF InHBlank, DrawFrom
    <3> QED
      BY <3>1
  <2>5. CASE IsOff(p) \/ InScan(p) \/ InDraw(p) \/ BeforeVBlank(p) \/ InVBlank(p)
    <3>1. ~p.hblank_mode_interrupt_active \/ ~p.startup_line
      BY <2>5 DEF IsOff, InScan, InDraw, BeforeVBlank, InVBlank, NoDelay, InBlankLine
    <3> QED
      BY <3>1
  <2> QED
    BY <2>3, <2>4, <2>5 DEF Placed
<1>2. StatInterruptActive(p)
        <=> \/ "lyc" \in p.stat /\ p.coincidence_flag
            \/ "oam" \in p.stat /\ \/ p.mode = "OamScan" /\ p.oam_mode_interrupt_active
                                   \/ p.stat_mode = "VBlank" /\ p.scanline = Visible
            \/ "vblank" \in p.stat /\ p.stat_mode = "VBlank"
            \/ "hblank" \in p.stat /\ p.hblank_mode_interrupt_active /\ ~masked
  BY DEF StatInterruptActive
<1>3. LevelOf(p)
        <=> \/ "lyc" \in p.stat /\ p.coincidence_flag
            \/ "oam" \in p.stat /\ \/ p.mode = "OamScan" /\ p.oam_mode_interrupt_active
                                   \/ p.stat_mode = "VBlank" /\ p.scanline = Visible
            \/ "vblank" \in p.stat /\ p.stat_mode = "VBlank"
            \/ "hblank" \in p.stat /\ p.hblank_mode_interrupt_active /\ shown
  <2>1. p.stat \subseteq {"lyc", "oam", "vblank", "hblank"}
    BY DEF Members, Selects
  <2>2. High(p, "lyc") <=> p.coincidence_flag
    BY DEF High
  <2>3. High(p, "oam") <=> \/ p.mode = "OamScan" /\ p.oam_mode_interrupt_active
                           \/ p.stat_mode = "VBlank" /\ p.scanline = Visible
    BY DEF High
  <2>4. High(p, "vblank") <=> p.stat_mode = "VBlank"
    BY DEF High
  <2>5. High(p, "hblank") <=> p.hblank_mode_interrupt_active /\ shown
    BY DEF High
  <2> HIDE DEF shown
  <2>6. LevelOf(p) <=> \/ "lyc" \in p.stat /\ High(p, "lyc")
                       \/ "oam" \in p.stat /\ High(p, "oam")
                       \/ "vblank" \in p.stat /\ High(p, "vblank")
                       \/ "hblank" \in p.stat /\ High(p, "hblank")
    BY <2>1 DEF LevelOf
  <2> QED
    BY <2>2, <2>3, <2>4, <2>5, <2>6
<1> HIDE DEF masked, shown
<1> QED
  BY <1>1, <1>2, <1>3

\* The rules that every step keeps: a request needs a line that was low, it is not
\* taken back within the step, the line does not rise without it, and no source
\* gets past a low line.
Edge(p, q) ==
  /\ "LCDStat" \in q.raised => "LCDStat" \in p.raised \/ ~p.stat_interrupt_line
  /\ "LCDStat" \in p.raised => "LCDStat" \in q.raised
  /\ q.stat_interrupt_line => p.stat_interrupt_line \/ "LCDStat" \in q.raised
  /\ ~p.stat_interrupt_line /\ LevelOf(q) => "LCDStat" \in q.raised

\* When the PPU looks at the line, they hold and the line is the level.
LEMMA LookingFollows ==
  ASSUME NEW p, NEW q \in Members, LookedAt(p, q), Placed(q), q.on, ~TooEarly(q)
  PROVE  Edge(p, q) /\ q.stat_interrupt_line = LevelOf(q)
<1>1. StatInterruptActive(q) <=> LevelOf(q)
  BY LevelIsActive
<1>2. q.stat_interrupt_line \in BOOLEAN /\ LevelOf(q) \in BOOLEAN
  BY DEF Members, LevelOf
<1>3. q.stat_interrupt_line <=> LevelOf(q)
  BY <1>1 DEF LookedAt
<1>4. q.stat_interrupt_line = LevelOf(q)
  BY <1>2, <1>3
<1>5. Edge(p, q)
  BY <1>1 DEF LookedAt, Edge
<1> QED
  BY <1>4, <1>5

LEMMA DotFollows ==
  ASSUME NEW a \in Members, NEW q \in Members, LineFollows(a), Faithful(q), Watched(a, q),
         SameSelects(a, q), a.stat_write_dots_remaining = 0, Placed(q), q.on
  PROVE  LineFollows(q) /\ Edge(a, q)
<1>1. q.stat_write_dots_remaining = 0
  BY DEF SameSelects
<1>2. CASE LookedAt(a, q) /\ ~Unseen(q) /\ ~TooEarly(q)
  <2>1. Edge(a, q) /\ q.stat_interrupt_line = LevelOf(q)
    BY <1>2, LookingFollows
  <2> QED
    BY <1>1, <2>1 DEF LineFollows, Faithful
<1>3. CASE /\ SameLine(a, q) /\ (LevelOf(q) => LevelOf(a))
           /\ Unseen(q) \/ (~Unseen(a) /\ SameLevel(a, q))
  <2>1. /\ a.stat_interrupt_line \in BOOLEAN /\ q.stat_interrupt_line \in BOOLEAN
        /\ LevelOf(a) \in BOOLEAN /\ LevelOf(q) \in BOOLEAN
    BY DEF Members, LevelOf
  <2>2. a.stat_interrupt_line = LevelOf(a) \/ (Unseen(a) /\ a.stat_interrupt_line)
    BY DEF LineFollows
  <2>3. q.stat_interrupt_line = a.stat_interrupt_line /\ q.raised = a.raised
    BY <1>3 DEF SameLine
  <2>4. q.stat_interrupt_line = LevelOf(q) \/ (Unseen(q) /\ q.stat_interrupt_line)
    BY <1>3, <2>1, <2>2, <2>3 DEF SameLevel
  <2>5. Edge(a, q)
    BY <1>3, <2>1, <2>2, <2>3 DEF Edge
  <2> QED
    BY <1>1, <2>4, <2>5 DEF LineFollows, Faithful
<1> QED
  BY <1>2, <1>3 DEF Watched

\* update_stat_write: the selects of the written value replace the full set.
LEMMA StatWritten ==
  ASSUME NEW p \in Members, Placed(p), p.on, LineFollows(p),
         p.stat_write_dots_remaining = 1 => ~TooEarly(p)
  PROVE  LET a == UpdateStatWrite(p)
         IN /\ a \in Members /\ SamePlace(p, a) /\ a.stat_write_dots_remaining = 0
            /\ a.pending_stat = p.pending_stat /\ a.lyc = p.lyc
            /\ a.coincidence_flag = p.coincidence_flag /\ SameVBlank(p, a)
            /\ LineFollows(a) /\ Edge(p, a)
            /\ p.stat_interrupt_line /\ ~a.stat_interrupt_line
                 => p.stat_write_dots_remaining = 1 /\ p.stat # p.pending_stat
<1> DEFINE c == [p EXCEPT !.stat_write_dots_remaining = 0, !.stat = p.pending_stat]
           a == UpdateStatWrite(p)
<1>1. CASE p.stat_write_dots_remaining = 1
  <2>1. a = UpdateStatInterrupt(c)
    BY <1>1 DEF UpdateStatWrite
  <2>2. c = [p EXCEPT !.stat_write_dots_remaining = 0, !.stat = p.pending_stat]
    OBVIOUS
  <2> HIDE DEF c, a
  <2>3. c \in Members
    <3>1. 0 \in 0 .. 1
      OBVIOUS
    <3> QED
      BY <2>2, <3>1 DEF Members
  <2>4. SameBeam(p, c) /\ SameCompared(p, c) /\ SameShown(p, c) /\ SameModes(p, c)
    BY <2>2 DEF Members, SameBeam, SameRow, SameCompared, SameShown, SameModes
  <2>5. SameDelays(p, c) /\ SameScan(p, c) /\ SameLine(p, c)
    BY <2>2 DEF Members, SameDelays, SameScan, SameLine
  <2>6. /\ c.stat_write_dots_remaining = 0 /\ c.stat = p.pending_stat
        /\ c.pending_stat = p.pending_stat /\ c.lyc = p.lyc
    BY <2>2 DEF Members
  <2>7. /\ a \in Members /\ SameBeam(c, a) /\ SameSelects(c, a) /\ SameCompared(c, a)
        /\ SameShown(c, a) /\ SameModes(c, a) /\ SameDelays(c, a) /\ SameScan(c, a)
        /\ Looked(c, a)
    BY <2>1, <2>3, UpdateFields
  <2>8. SameBeam(p, a) /\ SameCompared(p, a) /\ SameShown(p, a) /\ SameModes(p, a)
    BY <2>4, <2>7 DEF SameBeam, SameRow, SameCompared, SameShown, SameModes
  <2>9. SameDelays(p, a) /\ SameScan(p, a) /\ Looked(p, a)
    BY <2>5, <2>7 DEF SameDelays, SameScan, Looked, LookedAt, SameVBlank, SameLine
  <2>10. SamePlace(p, a)
    BY <2>8, <2>9 DEF SamePlace, SameCompared
  <2>11. Placed(a) /\ a.on /\ ~TooEarly(a)
    BY <1>1, <2>8, <2>10, PlaceDepends DEF SameBeam, SameRow, TooEarly
  <2>12. Edge(p, a) /\ a.stat_interrupt_line = LevelOf(a)
    BY <2>7, <2>9, <2>11, LookingFollows DEF Looked
  <2>13. /\ a.stat_write_dots_remaining = 0 /\ a.stat = p.pending_stat
         /\ a.pending_stat = p.pending_stat /\ a.lyc = p.lyc
    BY <2>6, <2>7 DEF SameSelects
  <2>14. LineFollows(a)
    <3>1. a.coincidence_flag = (a.ly_for_comparison = a.lyc)
      BY <2>8, <2>13 DEF LineFollows, SameCompared
    <3> QED
      BY <2>12, <2>13, <3>1 DEF LineFollows
  <2>15. ASSUME p.stat_interrupt_line, ~a.stat_interrupt_line
         PROVE  p.stat # p.pending_stat
    <3>1. LevelOf(p) /\ ~LevelOf(a)
      BY <1>1, <2>12, <2>15 DEF LineFollows
    <3>2. SUFFICES ASSUME p.stat = p.pending_stat PROVE SameLevel(p, a)
      BY <3>1 DEF SameLevel
    <3>3. a.stat = p.stat /\ a.coincidence_flag = p.coincidence_flag
      BY <2>8, <2>13, <3>2 DEF SameCompared
    <3>4. /\ a.mode = p.mode /\ a.stat_mode = p.stat_mode /\ a.scanline = p.scanline
          /\ a.startup_line = p.startup_line /\ a.dot_counter = p.dot_counter
          /\ a.oam_mode_interrupt_active = p.oam_mode_interrupt_active
          /\ a.hblank_mode_interrupt_active = p.hblank_mode_interrupt_active
      BY <2>8, <2>9 DEF SameModes, SameBeam, SameRow, SameDelays
    <3> QED
      BY <3>3, <3>4, LevelDepends
  <2> QED
    BY <1>1, <2>7, <2>8, <2>9, <2>10, <2>12, <2>13, <2>14, <2>15 DEF a, Looked, SameCompared
<1>2. CASE p.stat_write_dots_remaining # 1
  <2>1. a = p
    BY <1>2 DEF UpdateStatWrite
  <2> HIDE DEF a
  <2>2. a.stat_write_dots_remaining = 0
    BY <1>2, <2>1 DEF Members
  <2>3. SamePlace(p, a) /\ SameVBlank(p, a)
    BY <2>1 DEF SamePlace, SameBeam, SameRow, SameShown, SameModes, SameDelays, SameScan,
                SameVBlank
  <2>4. Edge(p, a)
    <3>1. ~p.stat_interrupt_line => ~LevelOf(p)
      BY DEF LineFollows, LevelOf
    <3> QED
      BY <2>1, <3>1 DEF Edge
  <2> QED
    BY <2>1, <2>2, <2>3, <2>4 DEF a
<1> QED
  BY <1>1, <1>2

\* The interrupt requests of a step, seen from the state before it.
Requests(p, q) ==
  /\ "LCDStat" \in q.raised
       => /\ "LCDStat" \in p.raised \/ ~\E source \in p.stat \intersect q.stat : High(p, source)
          /\ \/ "LCDStat" \in p.raised \/ ~p.stat_interrupt_line
             \/ p.stat_write_dots_remaining = 1 /\ p.stat # p.pending_stat
  /\ ~p.stat_interrupt_line /\ LevelOf(q) => "LCDStat" \in q.raised

\* While a source is high the line is.
LEMMA HighLine ==
  ASSUME NEW p \in Members, LineFollows(p), LevelOf(p)
  PROVE  p.stat_interrupt_line
BY DEF LineFollows, LevelOf

LEMMA EdgeRequests ==
  ASSUME NEW p \in Members, NEW q, LineFollows(p), Edge(p, q)
  PROVE  Requests(p, q)
<1>1. ~p.stat_interrupt_line => ~LevelOf(p)
  BY HighLine
<1>2. ~LevelOf(p) => ~\E source \in p.stat \intersect q.stat : High(p, source)
  BY DEF LevelOf
<1> QED
  BY <1>1, <1>2 DEF Edge, Requests

\* tick_dot, from a state of the invariant.
LEMMA TickFollows ==
  ASSUME NEW p \in Members, Placed(p), p.on, LineFollows(p),
         p.stat_write_dots_remaining = 1 => ~TooEarly(p),
         NEW finished \in BOOLEAN, finished => MayFinish(p), MustFinish(p) => finished
  PROVE  LET q == TickDot(p, finished)
         IN /\ q \in Members /\ Placed(q) /\ q.on /\ LineFollows(q) /\ Turns(p, q)
            /\ q.stat_write_dots_remaining = 0 /\ q.lyc = p.lyc
            /\ Requests(p, q)
<1> DEFINE a == UpdateStatWrite(p)
           q == TickDot(p, finished)
<1>1. /\ a \in Members /\ SamePlace(p, a) /\ a.stat_write_dots_remaining = 0
      /\ a.pending_stat = p.pending_stat /\ a.lyc = p.lyc
      /\ a.coincidence_flag = p.coincidence_flag /\ SameVBlank(p, a)
      /\ LineFollows(a) /\ Edge(p, a)
      /\ p.stat_interrupt_line /\ ~a.stat_interrupt_line
           => p.stat_write_dots_remaining = 1 /\ p.stat # p.pending_stat
  BY StatWritten
<1>2. q = TickOn(a, finished)
  BY TickSplits
<1> HIDE DEF a, q
<1>3. Placed(a)
  BY <1>1, PlaceDepends
<1>4. /\ a.on = p.on /\ a.mode = p.mode /\ a.drawn = p.drawn /\ SameBeam(p, a)
      /\ a.first_frame_blank = p.first_frame_blank
  BY <1>1 DEF SamePlace, SameBeam, SameRow, SameModes, SameScan, SameShown
<1>5. (finished => MayFinish(a)) /\ (MustFinish(a) => finished)
  BY <1>4 DEF MayFinish, MustFinish
<1>6. Faithful(a)
  BY <1>1 DEF LineFollows, Faithful
<1>7. q \in Members /\ SameSelects(a, q) /\ Faithful(q) /\ Turns(a, q) /\ Watched(a, q)
  BY <1>1, <1>2, <1>3, <1>4, <1>5, <1>6, OnDot
<1>8. Placed(q) /\ q.on
  <2>1. Placed(q)
    BY <1>7 DEF Turns, Placed
  <2>2. q.on
    BY <1>4, <1>7 DEF Turns, Advances, SameRow, BeamAtNextRow
  <2> QED
    BY <2>1, <2>2
<1>9. Turns(p, q)
  <2>1. SamePlace(a, p)
    BY <1>1 DEF SamePlace, SameBeam, SameRow, SameShown, SameModes, SameDelays, SameScan
  <2>2. /\ InStartup(a) => InStartup(p)
        /\ InScan(a) => InScan(p)
        /\ InDraw(a) => InDraw(p)
        /\ InHBlank(a) => InHBlank(p)
        /\ BeforeVBlank(a) => BeforeVBlank(p)
        /\ InVBlank(a) => InVBlank(p)
    BY <2>1, SamePlaces
  <2>3. (Advances(a, q) => Advances(p, q)) /\ (BeamAtNextRow(a, q) => BeamAtNextRow(p, q))
    BY <1>4 DEF Advances, BeamAtNextRow, SameBeam, SameRow
  <2>4. a.dot_counter = p.dot_counter /\ a.line_dot_limit = p.line_dot_limit
    BY <1>4 DEF SameBeam, SameRow
  <2>5. SameVBlank(a, q) => SameVBlank(p, q)
    BY <1>1 DEF SameVBlank
  <2> QED
    BY <1>4, <1>7, <2>2, <2>3, <2>4, <2>5 DEF Turns
<1>10. LineFollows(q) /\ Edge(a, q)
  BY <1>1, <1>7, <1>8, DotFollows
<1>11. q.stat_write_dots_remaining = 0 /\ q.lyc = p.lyc /\ q.stat = a.stat
  BY <1>1, <1>7 DEF SameSelects
<1>12. Requests(p, q)
  <2>1. ASSUME "LCDStat" \in q.raised, "LCDStat" \notin p.raised
        PROVE  /\ ~\E source \in p.stat \intersect q.stat : High(p, source)
               /\ \/ ~p.stat_interrupt_line
                  \/ p.stat_write_dots_remaining = 1 /\ p.stat # p.pending_stat
    <3>1. ~p.stat_interrupt_line \/ ~a.stat_interrupt_line
      BY <1>1, <1>10, <2>1 DEF Edge
    <3>2. ~LevelOf(p) \/ ~LevelOf(a)
      BY <1>1, <3>1, HighLine
    <3>3. ASSUME NEW source \in p.stat \intersect q.stat, High(p, source)
          PROVE  FALSE
      <4>1. LevelOf(p)
        BY <3>3 DEF LevelOf
      <4>2. High(a, source)
        BY <1>1, <1>4, <3>3 DEF High, SamePlace, SameModes, SameDelays, SameBeam, SameRow
      <4>3. LevelOf(a)
        BY <1>11, <3>3, <4>2 DEF LevelOf
      <4> QED
        BY <3>2, <4>1, <4>3
    <3> QED
      BY <1>1, <3>1, <3>3
  <2>2. ASSUME ~p.stat_interrupt_line, LevelOf(q)
        PROVE  "LCDStat" \in q.raised
    <3>1. CASE a.stat_interrupt_line
      <4>1. "LCDStat" \in a.raised
        BY <1>1, <2>2, <3>1 DEF Edge
      <4> QED
        BY <1>10, <4>1 DEF Edge
    <3>2. CASE ~a.stat_interrupt_line
      BY <1>10, <2>2, <3>2 DEF Edge
    <3> QED
      BY <3>1, <3>2
  <2> QED
    BY <2>1, <2>2 DEF Requests
<1> QED
  BY <1>7, <1>8, <1>9, <1>10, <1>11, <1>12 DEF q

-----------------------------------------------------------------------------
(* The CPU's side: registers written, the LCD switched, the machine reset. *)

LEMMA QuietFollows ==
  ASSUME NEW p \in Members
  PROVE  LET r == Quiet(p)
         IN /\ r \in Members /\ SamePlace(p, r) /\ SameSelects(p, r)
            /\ r.coincidence_flag = p.coincidence_flag
            /\ r.stat_interrupt_line = p.stat_interrupt_line /\ r.raised = {}
            /\ \A source : High(r, source) <=> High(p, source)
            /\ Placed(p) => Placed(r)
            /\ LineFollows(p) => LineFollows(r)
<1> DEFINE r == Quiet(p)
<1>1. r = [p EXCEPT !.raised = {}]
  BY DEF Quiet
<1> HIDE DEF r
<1>2. r \in Members
  BY <1>1 DEF Members
<1>3. SameBeam(p, r) /\ SameSelects(p, r) /\ SameCompared(p, r) /\ SameShown(p, r)
  BY <1>1 DEF Members, SameBeam, SameRow, SameSelects, SameCompared, SameShown
<1>4. SameModes(p, r) /\ SameDelays(p, r) /\ SameScan(p, r)
  BY <1>1 DEF Members, SameModes, SameDelays, SameScan
<1>5. r.stat_interrupt_line = p.stat_interrupt_line /\ r.raised = {}
  BY <1>1 DEF Members
<1>6. SamePlace(p, r)
  BY <1>3, <1>4 DEF SamePlace, SameCompared
<1>7. ASSUME NEW source
      PROVE  High(r, source) <=> High(p, source)
  BY <1>3, <1>4 DEF High, SameBeam, SameRow, SameModes, SameDelays, SameCompared
<1>8. Placed(p) => Placed(r)
  <2>1. IsOff(p) => r.stat_write_dots_remaining = 0
    BY <1>3 DEF IsOff, SameSelects
  <2> QED
    BY <1>6, <2>1, SamePlaces DEF Placed
<1>9. LineFollows(p) => LineFollows(r)
  <2>1. LevelOf(r) = LevelOf(p)
    BY <1>3, <1>7 DEF LevelOf, SameSelects
  <2>2. Unseen(r) = Unseen(p)
    BY <1>3, <1>4 DEF Unseen, SameBeam, SameModes
  <2>3. /\ r.coincidence_flag = p.coincidence_flag
        /\ r.ly_for_comparison = p.ly_for_comparison /\ r.lyc = p.lyc
        /\ r.stat_write_dots_remaining = p.stat_write_dots_remaining
    BY <1>3 DEF SameCompared, SameSelects
  <2> QED
    BY <1>5, <2>1, <2>2, <2>3 DEF LineFollows
<1> QED
  BY <1>2, <1>3, <1>5, <1>6, <1>7, <1>8, <1>9 DEF r, SameCompared

\* write_cpu_stat.
LEMMA WriteStatFollows ==
  ASSUME NEW p \in Members, Placed(p), p.on => LineFollows(p), ~TooEarly(p),
         NEW selects \in SUBSET Selects
  PROVE  LET q == WriteStat(p, selects)
         IN /\ q \in Members /\ Placed(q) /\ SamePlace(p, q) /\ SameVBlank(p, q)
            /\ p.on => LineFollows(q) /\ Edge(p, q)
            /\ ~p.on => ("LCDStat" \in q.raised <=> "LCDStat" \in p.raised)
<1> DEFINE seen == IF p.on THEN Selects ELSE selects
           delay == IF p.on THEN 1 ELSE 0
           c == [p EXCEPT !.pending_stat = selects, !.stat = seen,
                          !.stat_write_dots_remaining = delay]
           q == WriteStat(p, selects)
<1>1. seen \in SUBSET Selects /\ delay \in 0 .. 1 /\ (~p.on => delay = 0)
  OBVIOUS
<1>2. q = UpdateStatInterrupt(c)
  BY DEF WriteStat
<1>3. c = [p EXCEPT !.pending_stat = selects, !.stat = seen,
                    !.stat_write_dots_remaining = delay]
  OBVIOUS
<1> HIDE DEF seen, delay, c, q
<1>4. c \in Members
  BY <1>1, <1>3 DEF Members
<1>5. SameBeam(p, c) /\ SameCompared(p, c) /\ SameShown(p, c) /\ SameModes(p, c)
  BY <1>3 DEF Members, SameBeam, SameRow, SameCompared, SameShown, SameModes
<1>6. SameDelays(p, c) /\ SameScan(p, c) /\ SameLine(p, c)
  BY <1>3 DEF Members, SameDelays, SameScan, SameLine
<1>7. c.lyc = p.lyc /\ c.stat_write_dots_remaining = delay
  BY <1>3 DEF Members
<1>8. /\ q \in Members /\ SameBeam(c, q) /\ SameSelects(c, q) /\ SameCompared(c, q)
      /\ SameShown(c, q) /\ SameModes(c, q) /\ SameDelays(c, q) /\ SameScan(c, q)
      /\ Looked(c, q)
  BY <1>2, <1>4, UpdateFields
<1>9. SameBeam(p, q) /\ SameCompared(p, q) /\ SameShown(p, q) /\ SameModes(p, q)
  BY <1>5, <1>8 DEF SameBeam, SameRow, SameCompared, SameShown, SameModes
<1>10. SameDelays(p, q) /\ SameScan(p, q) /\ Looked(p, q)
  BY <1>6, <1>8 DEF SameDelays, SameScan, Looked, LookedAt, SameVBlank, SameLine
<1>11. SamePlace(p, q)
  BY <1>9, <1>10 DEF SamePlace, SameCompared
<1>12. q.lyc = p.lyc /\ (~p.on => q.stat_write_dots_remaining = 0)
  BY <1>1, <1>7, <1>8 DEF SameSelects
<1>13. Placed(q)
  BY <1>11, <1>12, PlaceDepends
<1>14. ASSUME p.on
       PROVE  LineFollows(q) /\ Edge(p, q)
  <2>1. q.on /\ ~TooEarly(q)
    BY <1>9, <1>14 DEF SameBeam, SameRow, TooEarly
  <2>2. Edge(p, q) /\ q.stat_interrupt_line = LevelOf(q)
    BY <1>8, <1>10, <1>13, <2>1, LookingFollows DEF Looked
  <2>3. q.coincidence_flag = (q.ly_for_comparison = q.lyc)
    BY <1>9, <1>12, <1>14 DEF LineFollows, SameCompared
  <2> QED
    BY <2>2, <2>3 DEF LineFollows
<1>15. ASSUME ~p.on
       PROVE  "LCDStat" \in q.raised <=> "LCDStat" \in p.raised
  <2>1. ~StatInterruptActive(q)
    BY <1>9, <1>15 DEF StatInterruptActive, SameBeam, SameRow
  <2> QED
    BY <1>10, <2>1 DEF Looked, LookedAt
<1> QED
  BY <1>8, <1>10, <1>11, <1>13, <1>14, <1>15 DEF q, Looked

\* A write of LYC compares it at once when the LCD is on.
LEMMA WriteLycFollows ==
  ASSUME NEW p \in Members, Placed(p), p.on => LineFollows(p), ~TooEarly(p),
         p.stat_write_dots_remaining = 0, NEW value \in LycValues
  PROVE  LET q == WriteLyc(p, value)
         IN /\ q \in Members /\ Placed(q) /\ SamePlace(p, q) /\ SameVBlank(p, q)
            /\ q.stat_write_dots_remaining = 0
            /\ p.on => LineFollows(q) /\ Edge(p, q)
            /\ ~p.on => ("LCDStat" \in q.raised <=> "LCDStat" \in p.raised)
<1> DEFINE c == [p EXCEPT !.lyc = value]
           q == WriteLyc(p, value)
<1>1. q = IF p.on THEN SetLyForComparison(c, c.ly_for_comparison) ELSE c
  <2>1. c.ly_for_comparison = p.ly_for_comparison /\ c.on = p.on
    BY DEF Members
  <2> QED
    BY <2>1 DEF WriteLyc
<1>2. c = [p EXCEPT !.lyc = value]
  OBVIOUS
<1> HIDE DEF c, q
<1>3. c \in Members
  BY <1>2 DEF Members
<1>4. SameBeam(p, c) /\ SameCompared(p, c) /\ SameShown(p, c) /\ SameModes(p, c)
  BY <1>2 DEF Members, SameBeam, SameRow, SameCompared, SameShown, SameModes
<1>5. /\ SameDelays(p, c) /\ SameScan(p, c) /\ SameLine(p, c)
      /\ c.stat_write_dots_remaining = 0
  BY <1>2 DEF Members, SameDelays, SameScan, SameLine
<1>6. SamePlace(p, c)
  BY <1>4, <1>5 DEF SamePlace, SameCompared
<1>7. CASE p.on
  <2>1. c.ly_for_comparison \in Number
    BY <1>3 DEF Members
  <2>2. /\ q \in Members /\ SameBeam(c, q) /\ SameSelects(c, q) /\ SameShown(c, q)
        /\ SameModes(c, q) /\ SameDelays(c, q) /\ SameScan(c, q) /\ Looked(c, q)
        /\ q.ly_for_comparison = c.ly_for_comparison
        /\ q.coincidence_flag = (c.ly_for_comparison = c.lyc)
    BY <1>1, <1>3, <1>7, <2>1, SetLyFields
  <2>3. SameBeam(p, q) /\ SameShown(p, q) /\ SameModes(p, q)
    BY <1>4, <2>2 DEF SameBeam, SameRow, SameShown, SameModes
  <2>4. /\ SameDelays(p, q) /\ SameScan(p, q) /\ Looked(p, q)
        /\ q.ly_for_comparison = p.ly_for_comparison
    BY <1>4, <1>5, <2>2 DEF SameDelays, SameScan, SameCompared, Looked, LookedAt, SameVBlank,
                            SameLine
  <2>5. SamePlace(p, q)
    BY <2>3, <2>4 DEF SamePlace
  <2>6. Placed(q) /\ q.on /\ ~TooEarly(q)
    BY <1>7, <2>3, <2>5, PlaceDepends DEF SameBeam, SameRow, TooEarly
  <2>7. Edge(p, q) /\ q.stat_interrupt_line = LevelOf(q)
    BY <2>2, <2>4, <2>6, LookingFollows DEF Looked
  <2>8. /\ q.coincidence_flag = (q.ly_for_comparison = q.lyc)
        /\ q.stat_write_dots_remaining = 0
    BY <1>5, <2>2 DEF SameSelects
  <2>9. LineFollows(q)
    BY <2>7, <2>8 DEF LineFollows
  <2> QED
    BY <1>7, <2>2, <2>4, <2>5, <2>6, <2>7, <2>8, <2>9 DEF q, Looked
<1>8. CASE ~p.on
  <2>1. q = c
    BY <1>1, <1>8
  <2>2. Placed(q)
    BY <1>5, <1>6, <2>1, PlaceDepends
  <2> QED
    BY <1>3, <1>5, <1>6, <1>8, <2>1, <2>2 DEF q, SameLine, SameVBlank
<1> QED
  BY <1>7, <1>8

\* The scan never looks for an object after the last one.
LEMMA ScanIndex ==
  ASSUME NEW p \in Members, Placed(p)
  PROVE  p.oam_scan_index \in 0 .. ScanEntries
<1>1. CASE InScan(p)
  <2>1. /\ p.dot_counter \in Int /\ p.dot_counter < ScanEnd
        /\ p.oam_scan_index = (IF p.dot_counter < 6 THEN 0 ELSE (p.dot_counter - 4) \div 2)
    BY <1>1 DEF InScan, Members, Number
  <2>2. ScanEntries \in Int /\ ScanEntries >= 4 /\ ScanEnd = 4 + 2 * ScanEntries
    BY PpuAssumption DEF ScanEnd
  <2> QED
    BY <2>1, <2>2
<1>2. CASE ~InScan(p)
  BY <1>2 DEF Placed, IsOff, InStartup, InDraw, InHBlank, BeforeVBlank, InVBlank, InBlankLine,
              NoScan
<1> QED
  BY <1>1, <1>2

LEMMA SwitchOffFollows ==
  ASSUME NEW p \in Members, Placed(p)
  PROVE  LET q == SwitchOff(p)
         IN q \in Members /\ IsOff(q) /\ q.raised = p.raised
<1> DEFINE beam == [p EXCEPT !.on = FALSE, !.ly = 0, !.scanline = 0, !.dot_counter = 0,
                      !.line_dot_limit = LineDots, !.first_frame_blank = TRUE,
                      !.startup_line = FALSE]
           modes == [beam EXCEPT !.stat = p.pending_stat, !.stat_write_dots_remaining = 0,
                      !.ly_for_comparison = 0, !.mode = "HBlank", !.stat_mode = "HBlank",
                      !.pending_stat_mode = "HBlank", !.stat_mode_delay = 0]
           q == SwitchOff(p)
<1>1. q = [modes EXCEPT !.blocked = {}, !.oam_mode_interrupt_delay = 0,
             !.oam_mode_interrupt_active = FALSE, !.hblank_mode_interrupt_delay = 0,
             !.hblank_mode_interrupt_active = FALSE, !.accessed_oam_row = -1, !.drawn = 0]
  BY DEF SwitchOff
<1>2. modes = [beam EXCEPT !.stat = p.pending_stat, !.stat_write_dots_remaining = 0,
                 !.ly_for_comparison = 0, !.mode = "HBlank", !.stat_mode = "HBlank",
                 !.pending_stat_mode = "HBlank", !.stat_mode_delay = 0]
  OBVIOUS
<1>3. beam = [p EXCEPT !.on = FALSE, !.ly = 0, !.scanline = 0, !.dot_counter = 0,
                !.line_dot_limit = LineDots, !.first_frame_blank = TRUE,
                !.startup_line = FALSE]
  OBVIOUS
<1>4. /\ 0 \in Number /\ -1 \in Number /\ LineDots \in Number /\ 0 \in 0 .. 1
      /\ "HBlank" \in Modes /\ p.pending_stat \in SUBSET Selects
  BY PpuAssumption DEF Number, Modes, Members
<1> HIDE DEF beam, modes, q
<1>5. beam \in Members
  BY <1>3, <1>4, ZenonT(60) DEF Members
<1>6. modes \in Members
  BY <1>2, <1>4, <1>5, ZenonT(60) DEF Members
<1>7. q \in Members
  BY <1>1, <1>4, <1>6, ZenonT(60) DEF Members
<1>8. /\ q.on = beam.on /\ q.ly = beam.ly /\ q.scanline = beam.scanline
      /\ q.dot_counter = beam.dot_counter /\ q.line_dot_limit = beam.line_dot_limit
      /\ q.first_frame_blank = beam.first_frame_blank /\ q.startup_line = beam.startup_line
      /\ q.oam_scan_index = beam.oam_scan_index /\ q.raised = beam.raised
  BY <1>1, <1>2, <1>5, <1>6 DEF Members
<1>9. /\ ~q.on /\ q.ly = 0 /\ q.scanline = 0 /\ q.dot_counter = 0
      /\ q.line_dot_limit = LineDots /\ q.first_frame_blank /\ ~q.startup_line
      /\ q.oam_scan_index = p.oam_scan_index /\ q.raised = p.raised
  BY <1>3, <1>8 DEF Members
<1>10. /\ q.mode = modes.mode /\ q.stat_mode = modes.stat_mode
       /\ q.pending_stat_mode = modes.pending_stat_mode
       /\ q.stat_write_dots_remaining = modes.stat_write_dots_remaining
       /\ q.ly_for_comparison = modes.ly_for_comparison
       /\ q.stat_mode_delay = modes.stat_mode_delay
  BY <1>1, <1>6 DEF Members
<1>11. /\ Stands(q, "HBlank") /\ q.stat_write_dots_remaining = 0 /\ q.ly_for_comparison = 0
       /\ q.stat_mode_delay = 0
  BY <1>2, <1>5, <1>10 DEF Members, Stands
<1>12. /\ q.blocked = {} /\ q.accessed_oam_row = -1 /\ q.drawn = 0
       /\ q.oam_mode_interrupt_delay = 0 /\ ~q.oam_mode_interrupt_active
       /\ q.hblank_mode_interrupt_delay = 0 /\ ~q.hblank_mode_interrupt_active
  BY <1>1, <1>6 DEF Members
<1>13. NoDelay(q)
  BY <1>11, <1>12 DEF NoDelay, NoOamDelay
<1>14. NoScan(q)
  BY <1>9, <1>12, ScanIndex DEF NoScan
<1>15. IsOff(q)
  BY <1>9, <1>11, <1>12, <1>13, <1>14 DEF IsOff
<1> QED
  BY <1>7, <1>9, <1>15 DEF q

LEMMA Fresh ==
  FreshPpu \in Members /\ IsOff(FreshPpu) /\ FreshPpu.raised = {}
<1>1. /\ 0 \in Number /\ -1 \in Number /\ LineDots \in Number /\ 0 \in LycValues
      /\ 0 \in 0 .. ScanEntries /\ 0 \in 0 .. 1 /\ "HBlank" \in Modes
  BY PpuAssumption DEF Number, Modes
<1>2. FreshPpu \in Members
  BY <1>1 DEF FreshPpu, Members
<1>3. IsOff(FreshPpu)
  BY <1>1 DEF FreshPpu, IsOff, Stands, NoDelay, NoOamDelay, NoScan
<1> QED
  BY <1>2, <1>3 DEF FreshPpu

\* The LCD goes on: LYC is compared and mode 0 entered, both silently if the line
\* was left high when the LCD went off.
LEMMA SwitchOnFollows ==
  ASSUME NEW p \in Members, IsOff(p)
  PROVE  LET q == SwitchOn(p)
         IN /\ q \in Members /\ InStartup(q) /\ q.dot_counter = 0 /\ LineFollows(q)
            /\ q.stat_write_dots_remaining = 0 /\ SameVBlank(p, q)
            /\ "LCDStat" \in q.raised => "LCDStat" \in p.raised \/ ~p.stat_interrupt_line
<1> DEFINE r == [p EXCEPT !.on = TRUE, !.ly = 0, !.scanline = 0, !.dot_counter = 0,
                          !.line_dot_limit = LineDots - 6, !.first_frame_blank = TRUE,
                          !.startup_line = TRUE]
           c == SetLyForComparison(r, 0)
           s == SetMode(c, "HBlank")
           q == SwitchOn(p)
<1>1. q = SetAccessBlocking(s, FALSE, FALSE)
  BY DEF SwitchOn
<1>2. r = [p EXCEPT !.on = TRUE, !.ly = 0, !.scanline = 0, !.dot_counter = 0,
                    !.line_dot_limit = LineDots - 6, !.first_frame_blank = TRUE,
                    !.startup_line = TRUE]
  OBVIOUS
<1>3. 0 \in Number /\ LineDots - 6 \in Number
  BY PpuAssumption DEF Number
<1> HIDE DEF r, q
<1>4. r \in Members
  BY <1>2, <1>3 DEF Members
<1>5. /\ r.on /\ r.ly = 0 /\ r.scanline = 0 /\ r.dot_counter = 0
      /\ r.line_dot_limit = LineDots - 6 /\ r.first_frame_blank /\ r.startup_line
  BY <1>2 DEF Members
<1>6. SameSelects(p, r) /\ SameModes(p, r) /\ SameDelays(p, r)
  BY <1>2 DEF Members, SameSelects, SameModes, SameDelays
<1>7. SameScan(p, r) /\ SameLine(p, r)
  BY <1>2 DEF Members, SameScan, SameLine
<1>8. /\ c \in Members /\ SameBeam(r, c) /\ SameSelects(r, c) /\ SameShown(r, c)
      /\ SameModes(r, c) /\ SameDelays(r, c) /\ SameScan(r, c) /\ Looked(r, c)
      /\ c.ly_for_comparison = 0 /\ c.coincidence_flag = (0 = r.lyc)
  BY <1>3, <1>4, SetLyFields
<1> HIDE DEF c
<1>9. /\ s \in Members /\ SameBeam(c, s) /\ SameSelects(c, s) /\ SameCompared(c, s)
      /\ SameShown(c, s) /\ SameScan(c, s) /\ Looked(c, s)
      /\ Stands(s, "HBlank") /\ NoOamDelay(s) /\ ~s.hblank_mode_interrupt_active
      /\ s.hblank_mode_interrupt_delay = (IF "HBlank" = "HBlank" THEN 1 ELSE 0)
  BY <1>8, SetModeFields
<1> HIDE DEF s
<1>10. /\ q \in Members /\ SameBeam(s, q) /\ SameSelects(s, q) /\ SameCompared(s, q)
       /\ SameModes(s, q) /\ SameDelays(s, q) /\ SameScan(s, q) /\ SameLine(s, q)
       /\ q.ly = s.ly /\ q.first_frame_blank = s.first_frame_blank /\ q.blocked = {}
  BY <1>1, <1>9, BlockingFields
<1>11. /\ q.on /\ q.scanline = 0 /\ q.dot_counter = 0 /\ q.line_dot_limit = LineDots - 6
       /\ q.startup_line
  BY <1>5, <1>8, <1>9, <1>10 DEF SameBeam, SameRow
<1>12. q.ly = 0 /\ q.first_frame_blank /\ q.ly_for_comparison = 0
  BY <1>5, <1>8, <1>9, <1>10 DEF SameShown, SameCompared
<1>13. /\ Stands(q, "HBlank") /\ NoOamDelay(q) /\ ~q.hblank_mode_interrupt_active
       /\ q.hblank_mode_interrupt_delay = 1
  BY <1>9, <1>10 DEF Stands, NoOamDelay, SameModes, SameDelays
<1>14. NoScan(q) /\ q.drawn = 0 /\ q.stat_write_dots_remaining = 0
  <2>1. NoScan(p) /\ p.drawn = 0 /\ p.stat_write_dots_remaining = 0
    BY DEF IsOff
  <2> QED
    BY <1>6, <1>7, <1>8, <1>9, <1>10, <2>1 DEF NoScan, SameScan, SameSelects
<1>15. InStartup(q)
  <2>1. ScanEnd \in Int /\ ScanEnd >= 12
    BY PpuAssumption DEF ScanEnd
  <2>2. q.hblank_mode_interrupt_active = (q.dot_counter # 0)
    <3>1. q.hblank_mode_interrupt_active = FALSE
      BY <1>10, <1>13 DEF Members
    <3> QED
      BY <1>11, <3>1
  <2>3. q.blocked = (IF q.dot_counter >= ScanEnd - 6 THEN {"oam_write"} ELSE {})
    BY <1>10, <1>11, <2>1
  <2>4. 0 <= q.dot_counter /\ q.dot_counter < ScanEnd - 4
    BY <1>11, <2>1
  <2>5. q.hblank_mode_interrupt_delay = (IF q.dot_counter = 0 THEN 1 ELSE 0)
    BY <1>11, <1>13
  <2> QED
    BY <1>11, <1>12, <1>13, <1>14, <2>2, <2>3, <2>4, <2>5 DEF InStartup
\* Both looks see the same level: only the comparison with LYC can be high.
<1>16. /\ StatInterruptActive(c) <=> "lyc" \in c.stat /\ c.coincidence_flag
       /\ StatInterruptActive(s) <=> "lyc" \in c.stat /\ c.coincidence_flag
  <2>1. /\ c.on /\ c.mode = "HBlank" /\ c.stat_mode = "HBlank"
        /\ ~c.hblank_mode_interrupt_active
    <3>1. Stands(p, "HBlank") /\ ~p.hblank_mode_interrupt_active
      BY DEF IsOff, NoDelay
    <3> QED
      BY <1>5, <1>6, <1>8, <3>1 DEF Stands, SameModes, SameDelays, SameBeam, SameRow
  <2>2. /\ s.on /\ s.mode = "HBlank" /\ s.stat_mode = "HBlank"
        /\ ~s.hblank_mode_interrupt_active
        /\ s.stat = c.stat /\ s.coincidence_flag = c.coincidence_flag
    BY <1>9, <2>1 DEF Stands, SameBeam, SameRow, SameSelects, SameCompared
  <2> QED
    BY <2>1, <2>2 DEF StatInterruptActive
<1>17. StatInterruptActive(q) <=> StatInterruptActive(s)
  <2>1. SameSources(s, q)
    BY <1>10 DEF SameSources, SameSelects, SameCompared, SameModes
  <2> QED
    BY <2>1, ActiveDepends
<1>18. LookedAt(p, q) /\ SameVBlank(p, q)
  BY <1>7, <1>8, <1>9, <1>10, <1>16, <1>17 DEF Looked, LookedAt, SameVBlank, SameLine
<1>19. LineFollows(q)
  <2>1. Placed(q) /\ ~TooEarly(q)
    BY <1>11, <1>15, PpuAssumption DEF Placed, TooEarly, ScanEnd
  <2>2. q.stat_interrupt_line = LevelOf(q)
    BY <1>10, <1>11, <1>18, <2>1, LookingFollows
  <2>3. q.coincidence_flag = (q.ly_for_comparison = q.lyc)
    <3>1. q.lyc = r.lyc
      BY <1>8, <1>9, <1>10 DEF SameSelects
    <3>2. q.coincidence_flag = (0 = r.lyc) /\ q.ly_for_comparison = 0
      BY <1>8, <1>9, <1>10 DEF SameCompared
    <3> QED
      BY <3>1, <3>2
  <2> QED
    BY <2>2, <2>3 DEF LineFollows
<1> QED
  BY <1>10, <1>11, <1>14, <1>15, <1>18, <1>19 DEF q, LookedAt

-----------------------------------------------------------------------------
(* The invariant, step by step. *)

\* The CPU's M-cycles keep clear of the dot in which the code is too early.
LEMMA Aligned ==
  ASSUME NEW p \in Members, NEW cycle \in {0, 4},
         p.startup_line => p.dot_counter % 4 \in {cycle % 4, (cycle + 1) % 4}
  PROVE  ~TooEarly(p)
<1>1. SUFFICES ASSUME p.startup_line, p.dot_counter = ScanEnd - 5
               PROVE  FALSE
  BY DEF TooEarly
<1>2. PICK half \in Int : ScanEntries = 2 * half
  <2>1. ScanEntries \in Int /\ ScanEntries % 2 = 0
    BY PpuAssumption
  <2>2. ScanEntries = 2 * (ScanEntries \div 2) /\ ScanEntries \div 2 \in Int
    BY <2>1
  <2> QED
    BY <2>2
<1>3. p.dot_counter = 4 * half - 1
  BY <1>1, <1>2 DEF ScanEnd
<1>4. p.dot_counter % 4 = 3
  BY <1>2, <1>3
<1>5. p.dot_counter % 4 \in {0, 1}
  <2>1. cycle % 4 = 0 /\ (cycle + 1) % 4 = 1
    OBVIOUS
  <2> QED
    BY <1>1, <2>1
<1> QED
  BY <1>4, <1>5

\* What StatInterruptsAreEdges says of a step, seen from Quiet(ppu).
EdgeStep ==
  /\ "LCDStat" \in ppu'.raised => ppu'.on
  /\ ppu.on /\ ppu'.on => Requests(Quiet(ppu), ppu')
  /\ ~ppu.on /\ "LCDStat" \in ppu'.raised => ~ppu.stat_interrupt_line

LEMMA InitInvariant ==
  ASSUME Init
  PROVE  IInv
<1>1. ppu \in Members /\ IsOff(ppu) /\ dot = 0 /\ accessed = FALSE
  BY Fresh DEF Init
<1>2. ~ppu.on /\ ~ppu.startup_line /\ ppu.stat_write_dots_remaining = 0
  BY <1>1 DEF IsOff
<1>3. Placed(ppu) /\ InStep
  BY <1>1, <1>2 DEF Placed, InStep
<1>4. dot \in 0 .. 4
  BY <1>1
<1>5. accessed \in BOOLEAN
  BY <1>1
<1> QED
  BY <1>1, <1>2, <1>3, <1>4, <1>5 DEF IInv

LEMMA DotStep ==
  ASSUME IInv, Dot
  PROVE  IInv' /\ EdgeStep /\ (ppu.on => Turns(Quiet(ppu), ppu'))
<1> DEFINE r == Quiet(ppu)
<1>1. /\ ppu \in Members /\ dot \in 0 .. 4 /\ accessed \in BOOLEAN /\ Placed(ppu)
      /\ ppu.on => LineFollows(ppu)
      /\ ppu.startup_line => ppu.dot_counter % 4 \in {dot % 4, (dot + 1) % 4}
      /\ ppu.stat_write_dots_remaining = 1 => dot = 0
  BY DEF IInv, InStep
<1>2. dot < 4 /\ dot' = dot + 1 /\ accessed' = accessed
  BY DEF Dot
<1>3. /\ r \in Members /\ SamePlace(ppu, r) /\ SameSelects(ppu, r) /\ r.raised = {}
      /\ Placed(r) /\ (ppu.on => LineFollows(r))
  BY <1>1, QuietFollows
<1>4. /\ r.on = ppu.on /\ r.startup_line = ppu.startup_line
      /\ r.dot_counter = ppu.dot_counter /\ r.mode = ppu.mode /\ r.drawn = ppu.drawn
      /\ r.stat_write_dots_remaining = ppu.stat_write_dots_remaining
  BY <1>3 DEF SamePlace, SameBeam, SameRow, SameModes, SameScan, SameSelects
<1>5. dot' \in 0 .. 4
  BY <1>1, <1>2
<1> HIDE DEF r
<1>6. CASE ppu.on
  <2>1. PICK finished \in BOOLEAN : /\ finished => MayFinish(ppu)
                                    /\ MustFinish(ppu) => finished
                                    /\ ppu' = TickDot(r, finished)
    BY <1>6 DEF Dot, r
  <2>2. (finished => MayFinish(r)) /\ (MustFinish(r) => finished)
    BY <1>4, <2>1 DEF MayFinish, MustFinish
  <2>3. r.stat_write_dots_remaining = 1 => ~TooEarly(r)
    <3>1. SUFFICES ASSUME r.stat_write_dots_remaining = 1 PROVE ~TooEarly(r)
      OBVIOUS
    <3>2. dot \in {0, 4}
      BY <1>1, <1>4, <3>1
    <3>3. r.startup_line => r.dot_counter % 4 \in {dot % 4, (dot + 1) % 4}
      BY <1>1, <1>4
    <3> QED
      BY <1>3, <3>2, <3>3, Aligned
  <2>4. /\ ppu' \in Members /\ Placed(ppu') /\ ppu'.on /\ LineFollows(ppu')
        /\ Turns(r, ppu') /\ ppu'.stat_write_dots_remaining = 0 /\ Requests(r, ppu')
    BY <1>3, <1>4, <1>6, <2>1, <2>2, <2>3, TickFollows
  <2>5. ppu'.startup_line => ppu'.dot_counter % 4 \in {dot' % 4, (dot' + 1) % 4}
    <3>1. SUFFICES ASSUME ppu'.startup_line
                   PROVE  ppu'.dot_counter % 4 \in {dot' % 4, (dot' + 1) % 4}
      OBVIOUS
    <3>2. ppu.startup_line /\ ppu'.dot_counter = ppu.dot_counter + 1
      BY <1>4, <2>4, <3>1 DEF Turns, Advances, SameRow, BeamAtNextRow
    <3>3. ppu.dot_counter \in Int /\ ppu.dot_counter % 4 \in {dot % 4, (dot + 1) % 4}
      BY <1>1, <3>2 DEF Members, Number
    <3>4. dot \in 0 .. 3
      BY <1>1, <1>2
    <3>5. (ppu.dot_counter + 1) % 4 \in {(dot + 1) % 4, (dot + 2) % 4}
      <4>1. \A n \in Int : \A k \in 0 .. 3 : n % 4 = k => (n + 1) % 4 = (k + 1) % 4
        OBVIOUS
      <4>2. dot % 4 \in 0 .. 3 /\ (dot + 1) % 4 \in 0 .. 3
        BY <3>4
      <4>3. ((dot % 4) + 1) % 4 = (dot + 1) % 4 /\ (((dot + 1) % 4) + 1) % 4 = (dot + 2) % 4
        BY <3>4
      <4> QED
        BY <3>3, <4>1, <4>2, <4>3
    <3> QED
      BY <1>2, <3>2, <3>4, <3>5
  <2>6. IInv'
    BY <1>1, <1>2, <1>5, <2>4, <2>5 DEF IInv, InStep
  <2>7. EdgeStep
    BY <1>6, <2>4 DEF EdgeStep, r
  <2> QED
    BY <2>4, <2>6, <2>7 DEF r
<1>7. CASE ~ppu.on
  <2>1. ppu' = r
    BY <1>7 DEF Dot, r
  <2>2. IsOff(ppu)
    BY <1>1, <1>7 DEF Placed, InStartup, InScan, InDraw, InHBlank, InDrawnLine, BeforeVBlank,
                          InVBlank, InBlankLine
  <2>3. ~ppu'.startup_line /\ ppu'.stat_write_dots_remaining = 0 /\ ~ppu'.on
    BY <1>4, <1>7, <2>1, <2>2 DEF IsOff
  <2>4. IInv'
    BY <1>1, <1>2, <1>3, <1>5, <2>1, <2>3 DEF IInv, InStep
  <2> QED
    BY <1>3, <1>7, <2>1, <2>3, <2>4 DEF EdgeStep
<1> QED
  BY <1>6, <1>7

\* An access at the end of the M-cycle that leaves the place in the frame alone.
LEMMA AccessStep ==
  ASSUME IInv, NEW q, dot = 4, dot' = 0, accessed' \in BOOLEAN, ppu' = q,
         q \in Members, Placed(q), SamePlace(Quiet(ppu), q),
         q.on => LineFollows(q) /\ Edge(Quiet(ppu), q),
         ~q.on => "LCDStat" \notin q.raised
  PROVE  IInv' /\ EdgeStep
<1> DEFINE r == Quiet(ppu)
<1>1. /\ r \in Members /\ SamePlace(ppu, r) /\ r.raised = {} /\ (ppu.on => LineFollows(r))
      /\ ppu \in Members
  BY QuietFollows DEF IInv
<1> HIDE DEF r
<1>2. /\ q.on = ppu.on /\ q.startup_line = ppu.startup_line
      /\ q.dot_counter = ppu.dot_counter
  BY <1>1 DEF SamePlace, SameBeam, SameRow, r
<1>3. ppu'.startup_line => ppu'.dot_counter % 4 \in {dot' % 4, (dot' + 1) % 4}
  <2>1. ppu.startup_line => ppu.dot_counter % 4 \in {dot % 4, (dot + 1) % 4}
    BY DEF IInv, InStep
  <2>2. 4 % 4 = 0 /\ (4 + 1) % 4 = 1 /\ 0 % 4 = 0 /\ (0 + 1) % 4 = 1
    OBVIOUS
  <2>3. {dot % 4, (dot + 1) % 4} = {dot' % 4, (dot' + 1) % 4}
    BY <2>2
  <2> QED
    BY <1>2, <2>1, <2>3
<1>4. IInv'
  BY <1>3 DEF IInv, InStep
<1>5. ppu.on => Requests(r, q)
  BY <1>1, <1>2, EdgeRequests DEF r
<1> QED
  BY <1>2, <1>4, <1>5 DEF EdgeStep, r

LEMMA CpuStep ==
  ASSUME IInv, NoAccess \/ (\E selects \in SUBSET Selects : AccessStat(selects))
                        \/ (\E value \in LycValues : AccessLyc(value))
  PROVE  IInv' /\ EdgeStep /\ SamePlace(ppu, ppu') /\ "VBlank" \notin ppu'.raised
<1> DEFINE r == Quiet(ppu)
<1>1. /\ ppu \in Members /\ accessed \in BOOLEAN /\ Placed(ppu)
      /\ ppu.startup_line => ppu.dot_counter % 4 \in {dot % 4, (dot + 1) % 4}
      /\ ppu.stat_write_dots_remaining = 1 => dot = 0
      /\ ppu.on => LineFollows(ppu)
  BY DEF IInv, InStep
<1>2. /\ r \in Members /\ SamePlace(ppu, r) /\ SameSelects(ppu, r) /\ r.raised = {}
      /\ Placed(r) /\ (ppu.on => LineFollows(r))
  BY <1>1, QuietFollows
<1>3. /\ r.on = ppu.on /\ r.startup_line = ppu.startup_line
      /\ r.dot_counter = ppu.dot_counter
      /\ r.stat_write_dots_remaining = ppu.stat_write_dots_remaining
  BY <1>2 DEF SamePlace, SameBeam, SameRow, SameSelects
<1> HIDE DEF r
<1>4. dot = 4 /\ dot' = 0 /\ accessed' \in BOOLEAN
  BY <1>1 DEF NoAccess, AccessStat, AccessLyc, Access
<1>5. ~TooEarly(r)
  BY <1>1, <1>2, <1>3, <1>4, Aligned
<1>6. r.stat_write_dots_remaining = 0
  BY <1>1, <1>2, <1>3, <1>4 DEF Members
<1>7. \A q : SamePlace(r, q) => SamePlace(ppu, q)
  BY <1>2 DEF SamePlace, SameBeam, SameRow, SameShown, SameModes, SameDelays, SameScan
<1>8. \A q : SamePlace(r, q) => q.on = r.on
  BY DEF SamePlace, SameBeam, SameRow
<1>9. CASE NoAccess
  <2>1. ppu' = r
    BY <1>9 DEF NoAccess, r
  <2>2. SamePlace(r, r)
    BY DEF SamePlace, SameBeam, SameRow, SameShown, SameModes, SameDelays, SameScan
  <2>3. r.on => Edge(r, r)
    BY <1>2, <1>3, HighLine DEF Edge
  <2>4. IInv' /\ EdgeStep
    BY <1>2, <1>3, <1>4, <2>1, <2>2, <2>3, AccessStep DEF r
  <2> QED
    BY <1>2, <2>1, <2>4
<1>10. ASSUME NEW selects \in SUBSET Selects, AccessStat(selects)
       PROVE  IInv' /\ EdgeStep /\ SamePlace(ppu, ppu') /\ "VBlank" \notin ppu'.raised
  <2> DEFINE q == WriteStat(r, selects)
  <2>1. ppu' = q
    BY <1>10 DEF AccessStat, Access, r
  <2>2. /\ q \in Members /\ Placed(q) /\ SamePlace(r, q) /\ SameVBlank(r, q)
        /\ r.on => LineFollows(q) /\ Edge(r, q)
        /\ ~r.on => ("LCDStat" \in q.raised <=> "LCDStat" \in r.raised)
    BY <1>2, <1>3, <1>5, WriteStatFollows
  <2> HIDE DEF q
  <2>3. IInv' /\ EdgeStep
    BY <1>2, <1>4, <1>8, <2>1, <2>2, AccessStep DEF r
  <2> QED
    BY <1>2, <1>7, <2>1, <2>2, <2>3 DEF SameVBlank
<1>11. ASSUME NEW value \in LycValues, AccessLyc(value)
       PROVE  IInv' /\ EdgeStep /\ SamePlace(ppu, ppu') /\ "VBlank" \notin ppu'.raised
  <2> DEFINE q == WriteLyc(r, value)
  <2>1. ppu' = q
    BY <1>11 DEF AccessLyc, Access, r
  <2>2. /\ q \in Members /\ Placed(q) /\ SamePlace(r, q) /\ SameVBlank(r, q)
        /\ r.on => LineFollows(q) /\ Edge(r, q)
        /\ ~r.on => ("LCDStat" \in q.raised <=> "LCDStat" \in r.raised)
    BY <1>2, <1>3, <1>5, <1>6, WriteLycFollows
  <2> HIDE DEF q
  <2>3. IInv' /\ EdgeStep
    BY <1>2, <1>4, <1>8, <2>1, <2>2, AccessStep DEF r
  <2> QED
    BY <1>2, <1>7, <2>1, <2>2, <2>3 DEF SameVBlank
<1> QED
  BY <1>9, <1>10, <1>11

LEMMA LcdOffStep ==
  ASSUME IInv, LcdOff \/ Reset
  PROVE  IInv' /\ EdgeStep /\ IsOff(ppu') /\ "VBlank" \notin ppu'.raised
<1> DEFINE r == Quiet(ppu)
<1>1. r \in Members /\ Placed(r) /\ r.raised = {}
  BY QuietFollows DEF IInv
<1> HIDE DEF r
<1>2. dot' \in 0 .. 4 /\ accessed' \in BOOLEAN
  <2>1. dot \in 0 .. 4 /\ accessed \in BOOLEAN
    BY DEF IInv
  <2>2. dot' = dot \/ dot' = 0
    BY DEF LcdOff, Lcdc, Reset
  <2>3. accessed' = accessed \/ accessed' = TRUE
    BY DEF LcdOff, Lcdc, Reset
  <2>4. dot' \in 0 .. 4
    BY <2>1, <2>2
  <2> QED
    BY <2>1, <2>3, <2>4
<1>3. ppu' \in Members /\ IsOff(ppu') /\ ppu'.raised = {}
  <2>1. CASE LcdOff
    BY <1>1, <2>1, SwitchOffFollows DEF LcdOff, Lcdc, r
  <2>2. CASE Reset
    BY <2>2, Fresh DEF Reset
  <2> QED
    BY <2>1, <2>2
<1>4. ~ppu'.on /\ ~ppu'.startup_line /\ ppu'.stat_write_dots_remaining = 0
  BY <1>3 DEF IsOff
<1>5. IInv'
  BY <1>2, <1>3, <1>4 DEF IInv, InStep, Placed
<1> QED
  BY <1>3, <1>4, <1>5 DEF EdgeStep

LEMMA LcdOnStep ==
  ASSUME IInv, LcdOn
  PROVE  /\ IInv' /\ EdgeStep /\ IsOff(ppu) /\ InStartup(ppu') /\ ppu'.dot_counter = 0
         /\ "VBlank" \notin ppu'.raised
<1> DEFINE r == Quiet(ppu)
<1>1. /\ r \in Members /\ Placed(r) /\ r.raised = {} /\ SamePlace(ppu, r)
      /\ SameSelects(ppu, r) /\ r.stat_interrupt_line = ppu.stat_interrupt_line
  BY QuietFollows DEF IInv
<1> HIDE DEF r
<1>2. dot \in {3, 4} /\ dot' \in {0, 3} /\ accessed' \in BOOLEAN
  BY DEF IInv, LcdOn, Lcdc
<1>3. ~ppu.on
  BY DEF LcdOn
<1>4. IsOff(ppu)
  BY <1>3 DEF IInv, Placed, InStartup, InScan, InDraw, InHBlank, InDrawnLine, BeforeVBlank,
              InVBlank, InBlankLine
<1>5. IsOff(r)
  <2>1. r.stat_write_dots_remaining = 0
    BY <1>1, <1>4 DEF IsOff, SameSelects
  <2> QED
    BY <1>1, <1>4, <2>1, SamePlaces
<1>6. /\ ppu' \in Members /\ InStartup(ppu') /\ ppu'.dot_counter = 0 /\ LineFollows(ppu')
      /\ ppu'.stat_write_dots_remaining = 0 /\ SameVBlank(r, ppu')
      /\ "LCDStat" \in ppu'.raised => "LCDStat" \in r.raised \/ ~r.stat_interrupt_line
  BY <1>1, <1>5, SwitchOnFollows DEF LcdOn, Lcdc, r
<1>7. ppu'.dot_counter % 4 \in {dot' % 4, (dot' + 1) % 4}
  <2>1. 0 % 4 = 0 /\ (3 + 1) % 4 = 0
    OBVIOUS
  <2> QED
    BY <1>2, <1>6, <2>1
<1>8. IInv'
  <2>1. dot' \in 0 .. 4
    BY <1>2
  <2> QED
    BY <1>2, <1>6, <1>7, <2>1 DEF IInv, InStep, Placed
<1>9. ppu'.on
  BY <1>6 DEF InStartup
<1> QED
  BY <1>1, <1>3, <1>4, <1>6, <1>8, <1>9 DEF EdgeStep, SameVBlank

LEMMA NextInvariant ==
  ASSUME IInv, Next
  PROVE  IInv' /\ EdgeStep
BY DotStep, CpuStep, LcdOffStep, LcdOnStep DEF Next

\* The inductive invariant holds in every reachable state.
THEOREM Invariance == Spec => []IInv
<1>1. IInv /\ [Next]_vars => IInv'
  <2>1. CASE UNCHANGED vars
    BY <2>1 DEF vars, IInv, InStep
  <2> QED
    BY <2>1, NextInvariant
<1> QED
  BY <1>1, InitInvariant, PTL DEF Spec

-----------------------------------------------------------------------------
(* What the invariant says in the terms of Ppu: ranges, the timetable, the level. *)

LEMMA Ranges ==
  ASSUME NEW p \in Members, Placed(p)
  PROVE  /\ p.ly \in 0 .. Lines - 1 /\ p.ly_for_comparison \in -1 .. Lines - 1
         /\ p.scanline \in 0 .. Lines - 1 /\ p.dot_counter \in 0 .. LineDots - 1
         /\ p.line_dot_limit \in {LineDots, LineDots - 6}
         /\ p.dot_counter < p.line_dot_limit
         /\ p.stat_mode_delay \in Delay /\ p.oam_mode_interrupt_delay \in Delay
         /\ p.hblank_mode_interrupt_delay \in Delay
         /\ p.accessed_oam_row \in -1 .. ScanEntries \div 2
         /\ p.drawn \in 0 .. DrawMax
<1>1. /\ Visible \in Int /\ Visible >= 2 /\ Lines \in Int /\ Lines >= Visible + 2
      /\ LineDots \in Int /\ LineDots >= 16 /\ ScanEntries \in Int /\ ScanEntries >= 4
      /\ ScanEnd = 4 + 2 * ScanEntries /\ DrawMin \in Int /\ DrawMin >= 1
      /\ DrawMax \in Int /\ DrawMax >= DrawMin /\ ScanEnd + DrawMax < LineDots - 3
  BY PpuAssumption DEF ScanEnd
<1>2. /\ p.dot_counter \in Int /\ p.scanline \in Int /\ p.ly \in Int /\ p.drawn \in Int
      /\ p.ly_for_comparison \in Int /\ p.line_dot_limit \in Int
      /\ p.accessed_oam_row \in Int
  BY DEF Members, Number
<1>3. CASE IsOff(p)
  BY <1>1, <1>2, <1>3 DEF IsOff, NoDelay, NoOamDelay, NoScan, Delay
<1>4. CASE InStartup(p)
  BY <1>1, <1>2, <1>4 DEF InStartup, NoOamDelay, NoScan, Delay
<1>5. CASE InScan(p)
  <2>1. /\ 0 <= p.scanline /\ p.scanline < Visible /\ p.line_dot_limit = LineDots
        /\ 0 <= p.dot_counter /\ p.dot_counter < ScanEnd /\ p.drawn = 0
        /\ p.hblank_mode_interrupt_delay = 0
    BY <1>5 DEF InScan, InDrawnLine
  <2>2. /\ p.ly = p.scanline \/ (p.scanline > 0 /\ p.ly = p.scanline - 1)
        /\ \/ p.ly_for_comparison \in {-1, p.scanline}
           \/ p.scanline > 0 /\ p.ly_for_comparison = p.scanline - 1
    BY <1>2, <1>5, <2>1 DEF InScan
  <2>3. /\ p.stat_mode_delay \in 0 .. 4
        /\ p.oam_mode_interrupt_delay \in 0 .. 4
    <3>1. p.stat_mode_delay = (IF p.dot_counter < 4 THEN 4 - p.dot_counter ELSE 0)
      BY <1>5 DEF InScan
    <3>2. LET early == IF p.scanline = 0 THEN 4 ELSE 3 IN
          p.oam_mode_interrupt_delay = (IF p.dot_counter < early THEN early - p.dot_counter ELSE 0)
      BY <1>5 DEF InScan
    <3> QED
      BY <1>2, <2>1, <3>1, <3>2
  <2>4. p.accessed_oam_row \in -1 .. ScanEntries \div 2
    <3>1. p.accessed_oam_row
            = (IF p.dot_counter < 6 THEN 0 ELSE ((p.dot_counter - 6) \div 4) + 1)
      BY <1>5 DEF InScan
    <3> QED
      BY <1>1, <1>2, <2>1, <3>1
  <2> QED
    BY <1>1, <1>2, <2>1, <2>2, <2>3, <2>4 DEF Delay
<1>6. CASE InDraw(p)
  BY <1>1, <1>2, <1>6 DEF InDraw, InDrawnLine, DrawFrom, NoDelay, NoOamDelay, NoScan, Delay
<1>7. CASE InHBlank(p)
  BY <1>1, <1>2, <1>7 DEF InHBlank, InDrawnLine, DrawFrom, NoOamDelay, NoScan, Delay
<1>8. CASE BeforeVBlank(p)
  BY <1>1, <1>2, <1>8 DEF BeforeVBlank, InBlankLine, NoOamDelay, NoScan, Delay
<1>9. CASE InVBlank(p)
  BY <1>1, <1>2, <1>9 DEF InVBlank, InBlankLine, NoOamDelay, NoScan, Delay
<1> QED
  BY <1>3, <1>4, <1>5, <1>6, <1>7, <1>8, <1>9 DEF Placed

LEMMA InvariantTypes == IInv => TypeOK
<1> SUFFICES ASSUME IInv PROVE TypeOK
  OBVIOUS
<1>1. ppu \in Members /\ Placed(ppu) /\ dot \in 0 .. 4 /\ accessed \in BOOLEAN
  BY DEF IInv
<1> DEFINE lys == 0 .. Lines - 1
           compared == -1 .. Lines - 1
           counters == 0 .. LineDots - 1
           rows == -1 .. ScanEntries \div 2
           columns == 0 .. DrawMax
           indices == 0 .. ScanEntries
<1>2. /\ ppu.ly \in lys /\ ppu.ly_for_comparison \in compared /\ ppu.scanline \in lys
      /\ ppu.dot_counter \in counters /\ ppu.line_dot_limit \in {LineDots, LineDots - 6}
      /\ ppu.dot_counter < ppu.line_dot_limit
      /\ ppu.stat_mode_delay \in Delay /\ ppu.oam_mode_interrupt_delay \in Delay
      /\ ppu.hblank_mode_interrupt_delay \in Delay /\ ppu.accessed_oam_row \in rows
      /\ ppu.drawn \in columns /\ ppu.oam_scan_index \in indices
  BY <1>1, Ranges, ScanIndex
<1>3. ppu \in PpuState
  <2> DEFINE limits == {LineDots, LineDots - 6}
  <2>1. PpuState =
          [ on : BOOLEAN, stat : SUBSET Selects, pending_stat : SUBSET Selects,
            stat_write_dots_remaining : 0 .. 1, lyc : LycValues, ly : lys,
            ly_for_comparison : compared, coincidence_flag : BOOLEAN,
            scanline : lys, dot_counter : counters, line_dot_limit : limits,
            startup_line : BOOLEAN, first_frame_blank : BOOLEAN,
            mode : Modes, stat_mode : Modes, pending_stat_mode : Modes,
            stat_mode_delay : Delay, oam_mode_interrupt_delay : Delay,
            oam_mode_interrupt_active : BOOLEAN, hblank_mode_interrupt_delay : Delay,
            hblank_mode_interrupt_active : BOOLEAN, blocked : SUBSET Ports,
            oam_scan_index : indices, accessed_oam_row : rows,
            drawn : columns, stat_interrupt_line : BOOLEAN,
            raised : SUBSET {"LCDStat", "VBlank"} ]
    BY DEF PpuState
  <2>2. ppu.line_dot_limit \in limits
    BY <1>2
  <2> HIDE DEF lys, compared, counters, rows, columns, indices, limits
  <2> QED
    BY <1>1, <1>2, <2>1, <2>2 DEF Members
<1> QED
  BY <1>1, <1>2, <1>3 DEF TypeOK

\* The phase of the timetable, as Table substitutes it.
PhaseOf(p) ==
  CASE ~p.on -> "off"
    [] p.mode = "OamScan" -> "scan"
    [] p.mode = "Drawing" -> "draw"
    [] p.mode = "VBlank" -> "vblank"
    [] OTHER -> IF p.startup_line /\ p.dot_counter < ScanEnd - 4
                THEN "startup" ELSE "hblank"

Phase == PhaseOf(ppu)

LEMMA PhaseOfPlace ==
  ASSUME NEW p \in Members
  PROVE  /\ IsOff(p) => PhaseOf(p) = "off"
         /\ InStartup(p) => PhaseOf(p) = "startup"
         /\ InScan(p) => PhaseOf(p) = "scan"
         /\ InDraw(p) => PhaseOf(p) = "draw"
         /\ InHBlank(p) => PhaseOf(p) = "hblank"
         /\ BeforeVBlank(p) => PhaseOf(p) = "hblank"
         /\ InVBlank(p) => PhaseOf(p) = "vblank"
<1>1. IsOff(p) => PhaseOf(p) = "off"
  BY DEF IsOff, Stands, PhaseOf
<1>2. InStartup(p) => PhaseOf(p) = "startup"
  BY DEF InStartup, Stands, PhaseOf
<1>3. InScan(p) => PhaseOf(p) = "scan"
  BY DEF InScan, InDrawnLine, PhaseOf
<1>4. InDraw(p) => PhaseOf(p) = "draw"
  BY DEF InDraw, InDrawnLine, Stands, PhaseOf
<1>5. InHBlank(p) => PhaseOf(p) = "hblank"
  <2>1. SUFFICES ASSUME InHBlank(p), p.startup_line
                 PROVE  ~(p.dot_counter < ScanEnd - 4)
    BY DEF InHBlank, InDrawnLine, Stands, PhaseOf
  <2>2. /\ p.dot_counter \in Int /\ ScanEnd \in Int /\ DrawMin \in Int /\ DrawMin >= 1
    BY PpuAssumption DEF Members, Number, ScanEnd
  <2> QED
    BY <2>1, <2>2 DEF InHBlank, DrawFrom
<1>6. BeforeVBlank(p) => PhaseOf(p) = "hblank"
  BY DEF BeforeVBlank, InBlankLine, Stands, PhaseOf
<1>7. InVBlank(p) => PhaseOf(p) = "vblank"
  BY DEF InVBlank, InBlankLine, Stands, PhaseOf
<1> QED
  BY <1>1, <1>2, <1>3, <1>4, <1>5, <1>6, <1>7

\* The numbers of a frame, for the solver.
LEMMA FrameNumbers ==
  /\ Visible \in Int /\ Visible >= 2 /\ Lines \in Int /\ Lines >= Visible + 2
  /\ LineDots \in Int /\ LineDots >= 16 /\ ScanEntries \in Int /\ ScanEntries >= 4
  /\ ScanEnd \in Int /\ ScanEnd = 4 + 2 * ScanEntries /\ Table!ScanEnd = ScanEnd
  /\ DrawMin \in Int /\ DrawMin >= 1 /\ DrawMax \in Int /\ DrawMax >= DrawMin
  /\ ScanEnd + DrawMax < LineDots - 3
BY PpuAssumption DEF ScanEnd, Table!ScanEnd

LEMMA SeenLY ==
  ASSUME ppu \in Members, Placed(ppu)
  PROVE  ppu.ly = Table!LY
<1> DEFINE n == ppu.scanline
           d == ppu.dot_counter
<1>1. n \in Int /\ d \in Int /\ ppu.drawn \in Int
  BY DEF Members, Number
<1>2. /\ n < Visible => Table!LY = IF d < 3 /\ n > 0 THEN n - 1 ELSE n
      /\ ~(n < Visible) => Table!LY = IF d < 2 THEN n - 1
                                      ELSE IF n = Lines - 1 /\ d >= 8 THEN 0 ELSE n
  BY DEF Table!LY
<1>3. CASE IsOff(ppu) \/ InStartup(ppu)
  <2>1. n = 0 /\ ppu.ly = 0
    BY <1>3 DEF IsOff, InStartup
  <2> QED
    BY <1>1, <1>2, <2>1, FrameNumbers
<1>4. CASE InScan(ppu)
  BY <1>2, <1>4 DEF InScan, InDrawnLine
<1>5. CASE InDraw(ppu)
  <2>1. n < Visible /\ ppu.ly = n /\ d >= 3
    BY <1>1, <1>5, FrameNumbers DEF InDraw, InDrawnLine, DrawFrom
  <2> QED
    BY <1>1, <1>2, <2>1
<1>6. CASE InHBlank(ppu)
  <2>1. n < Visible /\ ppu.ly = n /\ d >= 3
    BY <1>1, <1>6, FrameNumbers DEF InHBlank, InDrawnLine, DrawFrom
  <2> QED
    BY <1>1, <1>2, <2>1
<1>7. CASE BeforeVBlank(ppu)
  BY <1>1, <1>2, <1>7, FrameNumbers DEF BeforeVBlank
<1>8. CASE InVBlank(ppu)
  BY <1>1, <1>2, <1>8, FrameNumbers DEF InVBlank
<1> QED
  BY <1>3, <1>4, <1>5, <1>6, <1>7, <1>8 DEF Placed

LEMMA SeenCompared ==
  ASSUME ppu \in Members, Placed(ppu)
  PROVE  ppu.ly_for_comparison = Table!Compared
<1> DEFINE n == ppu.scanline
           d == ppu.dot_counter
           c == ppu.ly_for_comparison
<1>1. n \in Int /\ d \in Int /\ ppu.drawn \in Int
  BY DEF Members, Number
<1>2. /\ n = 0 => Table!Compared = 0
      /\ 0 < n /\ n < Visible
           => Table!Compared = IF d < 3 THEN n - 1 ELSE IF d = 3 THEN -1 ELSE n
      /\ Visible <= n
           => Table!Compared = IF n = Lines - 1 /\ d >= 8 THEN IF d < 12 THEN -1 ELSE 0
                               ELSE IF d < 4 THEN -1 ELSE n
  BY <1>1, FrameNumbers DEF Table!Compared
<1>3. CASE IsOff(ppu) \/ InStartup(ppu)
  BY <1>2, <1>3 DEF IsOff, InStartup
<1>4. CASE InScan(ppu)
  <2>1. 0 <= n /\ n < Visible
    BY <1>4 DEF InScan, InDrawnLine
  <2>2. c = (IF n = 0 THEN 0 ELSE IF d < 3 THEN n - 1 ELSE IF d = 3 THEN -1 ELSE n)
    BY <1>4 DEF InScan
  <2> QED
    BY <1>1, <1>2, <2>1, <2>2
<1>5. CASE InDraw(ppu)
  <2>1. 0 <= n /\ n < Visible /\ c = n /\ d >= 4
    BY <1>1, <1>5, FrameNumbers DEF InDraw, InDrawnLine, DrawFrom
  <2> QED
    BY <1>1, <1>2, <2>1
<1>6. CASE InHBlank(ppu)
  <2>1. 0 <= n /\ n < Visible /\ c = n /\ d >= 4
    BY <1>1, <1>6, FrameNumbers DEF InHBlank, InDrawnLine, DrawFrom
  <2> QED
    BY <1>1, <1>2, <2>1
<1>7. CASE BeforeVBlank(ppu)
  <2>1. n = Visible /\ d < 5 /\ c = (IF d < 4 THEN -1 ELSE Visible)
    BY <1>7 DEF BeforeVBlank
  <2> QED
    BY <1>1, <1>2, <2>1, FrameNumbers
<1>8. CASE InVBlank(ppu)
  <2>1. /\ Visible <= n
        /\ LET wraps == n = Lines - 1 /\ d >= 8 IN
           c = (IF d < 4 THEN -1 ELSE IF wraps THEN IF d < 12 THEN -1 ELSE 0 ELSE n)
    BY <1>8 DEF InVBlank
  <2> QED
    BY <1>1, <1>2, <2>1
<1> QED
  BY <1>3, <1>4, <1>5, <1>6, <1>7, <1>8 DEF Placed

\* The definitions of the table that look at the phase.
LEMMA TableByPhase ==
  /\ Phase = "scan" => Table!Mode = CASE ppu.dot_counter >= 4 -> "OamScan"
                                      [] ppu.scanline = 0 /\ ppu.dot_counter < 3 -> "VBlank"
                                      [] OTHER -> "HBlank"
  /\ Phase = "draw" => Table!Mode = "Drawing"
  /\ Phase = "vblank" => Table!Mode = "VBlank"
  /\ Phase \in {"off", "startup", "hblank"} => Table!Mode = "HBlank"
  /\ Phase = "draw" => Table!Blocked = Ports
  /\ Phase = "scan" =>
       Table!Blocked
         = (IF ppu.dot_counter >= 3 THEN {"oam_read"} ELSE {})
             \union (IF 4 <= ppu.dot_counter /\ ppu.dot_counter < ScanEnd - 4
                     THEN {"oam_write"} ELSE {})
             \union (IF ppu.dot_counter >= ScanEnd - 4 THEN {"vram_read"} ELSE {})
  /\ Phase = "startup" =>
       Table!Blocked = IF ppu.dot_counter >= ScanEnd - 6 THEN {"oam_write"} ELSE {}
  /\ Phase \in {"off", "vblank", "hblank"} => Table!Blocked = {}
<1>1. Table!Mode = CASE Phase = "scan" -> CASE ppu.dot_counter >= 4 -> "OamScan"
                                            [] ppu.scanline = 0 /\ ppu.dot_counter < 3 -> "VBlank"
                                            [] OTHER -> "HBlank"
                     [] Phase = "draw" -> "Drawing"
                     [] Phase = "vblank" -> "VBlank"
                     [] OTHER -> "HBlank"
  BY DEF Table!Mode, Phase, PhaseOf
<1>2. Table!Blocked
        = CASE Phase = "draw" -> {"vram_read", "vram_write", "oam_read", "oam_write"}
            [] Phase = "scan" ->
                 (IF ppu.dot_counter >= 3 THEN {"oam_read"} ELSE {})
                   \union (IF 4 <= ppu.dot_counter /\ ppu.dot_counter < ScanEnd - 4
                           THEN {"oam_write"} ELSE {})
                   \union (IF ppu.dot_counter >= ScanEnd - 4 THEN {"vram_read"} ELSE {})
            [] Phase = "startup" ->
                 IF ppu.dot_counter >= ScanEnd - 6 THEN {"oam_write"} ELSE {}
            [] OTHER -> {}
  BY FrameNumbers DEF Table!Blocked, Phase, PhaseOf
<1> QED
  BY <1>1, <1>2 DEF Ports

LEMMA SeenModeAndBlocked ==
  ASSUME ppu \in Members, Placed(ppu)
  PROVE  ppu.stat_mode = Table!Mode /\ ppu.blocked = Table!Blocked
<1>1. ppu.dot_counter \in Int
  BY DEF Members, Number
<1>2. CASE IsOff(ppu)
  BY <1>2, PhaseOfPlace, TableByPhase DEF Phase, IsOff, Stands
<1>3. CASE InStartup(ppu)
  BY <1>3, PhaseOfPlace, TableByPhase DEF Phase, InStartup, Stands
<1>4. CASE InScan(ppu)
  <2>1. Phase = "scan"
    BY <1>4, PhaseOfPlace DEF Phase
  <2>2. ppu.blocked = Table!Blocked
    BY <1>4, <2>1, TableByPhase DEF InScan
  <2>3. ppu.stat_mode = (IF ppu.dot_counter >= 4 THEN "OamScan"
                         ELSE IF ppu.scanline = 0 /\ ppu.dot_counter < 3
                              THEN "VBlank" ELSE "HBlank")
    BY <1>4 DEF InScan
  <2>4. Table!Mode = CASE ppu.dot_counter >= 4 -> "OamScan"
                       [] ppu.scanline = 0 /\ ppu.dot_counter < 3 -> "VBlank"
                       [] OTHER -> "HBlank"
    BY <2>1, TableByPhase
  <2> QED
    BY <1>1, <2>2, <2>3, <2>4
<1>5. CASE InDraw(ppu)
  BY <1>5, PhaseOfPlace, TableByPhase DEF Phase, InDraw, Stands
<1>6. CASE InHBlank(ppu)
  BY <1>6, PhaseOfPlace, TableByPhase DEF Phase, InHBlank, Stands
<1>7. CASE BeforeVBlank(ppu)
  BY <1>7, PhaseOfPlace, TableByPhase DEF Phase, BeforeVBlank, InBlankLine, Stands
<1>8. CASE InVBlank(ppu)
  BY <1>8, PhaseOfPlace, TableByPhase DEF Phase, InVBlank, InBlankLine, Stands
<1> QED
  BY <1>2, <1>3, <1>4, <1>5, <1>6, <1>7, <1>8 DEF Placed

\* The row of the last entry that the scan has begun.
RowAt(d) == ((d - 6) \div 4) + 1

LEMMA TableCorrupted ==
  ASSUME NEW port
  PROVE  Table!Corrupted(port)
           = IF /\ Phase = "scan" /\ port \in Table!Blocked
                /\ ppu.dot_counter >= 6 /\ RowAt(ppu.dot_counter) < ScanEntries \div 2
             THEN RowAt(ppu.dot_counter) ELSE -1
BY DEF Table!Corrupted, Phase, PhaseOf, RowAt

LEMMA SeenCorrupted ==
  ASSUME ppu \in Members, Placed(ppu), NEW port
  PROVE  CorruptedRow(ppu, port) = Table!Corrupted(port)
<1> DEFINE d == ppu.dot_counter
           row == ppu.accessed_oam_row
           corrupts == 1 <= row /\ row < ScanEntries \div 2
           lies == d >= 6 /\ RowAt(d) < ScanEntries \div 2
<1>1. ppu.blocked = Table!Blocked
  BY SeenModeAndBlocked
<1>2. CorruptedRow(ppu, port)
        = IF ppu.on /\ ppu.mode = "OamScan" /\ port \in ppu.blocked /\ corrupts
          THEN row ELSE -1
  BY DEF CorruptedRow
<1>3. Table!Corrupted(port)
        = IF Phase = "scan" /\ port \in ppu.blocked /\ lies THEN RowAt(d) ELSE -1
  BY <1>1, TableCorrupted
<1>4. CASE InScan(ppu)
  <2>1. ppu.on /\ ppu.mode = "OamScan" /\ Phase = "scan"
    BY <1>4, PhaseOfPlace DEF Phase, InScan, InDrawnLine
  <2>2. row = (IF d < 6 THEN 0 ELSE RowAt(d))
    BY <1>4 DEF InScan, RowAt
  <2>3. d >= 6 => RowAt(d) \in Int /\ RowAt(d) >= 1
    BY DEF Members, Number, RowAt
  <2>4. corrupts <=> lies
    <3>1. d \in Int /\ ScanEntries \div 2 \in Int
      BY FrameNumbers DEF Members, Number
    <3> QED
      BY <2>2, <2>3, <3>1
  <2>5. lies => row = RowAt(d)
    BY <2>2 DEF Members, Number
  <2> HIDE DEF corrupts, lies, row
  <2> QED
    BY <1>2, <1>3, <2>1, <2>4, <2>5
<1>5. CASE ~InScan(ppu)
  <2>1. Phase # "scan" /\ ~(ppu.on /\ ppu.mode = "OamScan")
    BY <1>5, PhaseOfPlace DEF Phase, Placed, IsOff, InStartup, InDraw, InHBlank, BeforeVBlank,
                              InVBlank, Stands
  <2> HIDE DEF corrupts, lies
  <2> QED
    BY <1>2, <1>3, <2>1
<1> QED
  BY <1>4, <1>5

\* What the program sees, as Table substitutes it.
Sight ==
  [ ly |-> ppu.ly, compared |-> ppu.ly_for_comparison, mode |-> ppu.stat_mode,
    blocked |-> ppu.blocked, read_corrupts |-> CorruptedRow(ppu, "oam_read"),
    write_corrupts |-> CorruptedRow(ppu, "oam_write") ]

\* Every register that can be read is what the table says.
LEMMA TableShows == IInv => Sight = Table!Seen
<1> SUFFICES ASSUME ppu \in Members, Placed(ppu) PROVE Sight = Table!Seen
  BY DEF IInv
<1> QED
  BY SeenLY, SeenCompared, SeenModeAndBlocked, SeenCorrupted DEF Sight, Table!Seen

-----------------------------------------------------------------------------
(* The level of the STAT interrupt line. *)

LEMMA HighIsHigh ==
  ASSUME ppu \in Members, Placed(ppu), ppu.on, Faithful(ppu), NEW source \in Selects
  PROVE  IsHigh(source) <=> High(ppu, source)
<1>1. CASE source = "lyc"
  BY <1>1, SeenCompared DEF IsHigh, High, Faithful
<1>2. CASE source = "oam"
  <2>1. IsHigh(source)
          <=> \/ ppu.mode = "OamScan"
                   /\ ppu.dot_counter >= (IF ppu.scanline = 0 THEN 4 ELSE 3)
              \/ ppu.mode = "VBlank" /\ ppu.scanline = Visible
    BY <1>2 DEF IsHigh
  <2>2. High(ppu, source)
          <=> \/ ppu.mode = "OamScan" /\ ppu.oam_mode_interrupt_active
              \/ ppu.stat_mode = "VBlank" /\ ppu.scanline = Visible
    BY <1>2 DEF High
  <2>3. CASE InScan(ppu)
    <3>1. ppu.mode = "OamScan" /\ ppu.scanline # Visible
      BY <2>3, FrameNumbers DEF InScan, InDrawnLine, Members, Number
    <3>2. ppu.oam_mode_interrupt_active
            = (ppu.dot_counter >= (IF ppu.scanline = 0 THEN 4 ELSE 3))
      BY <2>3 DEF InScan
    <3> QED
      BY <2>1, <2>2, <3>1, <3>2
  <2>4. CASE ~InScan(ppu)
    <3>1. ppu.mode # "OamScan" /\ ppu.stat_mode = ppu.mode
      BY <2>4 DEF Placed, IsOff, InStartup, InDraw, InHBlank, BeforeVBlank, InVBlank, Stands
    <3> QED
      BY <2>1, <2>2, <3>1
  <2> QED
    BY <2>3, <2>4
<1>3. CASE source = "vblank"
  BY <1>3, SeenModeAndBlocked DEF IsHigh, High
<1>4. CASE source = "hblank"
  <2>1. IsHigh(source) <=> /\ ppu.mode = "HBlank" /\ ppu.hblank_mode_interrupt_delay = 0
                           /\ ppu.startup_line => ppu.dot_counter > ScanEnd - 4
    BY <1>4 DEF IsHigh
  <2>2. High(ppu, source) <=> /\ ppu.hblank_mode_interrupt_active
                              /\ ppu.startup_line => ppu.dot_counter >= ScanEnd - 4
    BY <1>4 DEF High
  <2>3. ppu.dot_counter \in Int
    BY DEF Members, Number
  <2>4. CASE InStartup(ppu)
    BY <2>1, <2>2, <2>3, <2>4, FrameNumbers DEF InStartup
  <2>5. CASE InScan(ppu) \/ InDraw(ppu) \/ InVBlank(ppu)
    <3>1. ppu.mode # "HBlank" /\ ~ppu.hblank_mode_interrupt_active
      BY <2>5 DEF InScan, InDraw, InVBlank, Stands, NoDelay
    <3> QED
      BY <2>1, <2>2, <3>1
  <2>6. CASE InHBlank(ppu)
    <3>1. ppu.mode = "HBlank" /\ ppu.hblank_mode_interrupt_delay \in 0 .. 1
      BY <2>6 DEF InHBlank, Stands
    <3>2. ppu.hblank_mode_interrupt_active <=> ppu.hblank_mode_interrupt_delay = 0
      BY <2>6 DEF InHBlank
    <3>3. /\ ppu.startup_line => ppu.dot_counter > ScanEnd - 4
          /\ ppu.startup_line => ppu.dot_counter >= ScanEnd - 4
      BY <2>3, <2>6, FrameNumbers DEF InHBlank, DrawFrom
    <3> QED
      BY <2>1, <2>2, <3>1, <3>2, <3>3
  <2>7. CASE BeforeVBlank(ppu)
    BY <2>1, <2>2, <2>7 DEF BeforeVBlank, InBlankLine, Stands
  <2>8. ~IsOff(ppu)
    BY DEF IsOff
  <2> QED
    BY <2>4, <2>5, <2>6, <2>7, <2>8 DEF Placed
<1> QED
  BY <1>1, <1>2, <1>3, <1>4 DEF Selects

LEMMA LevelIsLevel ==
  ASSUME IInv
  PROVE  /\ Level \in BOOLEAN
         /\ ppu.on => (Level <=> LevelOf(ppu))
         /\ ppu.on => \A source \in Selects : IsHigh(source) <=> High(ppu, source)
<1>1. ppu.on => \A source \in Selects : IsHigh(source) <=> High(ppu, source)
  BY HighIsHigh DEF IInv, LineFollows, Faithful
<1>2. ppu.stat \subseteq Selects
  BY DEF IInv, Members
<1>3. ppu.on => (Level <=> LevelOf(ppu))
  BY <1>1, <1>2 DEF Level, LevelOf
<1> QED
  BY <1>1, <1>3 DEF Level

-----------------------------------------------------------------------------
(* Steps of the timetable. *)

LEMMA InLineTicks ==
  ASSUME Phase # "off", ppu.dot_counter + 1 < Table!Length,
         ppu'.dot_counter = ppu.dot_counter + 1, ppu'.scanline = ppu.scanline,
         ppu'.startup_line = ppu.startup_line,
         Phase \in {"startup", "scan"}
           => Phase' = IF ppu'.dot_counter = Table!DrawFrom THEN "draw" ELSE Phase,
         Phase = "draw"
           => /\ Phase' \in {"draw", "hblank"}
              /\ Phase' = "draw" => ppu'.dot_counter < Table!DrawFrom + DrawMax
              /\ Phase' = "hblank" => ppu'.dot_counter >= Table!DrawFrom + DrawMin,
         Phase \in {"hblank", "vblank"}
           => Phase' = IF ppu.scanline = Visible /\ ppu'.dot_counter = 5
                       THEN "vblank" ELSE Phase,
         ("VBlank" \in ppu'.raised) = (ppu.scanline = Visible /\ ppu'.dot_counter = 5),
         ppu'.first_frame_blank = (ppu.first_frame_blank /\ "VBlank" \notin ppu'.raised)
  PROVE  Table!Tick
<1>1. Phase \in {"off", "startup", "scan", "draw", "hblank", "vblank"}
  BY DEF Phase, PhaseOf
<1>2. (CASE Phase \in {"startup", "scan"} ->
             Phase' = IF ppu'.dot_counter = Table!DrawFrom THEN "draw" ELSE Phase
        [] Phase = "draw" ->
             /\ Phase' \in {"draw", "hblank"}
             /\ Phase' = "draw" => ppu'.dot_counter < Table!DrawFrom + DrawMax
             /\ Phase' = "hblank" => ppu'.dot_counter >= Table!DrawFrom + DrawMin
        [] OTHER -> Phase' = IF ppu.scanline = Visible /\ ppu'.dot_counter = 5
                             THEN "vblank" ELSE Phase)
  BY <1>1
<1>3. Table!DotInLine
  BY <1>2 DEF Table!DotInLine, Phase, PhaseOf
<1> QED
  BY <1>3 DEF Table!Tick, Phase, PhaseOf

LEMMA LastTicks ==
  ASSUME ppu.dot_counter + 1 = Table!Length, Phase \in {"hblank", "vblank"},
         ppu'.dot_counter = 0, ppu'.startup_line = FALSE,
         ppu'.scanline = (ppu.scanline + 1) % Lines,
         Phase' = IF ppu'.scanline < Visible THEN "scan" ELSE Phase,
         ("VBlank" \in ppu'.raised) = FALSE,
         ppu'.first_frame_blank = ppu.first_frame_blank
  PROVE  Table!Tick
<1>1. Phase # "off"
  OBVIOUS
<1>2. Table!LastDot
  BY DEF Table!LastDot, Phase, PhaseOf
<1> QED
  BY <1>1, <1>2 DEF Table!Tick, Phase, PhaseOf

LEMMA TableLine ==
  ASSUME ppu \in Members, Placed(ppu), ppu.on
  PROVE  /\ ppu.line_dot_limit = Table!Length /\ DrawFrom(ppu) = Table!DrawFrom
         /\ InStartup(ppu) => Table!DrawFrom = ScanEnd - 4
         /\ InScan(ppu) => Table!DrawFrom = ScanEnd
<1>1. ppu.line_dot_limit = Table!Length
  BY DEF Table!Length, Placed, IsOff, InStartup, InScan, InDraw, InHBlank, InDrawnLine,
         BeforeVBlank, InVBlank, InBlankLine
<1>2. DrawFrom(ppu) = Table!DrawFrom
  BY FrameNumbers DEF DrawFrom, Table!DrawFrom
<1>3. InStartup(ppu) => ppu.startup_line
  BY DEF InStartup
<1>4. InScan(ppu) => ~ppu.startup_line
  BY DEF InScan
<1> QED
  BY <1>1, <1>2, <1>3, <1>4 DEF DrawFrom

\* A dot of a running LCD is a dot of the timetable.
LEMMA TurnsTick ==
  ASSUME ppu \in Members, ppu' \in Members, Placed(ppu), ppu.on, NEW r,
         SamePlace(ppu, r), r.raised = {}, Turns(r, ppu')
  PROVE  Table!Tick
<1> DEFINE q == ppu'
<1>1. /\ r.on = ppu.on /\ r.scanline = ppu.scanline /\ r.dot_counter = ppu.dot_counter
      /\ r.line_dot_limit = ppu.line_dot_limit /\ r.startup_line = ppu.startup_line
      /\ r.first_frame_blank = ppu.first_frame_blank
  BY DEF SamePlace, SameBeam, SameRow, SameShown
<1>2. SamePlace(r, ppu)
  BY DEF SamePlace, SameBeam, SameRow, SameShown, SameModes, SameDelays, SameScan
<1>3. /\ InStartup(r) => InStartup(ppu)
      /\ InScan(r) => InScan(ppu)
      /\ InDraw(r) => InDraw(ppu)
      /\ InHBlank(r) => InHBlank(ppu)
      /\ BeforeVBlank(r) => BeforeVBlank(ppu)
      /\ InVBlank(r) => InVBlank(ppu)
  BY <1>2, SamePlaces
<1>4. /\ ppu.line_dot_limit = Table!Length /\ DrawFrom(ppu) = Table!DrawFrom
      /\ InStartup(ppu) => Table!DrawFrom = ScanEnd - 4
      /\ InScan(ppu) => Table!DrawFrom = ScanEnd
  BY TableLine
<1>5. /\ ppu.dot_counter \in Int /\ q.dot_counter \in Int /\ ppu.scanline \in Int
      /\ q.scanline \in Int /\ ppu.line_dot_limit \in Int
      /\ ppu.first_frame_blank \in BOOLEAN /\ q.first_frame_blank \in BOOLEAN
      /\ q.drawn \in Int
  BY DEF Members, Number
<1>6. ASSUME Advances(r, q)
      PROVE  /\ q.dot_counter = ppu.dot_counter + 1 /\ ppu.dot_counter + 1 < Table!Length
             /\ q.scanline = ppu.scanline /\ q.startup_line = ppu.startup_line
             /\ DrawFrom(q) = Table!DrawFrom
  BY <1>1, <1>4, <1>6 DEF Advances, SameRow, DrawFrom
<1>7. /\ InStartup(ppu) => Phase = "startup"
      /\ InScan(ppu) => Phase = "scan"
      /\ InDraw(ppu) => Phase = "draw"
      /\ InHBlank(ppu) => Phase = "hblank"
      /\ BeforeVBlank(ppu) => Phase = "hblank"
      /\ InVBlank(ppu) => Phase = "vblank"
  BY PhaseOfPlace DEF Phase
<1>8. /\ InStartup(q) => Phase' = "startup"
      /\ InScan(q) => Phase' = "scan"
      /\ InDraw(q) => Phase' = "draw"
      /\ InHBlank(q) => Phase' = "hblank"
      /\ BeforeVBlank(q) => Phase' = "hblank"
      /\ InVBlank(q) => Phase' = "vblank"
  BY PhaseOfPlace DEF Phase
<1>9. InStartup(ppu) \/ InScan(ppu) \/ InDraw(ppu) \/ InHBlank(ppu) => ppu.scanline # Visible
  BY <1>5, FrameNumbers DEF InStartup, InScan, InDraw, InHBlank, InDrawnLine
<1>10. SameVBlank(r, q) => "VBlank" \notin q.raised
  BY DEF SameVBlank
<1>11. ASSUME Advances(r, q), q.first_frame_blank = ppu.first_frame_blank, SameVBlank(r, q),
              Phase # "off", ~(ppu.scanline = Visible /\ q.dot_counter = 5),
              Phase \in {"startup", "scan"}
                => Phase' = IF q.dot_counter = Table!DrawFrom THEN "draw" ELSE Phase,
              Phase = "draw"
                => /\ Phase' \in {"draw", "hblank"}
                   /\ Phase' = "draw" => q.dot_counter < Table!DrawFrom + DrawMax
                   /\ Phase' = "hblank" => q.dot_counter >= Table!DrawFrom + DrawMin,
              Phase \in {"hblank", "vblank"} => Phase' = Phase
       PROVE  Table!Tick
  <2>1. "VBlank" \notin q.raised
    BY <1>10, <1>11
  <2>2. ("VBlank" \in q.raised) = (ppu.scanline = Visible /\ q.dot_counter = 5)
    BY <1>11, <2>1
  <2>3. q.first_frame_blank = (ppu.first_frame_blank /\ "VBlank" \notin q.raised)
    BY <1>5, <1>11, <2>1
  <2>4. Phase \in {"hblank", "vblank"}
          => Phase' = IF ppu.scanline = Visible /\ q.dot_counter = 5 THEN "vblank" ELSE Phase
    BY <1>11
  <2> QED
    BY <1>6, <1>11, <2>2, <2>3, <2>4, InLineTicks
<1>12. CASE /\ Advances(r, q) /\ q.first_frame_blank = r.first_frame_blank /\ SameVBlank(r, q)
            /\ \/ InStartup(r) /\ (q.dot_counter = ScanEnd - 4 => InDraw(q))
                               /\ (q.dot_counter # ScanEnd - 4 => InStartup(q))
               \/ InScan(r) /\ (q.dot_counter = ScanEnd => InDraw(q))
                            /\ (q.dot_counter # ScanEnd => InScan(q))
  <2>1. /\ Phase \in {"startup", "scan"} /\ ppu.scanline # Visible
        /\ Phase' = IF q.dot_counter = Table!DrawFrom THEN "draw" ELSE Phase
    BY <1>3, <1>4, <1>7, <1>8, <1>9, <1>12
  <2> QED
    BY <1>1, <1>11, <1>12, <2>1
<1>13. CASE /\ Advances(r, q) /\ q.first_frame_blank = r.first_frame_blank /\ SameVBlank(r, q)
            /\ InDraw(r) /\ (InDraw(q) \/ InHBlank(q))
  <2>1. Phase = "draw" /\ Phase' \in {"draw", "hblank"} /\ ppu.scanline # Visible
    BY <1>3, <1>7, <1>8, <1>9, <1>13
  <2>2. DrawFrom(q) = Table!DrawFrom /\ DrawFrom(q) \in Int
    BY <1>6, <1>13, FrameNumbers DEF DrawFrom
  <2>3. InDraw(q) => q.dot_counter < Table!DrawFrom + DrawMax
    BY <1>5, <2>2, FrameNumbers DEF InDraw
  <2>4. InHBlank(q) => q.dot_counter >= Table!DrawFrom + DrawMin
    BY <2>2, FrameNumbers DEF InHBlank
  <2>5. /\ Phase' = "draw" => InDraw(q)
        /\ Phase' = "hblank" => InHBlank(q)
    BY <1>8, <1>13
  <2> QED
    BY <1>1, <1>11, <1>13, <2>1, <2>3, <2>4, <2>5
<1>14. CASE /\ Advances(r, q) /\ q.first_frame_blank = r.first_frame_blank /\ SameVBlank(r, q)
            /\ \/ InHBlank(r) /\ InHBlank(q)
               \/ BeforeVBlank(r) /\ BeforeVBlank(q)
               \/ InVBlank(r) /\ InVBlank(q)
  <2>1. Phase \in {"hblank", "vblank"} /\ Phase' = Phase
    BY <1>3, <1>7, <1>8, <1>14
  <2>2. ~(ppu.scanline = Visible /\ q.dot_counter = 5)
    <3>1. CASE InHBlank(r)
      BY <1>3, <1>9, <3>1
    <3>2. CASE BeforeVBlank(q)
      BY <1>5, <3>2 DEF BeforeVBlank
    <3>3. CASE InVBlank(r)
      <4>1. ppu.scanline = Visible => ppu.dot_counter >= 5
        BY <1>3, <3>3 DEF InVBlank
      <4> QED
        BY <1>5, <1>6, <1>14, <4>1
    <3> QED
      BY <1>14, <3>1, <3>2, <3>3
  <2> QED
    BY <1>1, <1>11, <1>14, <2>1, <2>2
<1>15. CASE /\ Advances(r, q) /\ BeforeVBlank(r) /\ InVBlank(q) /\ q.dot_counter = 5
            /\ "VBlank" \in q.raised
  <2>1. Phase = "hblank" /\ Phase' = "vblank" /\ ppu.scanline = Visible
    BY <1>3, <1>7, <1>8, <1>15 DEF BeforeVBlank
  <2>2. ("VBlank" \in q.raised) = (ppu.scanline = Visible /\ q.dot_counter = 5)
    BY <1>15, <2>1
  <2>3. q.first_frame_blank = FALSE
    BY <1>5, <1>15 DEF InVBlank
  <2>4. q.first_frame_blank = (ppu.first_frame_blank /\ "VBlank" \notin q.raised)
    BY <1>15, <2>3
  <2> QED
    BY <1>6, <1>15, <2>1, <2>2, <2>4, InLineTicks
<1>16. CASE /\ BeamAtNextRow(r, q) /\ r.dot_counter + 1 = r.line_dot_limit
            /\ q.first_frame_blank = r.first_frame_blank /\ SameVBlank(r, q)
            /\ \/ InHBlank(r) /\ (InScan(q) \/ BeforeVBlank(q))
               \/ InVBlank(r) /\ (InScan(q) \/ InVBlank(q))
  <2>1. /\ q.dot_counter = 0 /\ q.startup_line = FALSE
        /\ q.scanline = (ppu.scanline + 1) % Lines
    <3>1. q.startup_line \in BOOLEAN
      BY DEF Members
    <3> QED
      BY <1>1, <1>16, <3>1 DEF BeamAtNextRow
  <2>2. ppu.dot_counter + 1 = Table!Length
    BY <1>1, <1>4, <1>16
  <2>3. /\ InScan(q) => q.scanline < Visible
        /\ BeforeVBlank(q) => ~(q.scanline < Visible)
        /\ InVBlank(q) => ~(q.scanline < Visible)
    BY <1>5, FrameNumbers DEF InScan, InDrawnLine, BeforeVBlank, InVBlank
  <2>4. Phase \in {"hblank", "vblank"}
    BY <1>3, <1>7, <1>16
  <2>5. Phase' = IF q.scanline < Visible THEN "scan" ELSE Phase
    BY <1>3, <1>7, <1>8, <1>16, <2>3
  <2>6. ("VBlank" \in q.raised) = FALSE
    BY <1>10, <1>16
  <2> QED
    BY <1>1, <1>16, <2>1, <2>2, <2>4, <2>5, <2>6, LastTicks
<1> QED
  BY <1>12, <1>13, <1>14, <1>15, <1>16 DEF Turns

\* The CPU's steps leave the place in the frame, or make it that of a switched LCD.
LEMMA PhaseDepends ==
  ASSUME NEW p, NEW q, SamePlace(p, q)
  PROVE  PhaseOf(q) = PhaseOf(p)
BY DEF SamePlace, SameBeam, SameRow, SameModes, PhaseOf

LEMMA SamePlaceRests ==
  ASSUME SamePlace(ppu, ppu'), "VBlank" \notin ppu'.raised
  PROVE  Table!Rest
<1>1. Phase' = Phase
  BY PhaseDepends DEF Phase
<1>2. /\ ppu'.scanline = ppu.scanline /\ ppu'.dot_counter = ppu.dot_counter
      /\ ppu'.startup_line = ppu.startup_line
      /\ ppu'.first_frame_blank = ppu.first_frame_blank
  BY DEF SamePlace, SameBeam, SameRow, SameShown
<1>3. ("VBlank" \in ppu'.raised) = FALSE
  OBVIOUS
<1> QED
  BY <1>1, <1>2, <1>3 DEF Table!Rest, Table!place, Phase, PhaseOf

LEMMA RestsAtOff ==
  ASSUME NEW p \in Members, IsOff(p), "VBlank" \notin p.raised
  PROVE  /\ PhaseOf(p) = "off" /\ p.scanline = 0 /\ p.dot_counter = 0
         /\ p.startup_line = FALSE /\ p.first_frame_blank = TRUE
         /\ ("VBlank" \in p.raised) = FALSE
<1>1. p.startup_line \in BOOLEAN /\ p.first_frame_blank \in BOOLEAN
  BY DEF Members
<1> QED
  BY <1>1, PhaseOfPlace DEF IsOff

LEMMA InitRests == Init => Table!AtRest
<1> SUFFICES ASSUME Init PROVE Table!AtRest
  OBVIOUS
<1>1. ppu \in Members /\ IsOff(ppu)
  BY Fresh DEF Init
<1>2. "VBlank" \notin ppu.raised
  BY DEF Init, FreshPpu
<1>3. /\ Phase = "off" /\ ppu.scanline = 0 /\ ppu.dot_counter = 0
      /\ ppu.startup_line = FALSE /\ ppu.first_frame_blank = TRUE
      /\ ("VBlank" \in ppu.raised) = FALSE
  BY <1>1, <1>2, RestsAtOff DEF Phase
<1> QED
  BY <1>3 DEF Table!AtRest, Phase, PhaseOf

\* What the program cannot see of a step is one of the timetable.
Places == Table!Tick \/ Table!SwitchOn \/ Table!SwitchOff \/ Table!Rest

LEMMA NextPlaces ==
  ASSUME IInv, Next
  PROVE  Places
<1>1. ppu \in Members /\ Placed(ppu)
  BY DEF IInv
<1>2. CASE Dot
  <2>1. SamePlace(ppu, Quiet(ppu)) /\ Quiet(ppu).raised = {}
    BY <1>1, QuietFollows
  <2>2. CASE ppu.on
    <3>1. ppu' \in Members /\ Turns(Quiet(ppu), ppu')
      BY <1>2, <2>2, DotStep DEF IInv
    <3> QED
      BY <1>1, <2>1, <2>2, <3>1, TurnsTick DEF Places
  <2>3. CASE ~ppu.on
    <3>1. ppu' = Quiet(ppu)
      BY <1>2, <2>3 DEF Dot
    <3> QED
      BY <2>1, <3>1, SamePlaceRests DEF Places
  <2> QED
    BY <2>2, <2>3
<1>3. CASE NoAccess \/ (\E selects \in SUBSET Selects : AccessStat(selects))
                    \/ (\E value \in LycValues : AccessLyc(value))
  BY <1>3, CpuStep, SamePlaceRests DEF Places
<1>4. CASE LcdOff \/ Reset
  <2>1. ppu' \in Members /\ IsOff(ppu') /\ "VBlank" \notin ppu'.raised
    BY <1>4, LcdOffStep DEF IInv
  <2>2. /\ Phase' = "off" /\ ppu'.scanline = 0 /\ ppu'.dot_counter = 0
        /\ ppu'.startup_line = FALSE /\ ppu'.first_frame_blank = TRUE
        /\ ("VBlank" \in ppu'.raised) = FALSE
    BY <2>1, RestsAtOff DEF Phase
  <2>3. Table!SwitchOff
    BY <2>2 DEF Table!SwitchOff, Table!AtRest, Phase, PhaseOf
  <2> QED
    BY <2>3 DEF Places
<1>5. CASE LcdOn
  <2>1. /\ ppu' \in Members /\ IsOff(ppu) /\ InStartup(ppu') /\ ppu'.dot_counter = 0
        /\ "VBlank" \notin ppu'.raised
    BY <1>5, LcdOnStep DEF IInv
  <2>2. Phase = "off" /\ Phase' = "startup"
    BY <1>1, <2>1, PhaseOfPlace DEF Phase
  <2>3. /\ ppu'.startup_line = TRUE /\ ("VBlank" \in ppu'.raised) = FALSE
        /\ ppu'.first_frame_blank = TRUE /\ ppu.first_frame_blank = TRUE
    BY <1>1, <2>1 DEF Members, InStartup, IsOff
  <2>4. ppu'.scanline = ppu.scanline /\ ppu'.dot_counter = ppu.dot_counter
    BY <2>1 DEF InStartup, IsOff
  <2>5. Table!SwitchOn
    BY <2>2, <2>3, <2>4 DEF Table!SwitchOn, Phase, PhaseOf
  <2> QED
    BY <2>5 DEF Places
<1> QED
  BY <1>2, <1>3, <1>4, <1>5 DEF Next

-----------------------------------------------------------------------------
(* The theorems. *)

\* Every member of the PPU keeps its range, for every frame format: no delay goes
\* below zero, the scan stays in OAM and a line never outlasts its limit.
THEOREM TypeCorrect == Spec => []TypeOK
BY Invariance, InvariantTypes, PTL

\* The remembered level of the STAT interrupt is the or of the selected sources
\* whenever the code has looked at it: no delay, no switch of mode or of the LCD
\* and no write of STAT or LYC leaves it stale.
THEOREM LevelIsNeverStale == Spec => []StatLineFollowsSources
<1>1. IInv => StatLineFollowsSources
  <2> SUFFICES ASSUME IInv, ppu.on PROVE StatLineFollowsSources
    BY DEF StatLineFollowsSources
  <2>1. Level \in BOOLEAN /\ (Level <=> LevelOf(ppu))
    BY LevelIsLevel
  <2>2. \/ ppu.stat_interrupt_line = LevelOf(ppu)
        \/ Unseen(ppu) /\ ppu.stat_interrupt_line
    BY DEF IInv, LineFollows
  <2>3. LevelOf(ppu) = Level
    BY <2>1 DEF LevelOf
  <2>4. Unseen(ppu) <=> NotLooked
    BY DEF Unseen, NotLooked
  <2> QED
    BY <2>2, <2>3, <2>4 DEF StatLineFollowsSources
<1> QED
  BY <1>1, Invariance, PTL

\* What IsHigh and Level say of a state of the invariant.
Levelled ==
  ppu.on => /\ Level <=> LevelOf(ppu)
            /\ \A source \in Selects : IsHigh(source) <=> High(ppu, source)

\* A STAT interrupt is requested when the or of the selected sources rises, and
\* never because one source takes over from another that is still high.
THEOREM InterruptsAreEdges == Spec => StatInterruptsAreEdges
<1>1. IInv => Levelled
  BY LevelIsLevel DEF Levelled
<1>2. ASSUME IInv, Levelled, Levelled', Next PROVE EdgeOfLevel
  <2> DEFINE r == Quiet(ppu)
  <2>1. EdgeStep
    BY <1>2, NextInvariant
  <2>2. /\ r.raised = {} /\ SameSelects(ppu, r)
        /\ r.stat_interrupt_line = ppu.stat_interrupt_line
        /\ \A source : High(r, source) <=> High(ppu, source)
    BY <1>2, QuietFollows DEF IInv
  <2>3. /\ r.stat = ppu.stat /\ r.pending_stat = ppu.pending_stat
        /\ r.stat_write_dots_remaining = ppu.stat_write_dots_remaining
    BY <2>2 DEF SameSelects
  <2> HIDE DEF r
  <2>4. ppu.stat \subseteq Selects
    BY <1>2 DEF IInv, Members
  <2>5. CASE ppu.on /\ ppu'.on
    <3>1. Requests(r, ppu')
      BY <2>1, <2>5 DEF EdgeStep, r
    <3>2. ASSUME "LCDStat" \in ppu'.raised
          PROVE  /\ ~\E source \in ppu.stat \intersect ppu'.stat :
                       ppu.on /\ IsHigh(source) /\ IsHigh(source)'
                 /\ ppu.stat_interrupt_line
                      => ppu.stat_write_dots_remaining = 1 /\ ppu.stat # ppu.pending_stat
      <4>1. /\ ~\E source \in ppu.stat \intersect ppu'.stat : High(ppu, source)
            /\ \/ ~ppu.stat_interrupt_line
               \/ ppu.stat_write_dots_remaining = 1 /\ ppu.stat # ppu.pending_stat
        BY <2>2, <2>3, <3>1, <3>2 DEF Requests
      <4>2. \A source \in ppu.stat : IsHigh(source) <=> High(ppu, source)
        BY <1>2, <2>4, <2>5 DEF Levelled
      <4> QED
        BY <4>1, <4>2
    <3>3. ~ppu.stat_interrupt_line /\ Level' => "LCDStat" \in ppu'.raised
      <4>1. Level' => LevelOf(ppu')
        BY <1>2, <2>5 DEF Levelled
      <4> QED
        BY <2>2, <3>1, <4>1 DEF Requests
    <3> QED
      BY <2>5, <3>2, <3>3 DEF EdgeOfLevel
  <2>6. CASE ~ppu.on
    BY <2>1, <2>6 DEF EdgeStep, EdgeOfLevel
  <2>7. CASE ~ppu'.on
    BY <2>1, <2>7 DEF EdgeStep, EdgeOfLevel
  <2> QED
    BY <2>5, <2>6, <2>7
<1>3. IInv /\ Levelled /\ Levelled' /\ [Next]_vars => [EdgeOfLevel]_vars
  BY <1>2
<1> QED
  BY <1>1, <1>3, Invariance, PTL DEF Spec, StatInterruptsAreEdges

\* The registers, the memory that the program reaches and the VBlank interrupt
\* are those of the timetable, for every frame format and every length of mode 3
\* within its bounds: nothing of one mode or frame survives into the next.
THEOREM ProgramSeesTheTimetable == Spec => ImplementsTimetable
<1>1. Init => Table!AtRest
  BY InitRests
<1>2. IInv => Sight = Table!Seen
  BY TableShows
<1>3. Table!AtRest /\ Sight = Table!Seen => Table!Init
  BY DEF Table!Init, Sight
<1>4. IInv /\ (Sight = Table!Seen)' /\ [Next]_vars => [Table!Next]_Table!vars
  <2>1. CASE UNCHANGED vars
    <3>1. ppu' = ppu
      BY <2>1 DEF vars
    <3>2. Phase' = Phase /\ Sight' = Sight
      BY <3>1 DEF Phase, PhaseOf, Sight, CorruptedRow
    <3>3. UNCHANGED Table!vars
      BY <3>1, <3>2 DEF Table!vars, Table!place, Phase, PhaseOf, Sight
    <3> QED
      BY <3>3
  <2>2. ASSUME IInv, (Sight = Table!Seen)', Next PROVE Table!Next
    <3>1. Places
      BY <2>2, NextPlaces
    <3>2. Sight' = Table!Seen'
      BY <2>2
    <3> QED
      BY <3>1, <3>2 DEF Places, Table!Next, Sight
  <2> QED
    BY <2>1, <2>2
<1> QED
  BY <1>1, <1>2, <1>3, <1>4, InitInvariant, Invariance, PTL
     DEF Spec, ImplementsTimetable, Table!Spec

=============================================================================
