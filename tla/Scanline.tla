------------------------------ MODULE Scanline ------------------------------
(***************************************************************************)
(* What mode 3 of class PPU (src/src/ppu.cpp) draws, dot by dot: the        *)
(* scanned objects, the background fetcher and its FIFO, the window, the    *)
(* object fetches that stop the line, the mixing of the two FIFOs and the   *)
(* registers that the program writes meanwhile.  A pixel stands for the     *)
(* column of the map or of the object that it comes from.                   *)
(***************************************************************************)
EXTENDS Integers, Sequences, FiniteSetsExt

CONSTANTS
  Width,         \* columns of the screen, 160; the window's limits follow it
  MaxObjects,    \* objects of a line, 10
  ScanLines,     \* the lines that are drawn: registers, OAM and WY latch
  WrittenLines,  \* those in which the program writes during mode 3
  Writes,        \* what it writes
  MaxWrites,     \* and how often: the bound on that
  ClearColumns   \* columns of the tile maps whose pixels have colour 0

Layers == {"bg", "window", "objects"}      \* bits 0, 5 and 1 of LCDC

ObjectEntry ==
  [x : 0 .. 255, y : 0 .. 255, behind : BOOLEAN, opaque : SUBSET (0 .. 7)]

LineState ==
  [scx : 0 .. 255, wx : 0 .. 255, window_y_triggered : BOOLEAN, lcdc : SUBSET Layers,
   oam : Seq(ObjectEntry), scanline : Nat, height : {8, 16}]

\* Registers are bytes, and OAM has any number of objects.
LinesAreBytes ==
  /\ Width \in Nat /\ Width % 8 = 0 /\ Width > 8
  /\ MaxObjects \in Nat /\ MaxWrites \in Nat
  /\ ScanLines \subseteq LineState
  /\ WrittenLines \subseteq ScanLines
  /\ Writes \subseteq [register : {"lcdc"}, value : SUBSET Layers]
                      \union [register : {"wx", "scx"}, value : 0 .. 255]

ASSUME ScanlineAssumption == LinesAreBytes

VARIABLES
  line,     \* the line: what memory and registers hold when mode 3 begins
  draw,     \* the members of class PPU that mode 3 changes
  picture,  \* what the line of the frame buffer holds
  dots,     \* dots of mode 3 so far
  writes    \* writes so far, and the columns that the window took back

draw_vars == <<line, draw, picture, dots, writes>>

MapTiles == 32
Blank == [layer |-> "blank", column |-> 0]
Clear == [oam |-> 0, pixel |-> 0]          \* FifoPixel{} in the object FIFO

-----------------------------------------------------------------------------
(* Mode 2, and the start of mode 3. *)

\* scan_oam_entry: the places in OAM of the objects of the line.  Their order in
\* line_objects is that of OAM, so an object is told by its place.
ScannedObjects(l) ==
  LET hit == {i \in 1 .. Len(l.oam) : /\ l.scanline >= l.oam[i].y - 16
                                      /\ l.scanline < l.oam[i].y - 16 + l.height}
  IN  {i \in hit : Cardinality({j \in hit : j < i}) < MaxObjects}

FreshFetcher == [step |-> 0, window |-> FALSE, x |-> 0, tile |-> 0]

\* begin_scanline and begin_mode3.
BeginDrawing(l) ==
  [ lcdc |-> l.lcdc, wx |-> l.wx, scx |-> l.scx, scx_low |-> l.scx % 8,
    mode3_startup_dots |-> 4, pixel_position |-> -16, screen_x |-> 0,
    bg_fifo |-> [i \in 1 .. 8 |-> Blank], obj_fifo |-> <<>>, fetcher |-> FreshFetcher,
    line_objects |-> ScannedObjects(l), fetched |-> {},
    object_fetch_step |-> "None", object_fetch_index |-> 0, object_fetch_aborted |-> FALSE,
    window_triggered |-> FALSE, window_active |-> FALSE, wx_just_changed |-> FALSE,
    window_line |-> 0, finished |-> FALSE ]

-----------------------------------------------------------------------------
(* The window. *)

WindowEnabled(d) ==
  /\ line.window_y_triggered /\ {"bg", "window"} \subseteq d.lcdc /\ d.wx <= Width + 6

\* Where the line meets WX; WX is 7 more than the column.
WindowReached(d) ==
  IF d.wx = 0
  THEN \/ d.pixel_position = -7
       \/ d.pixel_position = -16 /\ d.scx_low # 0
       \/ d.pixel_position \in -15 .. -8
  ELSE d.wx < Width + 6 /\ d.wx = d.pixel_position + 7

\* The window was switched on one dot too late: it takes a column back.
WindowPassed(d) ==
  /\ d.wx \in 1 .. Width + 5 /\ ~WindowReached(d)
  /\ ~d.wx_just_changed /\ d.wx = d.pixel_position + 6 /\ d.screen_x > 0

TriggerWindow(d) ==
  [d EXCEPT !.window_line = IF d.window_triggered THEN @ + 1 ELSE @,
            !.window_triggered = TRUE, !.window_active = TRUE,
            !.bg_fifo = <<>>, !.fetcher = [FreshFetcher EXCEPT !.window = TRUE]]

Triggers(d) ==
  ~d.window_active /\ WindowEnabled(d) /\ (WindowReached(d) \/ WindowPassed(d))

\* The first part of tick_mode3, WX = 166 included: it counts a row unseen.
TickWindow(d) ==
  LET back == [d EXCEPT !.screen_x = IF WindowPassed(d) THEN @ - 1 ELSE @]
      begun == IF Triggers(d) THEN TriggerWindow(back) ELSE d
      unseen == /\ ~begun.window_triggered /\ WindowEnabled(begun)
                /\ begun.wx = Width + 6 /\ begun.pixel_position = Width - 1
  IN  [begun EXCEPT !.window_triggered = @ \/ unseen,
                    !.window_line = IF unseen THEN @ + 1 ELSE @,
                    !.wx_just_changed = FALSE]

-----------------------------------------------------------------------------
(* The background fetcher.  Its reads of the map and of the two bit planes are *)
(* one: they fetch the tile that step 0 finds.                                *)

TileOfBackground(d) ==
  IF d.pixel_position < -8 THEN d.scx \div 8
  ELSE ((d.scx + d.pixel_position + 8) \div 8) % MapTiles

FetchedPixels(fetcher) ==
  [i \in 1 .. 8 |-> [layer |-> IF fetcher.window THEN "window" ELSE "bg",
                     column |-> (8 * fetcher.tile + i) - 1]]

\* Switching the window off in a line that WY has reached leaves a trace: where
\* WX matches a tile's first pixel, a blank pixel comes in.
LeavesBlankPixel(d) ==
  LET beyond == d.pixel_position + 7 < 0 \/ d.pixel_position > Width IN
  /\ line.window_y_triggered /\ "window" \notin d.lcdc
  /\ d.wx = IF beyond THEN 0 ELSE d.pixel_position + 7

TryPushBgPixels(d) ==
  CASE d.bg_fifo # <<>> -> d
    [] d.bg_fifo = <<>> /\ LeavesBlankPixel(d) -> [d EXCEPT !.bg_fifo = <<Blank>>]
    [] OTHER -> [d EXCEPT !.bg_fifo = FetchedPixels(d.fetcher), !.fetcher.step = 0]

AdvancePixelFetcher(d) ==
  LET window == d.fetcher.window /\ WindowEnabled(d)
      tile == IF window THEN d.fetcher.x ELSE TileOfBackground(d)
  IN
  CASE d.fetcher.step = 0 ->
         [d EXCEPT !.window_active = @ /\ (d.fetcher.window => window),
                   !.fetcher = [@ EXCEPT !.step = 1, !.window = window, !.tile = tile]]
    [] d.fetcher.step \in 1 .. 4 -> [d EXCEPT !.fetcher.step = @ + 1]
    [] d.fetcher.step = 5 ->
         TryPushBgPixels([d EXCEPT !.fetcher.step = 6,
           !.fetcher.x = IF d.fetcher.window THEN (@ + 1) % MapTiles ELSE @])
    [] OTHER -> TryPushBgPixels(d)

-----------------------------------------------------------------------------
(* Mixing. *)

Colour(d, pixel) ==
  pixel.layer # "blank" /\ "bg" \in d.lcdc /\ pixel.column \notin ClearColumns

\* What mix_and_push_pixel writes to the frame buffer.
Mix(d, bg, object) ==
  IF /\ object # Clear /\ "objects" \in d.lcdc
     /\ line.oam[object.oam].behind => ~Colour(d, bg)
  THEN [layer |-> "object", oam |-> object.oam, column |-> object.pixel]
  ELSE IF "bg" \in d.lcdc THEN bg ELSE Blank

MaySkip(d) == d.pixel_position < -8 /\ d.pixel_position % 8 = d.scx_low

\* The eight positions before -8 last until SCX % 8 pixels are dropped.
Position(d) == IF MaySkip(d) THEN -8 ELSE d.pixel_position

Mixes(d) == d.screen_x < Width /\ d.bg_fifo # <<>>

\* Mutant: while the objects are off, their FIFO stands still.
MixAndPushPixelKept(d) ==
  IF ~Mixes(d) THEN d
  ELSE [d EXCEPT !.bg_fifo = Tail(@),
                 !.obj_fifo = IF @ = <<>> \/ "objects" \notin d.lcdc THEN @ ELSE Tail(@),
                 !.pixel_position = Position(d) + 1,
                 !.screen_x = IF Position(d) < 0 THEN @ ELSE @ + 1]

MixAndPushPixel(d) ==
  IF ~Mixes(d) THEN d
  ELSE [d EXCEPT !.bg_fifo = Tail(@), !.obj_fifo = IF @ = <<>> THEN @ ELSE Tail(@),
                 !.pixel_position = Position(d) + 1,
                 !.screen_x = IF Position(d) < 0 THEN @ ELSE @ + 1]

\* The frame buffer after the same.
Pushed(d) ==
  IF Mixes(d) /\ Position(d) >= 0
  THEN [picture EXCEPT ![d.screen_x] =
          Mix(d, Head(d.bg_fifo), IF d.obj_fifo = <<>> THEN Clear ELSE Head(d.obj_fifo))]
  ELSE picture

FinishDrawing(d) ==
  IF d.screen_x # Width THEN d
  ELSE [d EXCEPT !.window_line = IF d.window_triggered THEN @ + 1 ELSE @, !.finished = TRUE]

DrawPixel(d) == FinishDrawing(AdvancePixelFetcher(MixAndPushPixel(d)))

-----------------------------------------------------------------------------
(* The objects. *)

\* Mutant: an object that is fetched later covers the ones before it.
CoversLast(oam, existing) == TRUE

\* Whether an object's pixel replaces the one that the FIFO holds.
Covers(oam, existing) ==
  \/ existing = Clear
  \/ line.oam[oam].x < line.oam[existing.oam].x
  \/ line.oam[oam].x = line.oam[existing.oam].x /\ oam < existing.oam

\* overlay_object_pixels, on 16 pixels from the current position.
Overlay(d) ==
  LET oam == d.object_fetch_index
      object == line.oam[oam]
      old == [i \in 1 .. 16 |-> IF i <= Len(d.obj_fifo) THEN d.obj_fifo[i] ELSE Clear]
      pixel == [i \in 1 .. 16 |-> d.pixel_position + i - 1 - (object.x - 8)]
  IN  [d EXCEPT !.obj_fifo = [i \in 1 .. 16 |->
         IF pixel[i] \in object.opaque /\ Covers(oam, old[i])
         THEN [oam |-> oam, pixel |-> pixel[i]] ELSE old[i]]]

ObjectMatch(d) == IF d.pixel_position < -8 THEN 0 ELSE d.pixel_position + 8

\* Mutant: an object is fetched again as long as its position lasts.
StartObjectFetchAgain(d) ==
  LET waiting == {i \in d.line_objects : line.oam[i].x = ObjectMatch(d)} IN
  IF "objects" \notin d.lcdc \/ waiting = {} THEN d
  ELSE [d EXCEPT !.object_fetch_index = Min(waiting), !.object_fetch_step = "Align"]

\* Objects that the line has passed are given up; the first in OAM of those that
\* begin here is fetched.
StartObjectFetch(d) ==
  LET waiting == {i \in d.line_objects \ d.fetched : line.oam[i].x < Width + 8}
      missed == {i \in waiting : line.oam[i].x < ObjectMatch(d)}
      met == {i \in waiting : line.oam[i].x = ObjectMatch(d)}
      begun == [d EXCEPT !.fetched = @ \union missed]
  IN  CASE "objects" \notin d.lcdc \/ d.pixel_position >= Width -> d
        [] "objects" \in d.lcdc /\ d.pixel_position < Width /\ met # {} ->
             [begun EXCEPT !.fetched = @ \union {Min(met)},
                !.object_fetch_index = Min(met), !.object_fetch_step = "Align"]
        [] OTHER -> begun

NextFetchStep(step) ==
  CASE step = "Align" -> "OamSecond"      \* OamFirst falls into the same dot
    [] step = "OamSecond" -> "DataLowFirst"
    [] step = "DataLowFirst" -> "DataLowSecond"
    [] step = "DataLowSecond" -> "DataHighFirst"
    [] OTHER -> "DataHighSecond"

EndObjectFetch(d) ==
  [d EXCEPT !.object_fetch_step = "None", !.object_fetch_index = 0,
            !.object_fetch_aborted = FALSE]

\* tick_object_fetch of a fetch that goes on.
TickObjectFetch(d) ==
  LET next == NextFetchStep(d.object_fetch_step) IN
  CASE d.object_fetch_step = "Align" ->
         IF d.fetcher.step < 5 \/ d.bg_fifo = <<>> THEN AdvancePixelFetcher(d)
         ELSE [AdvancePixelFetcher(d) EXCEPT !.object_fetch_step = next]
    [] d.object_fetch_step = "DataHighSecond" -> EndObjectFetch(Overlay(d))
    [] OTHER -> [d EXCEPT !.object_fetch_step = next]

-----------------------------------------------------------------------------
(* Steps. *)

Count == dots' = dots + 1 /\ UNCHANGED <<line, writes>>

Startup ==
  /\ ~draw.finished /\ draw.mode3_startup_dots > 0
  /\ draw' = [draw EXCEPT !.mode3_startup_dots = @ - 1]
  /\ Count /\ UNCHANGED picture

\* A window with WX = 0 and a scrolled background takes a dot of its own.
WindowDot ==
  /\ ~draw.finished /\ draw.mode3_startup_dots = 0
  /\ Triggers(draw) /\ draw.wx = 0 /\ draw.scx_low # 0
  /\ draw' = TickWindow(draw)
  /\ Count /\ UNCHANGED picture

\* The rest of tick_mode3: the line either stands still for an object or goes
\* on by a pixel; an aborted fetch lets it go on at once.
DrawDot ==
  /\ ~draw.finished /\ draw.mode3_startup_dots = 0
  /\ ~(Triggers(draw) /\ draw.wx = 0 /\ draw.scx_low # 0)
  /\ LET ticked == TickWindow(draw)
         begun == IF ticked.object_fetch_step = "None" THEN StartObjectFetch(ticked) ELSE ticked
         fetching == begun.object_fetch_step # "None" /\ ~begun.object_fetch_aborted
     IN  IF fetching
         THEN draw' = TickObjectFetch(begun) /\ UNCHANGED picture
         ELSE draw' = DrawPixel(EndObjectFetch(begun)) /\ picture' = Pushed(begun)
  /\ dots' = dots + 1 /\ UNCHANGED line
  /\ writes' = [writes EXCEPT !.taken = IF Triggers(draw) /\ WindowPassed(draw)
                                        THEN @ + 1 ELSE @]

\* PPU::write of LCDC, WX and SCX, between two dots.  Switching the objects off
\* aborts the fetch that is under way.
Write(w) ==
  /\ ~draw.finished /\ line \in WrittenLines /\ writes.count < MaxWrites
  /\ draw' = CASE w.register = "lcdc" ->
                    [draw EXCEPT !.lcdc = w.value,
                       !.object_fetch_aborted = @ \/ /\ "objects" \in draw.lcdc \ w.value
                                                     /\ draw.object_fetch_step # "None"]
               [] w.register = "wx" -> [draw EXCEPT !.wx = w.value, !.wx_just_changed = TRUE]
               [] OTHER -> [draw EXCEPT !.scx = w.value]
  /\ writes' = [writes EXCEPT !.count = @ + 1]
  /\ UNCHANGED <<line, picture, dots>>

DrawInit ==
  /\ line \in ScanLines
  /\ draw = BeginDrawing(line)
  /\ picture = [n \in 0 .. Width - 1 |-> Blank]
  /\ dots = 0 /\ writes = [count |-> 0, taken |-> 0]

DrawNext == Startup \/ WindowDot \/ DrawDot \/ \E w \in Writes : Write(w)

DrawSpec == DrawInit /\ [][DrawNext]_draw_vars

-----------------------------------------------------------------------------
(* The picture of a line that the program leaves alone, told from the registers *)
(* and OAM without dots, FIFOs or fetches.                                      *)

Below == line.scx % 8        \* pixels of the first tile that are dropped

Enabled == line.window_y_triggered /\ {"bg", "window"} \subseteq line.lcdc

\* The first column of the window; WX = 0 of a scrolled line misses up to 8 more.
WindowLeft == IF line.wx = 0 /\ Below # 0 THEN -8 - Below ELSE line.wx - 7

ShowsWindow(n) == Enabled /\ line.wx < Width + 6 /\ n >= WindowLeft

\* The column of the blank pixel of a window that is switched off, if any.
BlankColumn ==
  IF /\ line.window_y_triggered /\ "window" \notin line.lcdc
     /\ line.wx >= 7 - Below /\ (line.wx - 7 + Below) % 8 = 0
  THEN line.wx - 7 ELSE Width

Ground(n) ==
  CASE "bg" \notin line.lcdc \/ n = BlankColumn -> Blank
    [] "bg" \in line.lcdc /\ ShowsWindow(n) ->
         [layer |-> "window", column |-> (n - WindowLeft) % (8 * MapTiles)]
    [] OTHER -> [layer |-> "bg",
                 column |-> (line.scx + IF n > BlankColumn THEN n - 1 ELSE n) % (8 * MapTiles)]

\* The objects whose pixel in a column is not transparent, and the one in front.
ObjectsAt(n) ==
  {i \in ScannedObjects(line) :
     "objects" \in line.lcdc /\ n - (line.oam[i].x - 8) \in line.oam[i].opaque}

InFront(n) ==
  CHOOSE i \in ObjectsAt(n) : \A j \in ObjectsAt(n) :
    line.oam[i].x < line.oam[j].x \/ (line.oam[i].x = line.oam[j].x /\ i <= j)

Reference(n) ==
  IF /\ ObjectsAt(n) # {}
     /\ line.oam[InFront(n)].behind
          => Ground(n).layer = "blank" \/ Ground(n).column \in ClearColumns
  THEN [layer |-> "object", oam |-> InFront(n), column |-> n - (line.oam[InFront(n)].x - 8)]
  ELSE Ground(n)

RowsOfWindow ==
  CASE ~Enabled \/ line.wx > Width + 6 -> 0
    [] Enabled /\ line.wx = Width + 6 -> 2
    [] OTHER -> 1

AtZero == {i \in DOMAIN line.oam : line.oam[i].x = 0}

-----------------------------------------------------------------------------
(* Properties. *)

\* A line that the program leaves alone shows the scrolled background, the window
\* from WX - 7 on and in front the object that is furthest left, whichever
\* fetches and stops it took; and the window has gone on by its rows.
PictureIsRight ==
  draw.finished /\ writes.count = 0 /\ AtZero = {}
    => /\ \A n \in 0 .. Width - 1 : picture[n] = Reference(n)
       /\ draw.window_line = RowsOfWindow

\* Whatever the program writes to LCDC, WX and SCX during the line, an object's
\* pixels stay in their columns; a window that takes a column back moves those
\* behind it by one.
ObjectsStayInPlace ==
  \A n \in 0 .. draw.screen_x - 1 :
    picture[n].layer = "object" /\ picture[n].oam \notin AtZero
      => n - picture[n].column - (line.oam[picture[n].oam].x - 8) \in -writes.taken .. 0

\* An object with x = 0 is left of the screen ("PPU renders an object at its OAM
\* position": x = 8 is column 0) and none of its pixels shows.
ObjectAtZeroIsOffScreen ==
  \A n \in 0 .. draw.screen_x - 1 :
    picture[n].layer = "object" => picture[n].oam \notin AtZero

\* Mode 3 ends: it lasts 172 dots at least, and at most one more for each dropped
\* pixel, 7 for the window and for every write (which may start it again) and 11
\* for each object; a write can take back one column at most.
DrawingIsBounded ==
  /\ dots <= 12 + Width + draw.scx_low + 7 * (1 + writes.count)
             + 11 * Cardinality(draw.line_objects)
  /\ draw.finished => dots >= 12 + Width
  /\ writes.taken <= writes.count
=============================================================================
