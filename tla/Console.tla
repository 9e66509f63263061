------------------------------ MODULE Console ------------------------------
(***************************************************************************)
(* The console between its player and its program: the keys of the page    *)
(* (WebGameBoy), class Joypad, the frame loop of class GameBoy, and STOP.  *)
(*                                                                         *)
(* The browser delivers key events only between two calls of step_frame.   *)
(* A call runs M-cycles, four dots and then at most one access of the CPU, *)
(* until the PPU has finished a frame or the CPU stands still in STOP.     *)
(* P1's active-low selection bits are sets of selected groups, and a line  *)
(* of the matrix is in `low' when a selected, pressed button pulls it down.*)
(***************************************************************************)
EXTENDS Integers, FiniteSets

CONSTANTS
  Keys,          \* keys of the keyboard that the page listens to
  ButtonOf,      \* the button that each key stands for
  Lines,         \* the four lines of the button matrix
  LineOf,        \* the line of each button
  Dpad,          \* the buttons of the d-pad; the others are action buttons
  DpadDelay,     \* 24: dots until a deselected d-pad is disconnected
  ActionDelay,   \* 12: the same for the action buttons
  FrameCycles,   \* M-cycles from switching the LCD on to VBlank, and between two
  WakeupClocks   \* stop_wakeup_clock_cycles, 2^17

Buttons == DOMAIN LineOf

ASSUME ConsoleAssumption ==
  /\ ButtonOf \in [Keys -> Buttons] /\ LineOf \in [Buttons -> Lines] /\ Dpad \subseteq Buttons
  /\ DpadDelay \in Nat \ {0} /\ ActionDelay \in Nat \ {0}
  /\ FrameCycles \in Nat \ {0} /\ WakeupClocks \in Nat \ {0}

VARIABLES
  keys,          \* physical keys, the window's focus, and the page's `keyboard'
  joypad,        \* class Joypad and its bit in IF
  cpu,           \* STOP and its wake-up
  lcd,           \* the PPU as far as frames go
  frame          \* where step_frame is: "idle", "dots" or "access"

vars == <<keys, joypad, cpu, lcd, frame>>

-----------------------------------------------------------------------------
(* Class Joypad, from one joypad to the next. *)

Groups == {"dpad", "action"}

FreshJoypad ==
  [ select_bits |-> {}, pending_select_bits |-> {}, switch_dots_remaining |-> 0,
    buttons |-> {}, requested |-> FALSE ]

GroupOf(button) == IF button \in Dpad THEN "dpad" ELSE "action"

\* lower_nibble: the lines that are low.
Low(j) == { LineOf[button] : button \in { b \in j.buttons : GroupOf(b) \in j.select_bits } }

\* request_interrupt_if_needed.
RequestIfNeeded(before, after) ==
  [after EXCEPT !.requested = @ \/ Low(after) \ Low(before) # {}]

SwitchingDelay(previous, next) ==
  IF "dpad" \in previous \ next THEN DpadDelay
  ELSE IF "action" \in previous \ next THEN ActionDelay
  ELSE 0

TickDot(j) ==
  IF j.switch_dots_remaining = 0 THEN j
  ELSE IF j.switch_dots_remaining > 1 THEN [j EXCEPT !.switch_dots_remaining = @ - 1]
  ELSE RequestIfNeeded(j, [j EXCEPT !.select_bits = j.pending_select_bits,
                                    !.switch_dots_remaining = 0])

\* Mutant: a deselected group is disconnected at once.
WriteP1AtOnce(j, next) ==
  LET settled == IF j.switch_dots_remaining # 0 THEN j.pending_select_bits ELSE j.select_bits
  IN RequestIfNeeded(j, [j EXCEPT !.pending_select_bits = next, !.select_bits = next,
                                  !.switch_dots_remaining = SwitchingDelay(settled, next)])

\* A switch that is under way ends at once; groups that the new selection leaves
\* out stay connected until their delay is over.
WriteP1(j, next) ==
  LET settled == IF j.switch_dots_remaining # 0 THEN j.pending_select_bits ELSE j.select_bits
      delay == SwitchingDelay(settled, next)
  IN RequestIfNeeded(j, [j EXCEPT !.pending_select_bits = next,
                                  !.select_bits = IF delay = 0 THEN next ELSE settled \cup next,
                                  !.switch_dots_remaining = delay])

\* Mutant: the interrupt is left to the next write of P1.
SetButtonQuietly(j, button, pressed) ==
  [j EXCEPT !.buttons = IF pressed THEN @ \cup {button} ELSE @ \ {button}]

SetButton(j, button, pressed) ==
  RequestIfNeeded(j, [j EXCEPT !.buttons = IF pressed THEN @ \cup {button} ELSE @ \ {button}])

-----------------------------------------------------------------------------
(* Key events, between two frames. *)

FreshCpu == [stopped |-> FALSE, stop_wakeup_requested |-> FALSE, stop_wakeup_cycles_remaining |-> 0]

\* CPU::wake_from_stop.
WakeFromStop(c) ==
  IF ~c.stopped \/ c.stop_wakeup_requested THEN c
  ELSE [c EXCEPT !.stop_wakeup_requested = TRUE, !.stop_wakeup_cycles_remaining = WakeupClocks]

\* Mutant: any button wakes the CPU.
GameBoySetButtonWaking(button, pressed) ==
  joypad' = SetButton(joypad, button, pressed) /\ cpu' = WakeFromStop(cpu)

\* GameBoy::set_button looks for the edge a second time.
GameBoySetButton(button, pressed) ==
  LET after == SetButton(joypad, button, pressed) IN
  /\ joypad' = after
  /\ cpu' = IF Low(after) \ Low(joypad) # {} THEN WakeFromStop(cpu) ELSE cpu

Event == frame = "idle" /\ UNCHANGED <<lcd, frame>>

KeyDown(key) ==
  LET button == ButtonOf[key] IN
  /\ Event /\ key \notin keys.held
  /\ IF keys.focused
     THEN /\ keys' = [keys EXCEPT !.held = @ \cup {key}, !.keyboard = @ \cup {button}]
          /\ GameBoySetButton(button, TRUE)
     ELSE keys' = [keys EXCEPT !.held = @ \cup {key}] /\ UNCHANGED <<joypad, cpu>>

\* A repeated keydown sends the remembered state of the button again.
KeyRepeat(key) ==
  /\ Event /\ key \in keys.held /\ keys.focused /\ UNCHANGED keys
  /\ GameBoySetButton(ButtonOf[key], ButtonOf[key] \in keys.keyboard)

KeyUp(key) ==
  LET button == ButtonOf[key] IN
  /\ Event /\ key \in keys.held
  /\ IF keys.focused
     THEN /\ keys' = [keys EXCEPT !.held = @ \ {key}, !.keyboard = @ \ {button}]
          /\ GameBoySetButton(button, FALSE)
     ELSE keys' = [keys EXCEPT !.held = @ \ {key}] /\ UNCHANGED <<joypad, cpu>>

\* Mutant: the buttons keep what the page forgets.
BlurKeyboard ==
  /\ Event /\ keys.focused /\ UNCHANGED <<joypad, cpu>>
  /\ keys' = [keys EXCEPT !.focused = FALSE, !.keyboard = {}]

\* Releasing all buttons lets lines rise only: nothing is requested or woken.
Blur ==
  /\ Event /\ keys.focused /\ UNCHANGED cpu
  /\ keys' = [keys EXCEPT !.focused = FALSE, !.keyboard = {}]
  /\ joypad' = RequestIfNeeded(joypad, [joypad EXCEPT !.buttons = {}])

Focus == Event /\ ~keys.focused /\ keys' = [keys EXCEPT !.focused = TRUE] /\ UNCHANGED <<joypad, cpu>>

FreshLcd == [enabled |-> FALSE, beam |-> 0, frame_ready |-> FALSE]

\* GameBoy::reset, from the page: the keyboard keeps what it remembers.
Reset ==
  /\ frame = "idle"
  /\ joypad' = FreshJoypad /\ cpu' = FreshCpu /\ lcd' = FreshLcd
  /\ UNCHANGED <<keys, frame>>

-----------------------------------------------------------------------------
(* step_frame. *)

StepFrame ==
  /\ frame = "idle" /\ frame' = "dots"
  /\ lcd' = [lcd EXCEPT !.frame_ready = FALSE]
  /\ UNCHANGED <<keys, joypad, cpu>>

\* In STOP no dot passes: a call of step_m_cycle counts down four clocks, if the
\* oscillator has been started, and sends step_frame back to its caller.
StandStill ==
  /\ frame = "dots" /\ cpu.stopped
  /\ ~cpu.stop_wakeup_requested \/ cpu.stop_wakeup_cycles_remaining > 4
  /\ frame' = "idle"
  /\ cpu' = IF cpu.stop_wakeup_requested
            THEN [cpu EXCEPT !.stop_wakeup_cycles_remaining = @ - 4]
            ELSE cpu
  /\ UNCHANGED <<keys, joypad, lcd>>

WakeUp ==
  /\ frame = "dots" /\ cpu.stopped
  /\ cpu.stop_wakeup_requested /\ cpu.stop_wakeup_cycles_remaining <= 4
  /\ cpu' = FreshCpu
  /\ UNCHANGED <<keys, joypad, lcd, frame>>

\* The PPU, one M-cycle on; it stands still while the LCD is off.
TickLcd(l) ==
  IF ~l.enabled THEN l
  ELSE IF l.beam + 1 < FrameCycles THEN [l EXCEPT !.beam = @ + 1]
  ELSE [l EXCEPT !.beam = 0, !.frame_ready = TRUE]

Dots ==
  /\ frame = "dots" /\ ~cpu.stopped /\ frame' = "access"
  /\ joypad' = TickDot(TickDot(TickDot(TickDot(joypad))))
  /\ lcd' = TickLcd(lcd)
  /\ UNCHANGED <<keys, cpu>>

\* The loop condition of step_frame.
EndMCycle == frame' = IF lcd.frame_ready THEN "idle" ELSE "dots"

Access == frame = "access" /\ EndMCycle /\ UNCHANGED keys

OtherAccess == Access /\ UNCHANGED <<joypad, cpu, lcd>>

AccessP1(groups) == Access /\ joypad' = WriteP1(joypad, groups) /\ UNCHANGED <<cpu, lcd>>

\* The program writes IF, or the dispatch of its interrupt clears the joypad's bit.
AccessIf(bit) == Access /\ joypad' = [joypad EXCEPT !.requested = bit] /\ UNCHANGED <<cpu, lcd>>

Stop == Access /\ cpu' = [cpu EXCEPT !.stopped = TRUE] /\ UNCHANGED <<joypad, lcd>>

\* Mutant: every write of LCDC begins a new frame.
WriteLcdcRestarting(l, enabled) == [l EXCEPT !.enabled = enabled, !.beam = 0]

\* PPU::write of LCDC: only switching the LCD begins a new frame.
WriteLcdc(l, enabled) ==
  [l EXCEPT !.enabled = enabled, !.beam = IF enabled = l.enabled THEN @ ELSE 0]

AccessLcdc(enabled) == Access /\ lcd' = WriteLcdc(lcd, enabled) /\ UNCHANGED <<joypad, cpu>>

-----------------------------------------------------------------------------
Init ==
  /\ keys = [held |-> {}, focused |-> TRUE, keyboard |-> {}]
  /\ joypad = FreshJoypad /\ cpu = FreshCpu /\ lcd = FreshLcd /\ frame = "idle"

RunFrame ==
  \/ StandStill \/ WakeUp \/ Dots
  \/ OtherAccess \/ Stop
  \/ \E bit \in BOOLEAN : AccessIf(bit)
  \/ \E groups \in SUBSET Groups : AccessP1(groups)
  \/ \E enabled \in BOOLEAN : AccessLcdc(enabled)

Next ==
  \/ \E key \in Keys : KeyDown(key) \/ KeyRepeat(key) \/ KeyUp(key)
  \/ Blur \/ Focus \/ Reset
  \/ StepFrame
  \/ RunFrame

Spec == Init /\ [][Next]_vars

\* A call of step_frame runs to its end, and the main loop makes the next one.
FairSpec == Spec /\ WF_vars(RunFrame) /\ WF_vars(StepFrame)

-----------------------------------------------------------------------------
(* Properties. *)

TypeOK ==
  /\ keys \in [held : SUBSET Keys, focused : BOOLEAN, keyboard : SUBSET Buttons]
  /\ joypad \in [ select_bits : SUBSET Groups, pending_select_bits : SUBSET Groups,
                  switch_dots_remaining : 0 .. DpadDelay + ActionDelay,
                  buttons : SUBSET Buttons, requested : BOOLEAN ]
  /\ cpu \in [ stopped : BOOLEAN, stop_wakeup_requested : BOOLEAN,
               stop_wakeup_cycles_remaining : 0 .. WakeupClocks ]
  /\ lcd \in [enabled : BOOLEAN, beam : 0 .. FrameCycles - 1, frame_ready : BOOLEAN]
  /\ frame \in {"idle", "dots", "access"}

\* No button stays pressed behind the player's back: a pressed button is one that
\* the page remembers, and a remembered one has a key that is held in a window
\* with the focus, across repeats, two keys of one button, resets and lost keyups.
NoStuckButton ==
  /\ joypad.buttons \subseteq keys.keyboard
  /\ \A button \in keys.keyboard :
       keys.focused /\ \E key \in keys.held : ButtonOf[key] = button

\* A group that the program selects is connected at once, and one that it left out
\* only while the switching delay runs, however writes follow one another.
DelayedDisconnection ==
  /\ joypad.pending_select_bits \subseteq joypad.select_bits
  /\ joypad.select_bits = joypad.pending_select_bits <=> joypad.switch_dots_remaining = 0

\* A line that falls, by a press or by a selection, requests the interrupt, and
\* nothing but a write of IF does so else; in STOP it starts the oscillator too.
FallingLines ==
  LET fallen == Low(joypad') \ Low(joypad) # {} IN
  /\ fallen => joypad'.requested
  /\ joypad'.requested /\ ~joypad.requested /\ ~fallen => \E bit \in BOOLEAN : AccessIf(bit)
  /\ fallen /\ cpu.stopped => cpu'.stop_wakeup_requested

EdgesInterrupt == [][FallingLines]_vars

\* The joypad and the console detect the edge of a press separately, and agree:
\* a CPU that leaves STOP finds the interrupt that woke it.
WokenByItsInterrupt == cpu.stop_wakeup_requested => cpu.stopped /\ joypad.requested

\* With the LCD on for good, whatever the program does, step_frame comes back to
\* the browser again and again, and a woken CPU leaves STOP.
FramesEnd ==
  <>[]lcd.enabled =>
    /\ []<>(frame = "idle")
    /\ cpu.stop_wakeup_requested ~> ~cpu.stopped
=============================================================================
