---------------------------- MODULE FrameProofs ----------------------------
(***************************************************************************)
(* Proofs about what a frame is made of.  First Console, for every         *)
(* keyboard, button matrix, delay and frame length: its type, no stuck     *)
(* button, the delayed disconnection, and that a CPU woken from STOP finds *)
(* the interrupt that woke it.                                             *)
(*                                                                         *)
(* Then Scanline, for every width, line and write.  The first inductive    *)
(* invariant (DrawInv) keeps accounts: startup, each pixel, each window    *)
(* and each object pay for some dots, and the dots that passed and those   *)
(* still owed before the next pixel never exceed what was paid.  The       *)
(* second (PictureInv) is about a line that the program leaves alone: it   *)
(* tells the fetcher's finds, both FIFOs, the fetched objects and the      *)
(* picture so far from the place of the line.                              *)
(***************************************************************************)
EXTENDS Console, Scanline, SequenceTheorems, WellFoundedInduction, FiniteSetTheorems, TLAPS

-----------------------------------------------------------------------------
(* Console. *)

KeysType == [held : SUBSET Keys, focused : BOOLEAN, keyboard : SUBSET Buttons]

JoypadType ==
  [ select_bits : SUBSET Groups, pending_select_bits : SUBSET Groups,
    switch_dots_remaining : 0 .. DpadDelay + ActionDelay,
    buttons : SUBSET Buttons, requested : BOOLEAN ]

CpuType ==
  [ stopped : BOOLEAN, stop_wakeup_requested : BOOLEAN,
    stop_wakeup_cycles_remaining : 0 .. WakeupClocks ]

LcdType == [enabled : BOOLEAN, beam : 0 .. FrameCycles - 1, frame_ready : BOOLEAN]

LEMMA TypeParts ==
  TypeOK <=> /\ keys \in KeysType /\ joypad \in JoypadType /\ cpu \in CpuType /\ lcd \in LcdType
             /\ frame \in {"idle", "dots", "access"}
  BY DEF TypeOK, KeysType, JoypadType, CpuType, LcdType

\* DelayedDisconnection of any joypad.
Connected(j) ==
  /\ j.pending_select_bits \subseteq j.select_bits
  /\ j.switch_dots_remaining = 0 => j.select_bits = j.pending_select_bits
  /\ j.select_bits = j.pending_select_bits => j.switch_dots_remaining = 0

-----------------------------------------------------------------------------
(* Class Joypad. *)

\* Requesting the interrupt changes nothing else, and withdraws no request.
LEMMA RequestIfNeededRequests ==
  ASSUME NEW before, NEW after \in JoypadType
  PROVE  /\ RequestIfNeeded(before, after) \in JoypadType
         /\ RequestIfNeeded(before, after).select_bits = after.select_bits
         /\ RequestIfNeeded(before, after).pending_select_bits = after.pending_select_bits
         /\ RequestIfNeeded(before, after).switch_dots_remaining = after.switch_dots_remaining
         /\ RequestIfNeeded(before, after).buttons = after.buttons
         /\ after.requested => RequestIfNeeded(before, after).requested
         /\ Low(after) \ Low(before) # {} => RequestIfNeeded(before, after).requested
         /\ RequestIfNeeded(before, after).requested =>
              after.requested \/ Low(after) \ Low(before) # {}
<1>1. ASSUME NEW b \in BOOLEAN
      PROVE  /\ [after EXCEPT !.requested = b] \in JoypadType
             /\ [after EXCEPT !.requested = b].select_bits = after.select_bits
             /\ [after EXCEPT !.requested = b].pending_select_bits = after.pending_select_bits
             /\ [after EXCEPT !.requested = b].switch_dots_remaining = after.switch_dots_remaining
             /\ [after EXCEPT !.requested = b].buttons = after.buttons
             /\ [after EXCEPT !.requested = b].requested = b
  BY DEF JoypadType
<1>2. CASE after.requested
  <2>1. RequestIfNeeded(before, after) = [after EXCEPT !.requested = TRUE]
    BY <1>2, Zenon DEF RequestIfNeeded
  <2> QED BY <1>1, <1>2, <2>1
<1>3. CASE Low(after) \ Low(before) # {}
  <2>1. RequestIfNeeded(before, after) = [after EXCEPT !.requested = TRUE]
    BY <1>3, Zenon DEF RequestIfNeeded
  <2> QED BY <1>1, <1>3, <2>1
<1>4. CASE ~after.requested /\ ~(Low(after) \ Low(before) # {})
  <2>1. (after.requested \/ Low(after) \ Low(before) # {}) = FALSE
    BY <1>4, Zenon
  <2>2. RequestIfNeeded(before, after) = [after EXCEPT !.requested = FALSE]
    BY <2>1, Zenon DEF RequestIfNeeded
  <2>3. RequestIfNeeded(before, after).requested = FALSE
    BY <1>1, <2>2
  <2> QED BY <1>1, <1>4, <2>2, <2>3
<1> QED BY <1>2, <1>3, <1>4

\* A pressed or released button.
LEMMA SetButtonPresses ==
  ASSUME NEW j \in JoypadType, NEW button \in Buttons, NEW pressed \in BOOLEAN
  PROVE  /\ SetButton(j, button, pressed) \in JoypadType
         /\ Connected(j) => Connected(SetButton(j, button, pressed))
         /\ pressed => SetButton(j, button, pressed).buttons = j.buttons \cup {button}
         /\ ~pressed => SetButton(j, button, pressed).buttons = j.buttons \ {button}
         /\ j.requested => SetButton(j, button, pressed).requested
         /\ Low(SetButton(j, button, pressed)) \ Low(j) # {} => SetButton(j, button, pressed).requested
         /\ SetButton(j, button, pressed).requested =>
              j.requested \/ Low(SetButton(j, button, pressed)) \ Low(j) # {}
<1> DEFINE after == [j EXCEPT !.buttons = IF pressed THEN @ \cup {button} ELSE @ \ {button}]
<1>1. /\ after \in JoypadType
      /\ after.select_bits = j.select_bits
      /\ after.pending_select_bits = j.pending_select_bits
      /\ after.switch_dots_remaining = j.switch_dots_remaining
      /\ after.requested <=> j.requested
      /\ pressed => after.buttons = j.buttons \cup {button}
      /\ ~pressed => after.buttons = j.buttons \ {button}
  BY DEF JoypadType
<1>2. SetButton(j, button, pressed) = RequestIfNeeded(j, after)
  BY Zenon DEF SetButton
<1> HIDE DEF after
<1>3. Low(SetButton(j, button, pressed)) = Low(after)
  <2>1. /\ SetButton(j, button, pressed).select_bits = after.select_bits
        /\ SetButton(j, button, pressed).buttons = after.buttons
    BY <1>1, <1>2, RequestIfNeededRequests
  <2> QED BY <2>1, Zenon DEF Low
<1> QED BY <1>1, <1>2, <1>3, RequestIfNeededRequests DEF Connected

\* A group that is disconnected lets lines rise only.
LEMMA DisconnectedLinesRise ==
  ASSUME NEW j, NEW k, k.select_bits \subseteq j.select_bits, k.buttons \subseteq j.buttons
  PROVE  Low(k) \subseteq Low(j)
<1> SUFFICES ASSUME NEW low \in Low(k) PROVE low \in Low(j)
  OBVIOUS
<1>1. PICK b \in k.buttons : GroupOf(b) \in k.select_bits /\ low = LineOf[b]
  BY Zenon DEF Low
<1>2. b \in { c \in j.buttons : GroupOf(c) \in j.select_bits }
  BY <1>1
<1> QED BY <1>1, <1>2, Zenon DEF Low

\* A dot ends a switching in time and leaves the buttons alone.  A switching only
\* disconnects, so the request that tick_dots makes for a falling line never comes.
LEMMA TickDotSwitches ==
  ASSUME NEW j \in JoypadType, Connected(j)
  PROVE  /\ TickDot(j) \in JoypadType
         /\ Connected(TickDot(j))
         /\ TickDot(j).buttons = j.buttons
         /\ TickDot(j).select_bits \subseteq j.select_bits
         /\ TickDot(j).requested => j.requested
<1>a. DpadDelay \in Nat \ {0} /\ ActionDelay \in Nat \ {0}
  BY ConsoleAssumption
<1>b. j.switch_dots_remaining \in 0 .. DpadDelay + ActionDelay
  BY DEF JoypadType
<1>1. CASE j.switch_dots_remaining = 0
  BY <1>1 DEF TickDot
<1>2. CASE j.switch_dots_remaining > 1
  <2> DEFINE after == [j EXCEPT !.switch_dots_remaining = @ - 1]
  <2>1. TickDot(j) = after
    BY <1>2, <1>b DEF TickDot
  <2>2. j.switch_dots_remaining - 1 \in 0 .. DpadDelay + ActionDelay /\ j.switch_dots_remaining - 1 # 0
    BY <1>2, <1>a, <1>b
  <2>3. /\ after \in JoypadType
        /\ after.select_bits = j.select_bits
        /\ after.pending_select_bits = j.pending_select_bits
        /\ after.switch_dots_remaining = j.switch_dots_remaining - 1
        /\ after.buttons = j.buttons
        /\ after.requested => j.requested
    BY <2>2 DEF JoypadType
  <2> HIDE DEF after
  <2> QED BY <1>2, <2>1, <2>2, <2>3 DEF Connected
<1>3. CASE j.switch_dots_remaining = 1
  <2> DEFINE after == [j EXCEPT !.select_bits = j.pending_select_bits, !.switch_dots_remaining = 0]
  <2>1. TickDot(j) = RequestIfNeeded(j, after)
    BY <1>3 DEF TickDot
  <2>2. 0 \in 0 .. DpadDelay + ActionDelay
    BY <1>a
  <2>3. /\ after \in JoypadType
        /\ after.select_bits = j.pending_select_bits
        /\ after.pending_select_bits = j.pending_select_bits
        /\ after.switch_dots_remaining = 0
        /\ after.buttons = j.buttons
        /\ after.requested => j.requested
    BY <2>2 DEF JoypadType
  <2> HIDE DEF after
  <2>4. after.select_bits \subseteq j.select_bits
    BY <2>3 DEF Connected
  <2>5. Low(after) \ Low(j) = {}
    BY <2>3, <2>4, DisconnectedLinesRise
  <2> QED BY <2>1, <2>3, <2>4, <2>5, RequestIfNeededRequests DEF Connected
<1> QED BY <1>1, <1>2, <1>3, <1>b

\* A switch takes time if and only if it leaves a group out.
LEMMA SwitchingTakesTime ==
  ASSUME NEW previous \in SUBSET Groups, NEW next \in SUBSET Groups
  PROVE  /\ SwitchingDelay(previous, next) \in 0 .. DpadDelay + ActionDelay
         /\ SwitchingDelay(previous, next) = 0 => previous \subseteq next
         /\ SwitchingDelay(previous, next) # 0 => ~(previous \subseteq next)
<1>a. DpadDelay \in Nat \ {0} /\ ActionDelay \in Nat \ {0}
  BY ConsoleAssumption
<1>1. CASE "dpad" \in previous \ next
  BY <1>1, <1>a DEF SwitchingDelay
<1>2. CASE "dpad" \notin previous \ next /\ "action" \in previous \ next
  BY <1>2, <1>a DEF SwitchingDelay
<1>3. CASE "dpad" \notin previous \ next /\ "action" \notin previous \ next
  BY <1>3, <1>a DEF SwitchingDelay, Groups
<1> QED BY <1>1, <1>2, <1>3

\* A write of P1, also while an earlier one is still being carried out.
LEMMA WriteP1Connects ==
  ASSUME NEW j \in JoypadType, Connected(j), NEW next \in SUBSET Groups
  PROVE  /\ WriteP1(j, next) \in JoypadType
         /\ Connected(WriteP1(j, next))
         /\ WriteP1(j, next).buttons = j.buttons
         /\ Low(WriteP1(j, next)) \ Low(j) # {} => WriteP1(j, next).requested
         /\ WriteP1(j, next).requested => j.requested \/ Low(WriteP1(j, next)) \ Low(j) # {}
<1> DEFINE settled == IF j.switch_dots_remaining # 0 THEN j.pending_select_bits ELSE j.select_bits
           delay == SwitchingDelay(settled, next)
           connected == IF delay = 0 THEN next ELSE settled \cup next
           after == [j EXCEPT !.pending_select_bits = next, !.select_bits = connected,
                              !.switch_dots_remaining = delay]
<1>1. settled \in SUBSET Groups
  BY DEF JoypadType
<1>2. WriteP1(j, next) = RequestIfNeeded(j, after)
  BY Zenon DEF WriteP1
<1> HIDE DEF settled
<1>3. /\ delay \in 0 .. DpadDelay + ActionDelay
      /\ delay = 0 => settled \subseteq next
      /\ delay # 0 => ~(settled \subseteq next)
  BY <1>1, SwitchingTakesTime
<1> HIDE DEF delay
<1>4. /\ connected \in SUBSET Groups
      /\ next \subseteq connected
      /\ delay = 0 => connected = next
      /\ connected = next => delay = 0
  BY <1>1, <1>3
<1> HIDE DEF connected
<1>5. /\ after \in JoypadType
      /\ after.select_bits = connected
      /\ after.pending_select_bits = next
      /\ after.switch_dots_remaining = delay
      /\ after.buttons = j.buttons
      /\ after.requested => j.requested
  BY <1>3, <1>4 DEF JoypadType
<1> HIDE DEF after
<1>6. /\ WriteP1(j, next).select_bits = after.select_bits
      /\ WriteP1(j, next).buttons = after.buttons
  BY <1>2, <1>5, RequestIfNeededRequests
<1>7. Low(WriteP1(j, next)) = Low(after)
  BY <1>6, Zenon DEF Low
<1> QED BY <1>2, <1>4, <1>5, <1>7, RequestIfNeededRequests DEF Connected

-----------------------------------------------------------------------------
(* The invariant.  Accesses happen only while the CPU runs; so what clears the *)
(* joypad's request cannot happen between a wake-up's request and its end.     *)

AccessesRun == frame = "access" => ~cpu.stopped

Woken == cpu.stop_wakeup_requested => cpu.stopped /\ joypad.requested

IInv ==
  /\ keys \in KeysType
  /\ joypad \in JoypadType /\ Connected(joypad)
  /\ cpu \in CpuType
  /\ lcd \in LcdType
  /\ frame \in {"idle", "dots", "access"}
  /\ NoStuckButton
  /\ AccessesRun
  /\ Woken

LEMMA InitIInv == Init => IInv
<1> SUFFICES ASSUME Init PROVE IInv
  OBVIOUS
<1>a. /\ DpadDelay \in Nat \ {0} /\ ActionDelay \in Nat \ {0}
      /\ FrameCycles \in Nat \ {0} /\ WakeupClocks \in Nat \ {0}
  BY ConsoleAssumption
<1>1. keys \in KeysType
  BY DEF Init, KeysType
<1>2. joypad \in JoypadType /\ Connected(joypad)
  BY <1>a DEF Init, FreshJoypad, JoypadType, Connected
<1>3. cpu \in CpuType
  BY <1>a DEF Init, FreshCpu, CpuType
<1>4. lcd \in LcdType
  BY <1>a DEF Init, FreshLcd, LcdType
<1>5. NoStuckButton
  BY DEF Init, FreshJoypad, NoStuckButton
<1>6. AccessesRun /\ Woken
  BY DEF Init, FreshCpu, AccessesRun, Woken
<1>7. frame \in {"idle", "dots", "access"}
  BY DEF Init
<1> QED BY <1>1, <1>2, <1>3, <1>4, <1>5, <1>6, <1>7 DEF IInv

\* WakeFromStop starts the oscillator of a stopped CPU and no other.
LEMMA WakeFromStopWakes ==
  ASSUME NEW c \in CpuType, c.stop_wakeup_requested => c.stopped
  PROVE  /\ WakeFromStop(c) \in CpuType
         /\ WakeFromStop(c).stopped = c.stopped
         /\ WakeFromStop(c).stop_wakeup_requested => WakeFromStop(c).stopped
<1>a. WakeupClocks \in 0 .. WakeupClocks
  BY ConsoleAssumption
<1>1. CASE ~c.stopped \/ c.stop_wakeup_requested
  <2>1. WakeFromStop(c) = c
    BY <1>1, Zenon DEF WakeFromStop
  <2> QED BY <2>1
<1>2. CASE ~(~c.stopped \/ c.stop_wakeup_requested)
  <2> DEFINE woken == [c EXCEPT !.stop_wakeup_requested = TRUE, !.stop_wakeup_cycles_remaining = WakeupClocks]
  <2>1. WakeFromStop(c) = woken
    BY <1>2, Zenon DEF WakeFromStop
  <2>2. woken \in CpuType /\ woken.stopped = c.stopped
    BY <1>a DEF CpuType
  <2> QED BY <1>2, <2>1, <2>2, Zenon
<1> QED BY <1>1, <1>2

\* A key event that reaches the console, whatever it does to the keys.
LEMMA GameBoySetButtonKeeps ==
  ASSUME IInv, frame = "idle", NEW button \in Buttons, NEW pressed \in BOOLEAN,
         GameBoySetButton(button, pressed)
  PROVE  /\ joypad' \in JoypadType /\ Connected(joypad)'
         /\ cpu' \in CpuType
         /\ Woken'
         /\ pressed => joypad'.buttons = joypad.buttons \cup {button}
         /\ ~pressed => joypad'.buttons = joypad.buttons \ {button}
<1>1. joypad \in JoypadType /\ Connected(joypad) /\ cpu \in CpuType /\ Woken
  BY DEF IInv
<1>2. joypad' = SetButton(joypad, button, pressed)
  BY DEF GameBoySetButton
<1>3. /\ joypad' \in JoypadType
      /\ Connected(joypad)'
      /\ pressed => joypad'.buttons = joypad.buttons \cup {button}
      /\ ~pressed => joypad'.buttons = joypad.buttons \ {button}
      /\ joypad.requested => joypad'.requested
      /\ Low(joypad') \ Low(joypad) # {} => joypad'.requested
  <2>1. Connected(SetButton(joypad, button, pressed))
    BY <1>1, SetButtonPresses
  <2>2. Connected(joypad)'
    BY <1>2, <2>1 DEF Connected
  <2> QED BY <1>1, <1>2, <2>2, SetButtonPresses
<1>4. CASE Low(joypad') \ Low(joypad) # {}
  <2>1. cpu' = WakeFromStop(cpu)
    BY <1>2, <1>4, Zenon DEF GameBoySetButton
  <2>2. /\ cpu' \in CpuType
        /\ cpu'.stop_wakeup_requested => cpu'.stopped
    BY <1>1, <2>1, WakeFromStopWakes DEF Woken
  <2> QED BY <1>3, <1>4, <2>2 DEF Woken
<1>5. CASE ~(Low(joypad') \ Low(joypad) # {})
  <2>1. cpu' = cpu
    BY <1>2, <1>5, Zenon DEF GameBoySetButton
  <2> QED BY <1>1, <1>3, <2>1 DEF Woken
<1> QED BY <1>4, <1>5

\* No key event leaves the keyboard or the buttons behind the keys.
LEMMA EventKeepsIInv ==
  ASSUME IInv, NEW key \in Keys, KeyDown(key) \/ KeyRepeat(key) \/ KeyUp(key)
  PROVE  IInv'
<1> DEFINE button == ButtonOf[key]
<1>a. button \in Buttons
  BY ConsoleAssumption
<1>b. /\ keys \in KeysType /\ joypad \in JoypadType /\ Connected(joypad) /\ cpu \in CpuType
      /\ lcd \in LcdType /\ NoStuckButton /\ Woken
  BY DEF IInv
<1>c. frame = "idle" /\ frame' = frame /\ lcd' = lcd
  BY Zenon DEF KeyDown, KeyRepeat, KeyUp, Event
<1>d. frame' \in {"idle", "dots", "access"} /\ AccessesRun' /\ lcd' \in LcdType
  BY <1>b, <1>c DEF AccessesRun
<1>e. ASSUME keys' \in KeysType, NoStuckButton', joypad' \in JoypadType, Connected(joypad)',
             cpu' \in CpuType, Woken'
      PROVE  IInv'
  BY <1>d, <1>e DEF IInv
<1>f. ASSUME UNCHANGED <<joypad, cpu>>
      PROVE  joypad' \in JoypadType /\ Connected(joypad)' /\ cpu' \in CpuType /\ Woken'
  BY <1>b, <1>f DEF Connected, Woken
<1>1. CASE KeyDown(key)
  <2>1. CASE keys.focused
    <3>1. keys' = [keys EXCEPT !.held = @ \cup {key}, !.keyboard = @ \cup {button}]
      BY <1>1, <2>1, Zenon DEF KeyDown
    <3>2. GameBoySetButton(button, TRUE)
      BY <1>1, <2>1, Zenon DEF KeyDown
    <3>3. /\ keys' \in KeysType /\ keys'.focused = keys.focused
          /\ keys'.held = keys.held \cup {key} /\ keys'.keyboard = keys.keyboard \cup {button}
      BY <1>a, <1>b, <3>1 DEF KeysType
    <3>4. /\ joypad' \in JoypadType /\ Connected(joypad)' /\ cpu' \in CpuType /\ Woken'
          /\ joypad'.buttons = joypad.buttons \cup {button}
      BY <1>a, <1>c, <3>2, GameBoySetButtonKeeps
    <3>5. NoStuckButton'
      BY <1>b, <2>1, <3>3, <3>4 DEF NoStuckButton
    <3> QED BY <1>e, <3>3, <3>4, <3>5
  <2>2. CASE ~keys.focused
    <3>1. keys' = [keys EXCEPT !.held = @ \cup {key}] /\ UNCHANGED <<joypad, cpu>>
      BY <1>1, <2>2, Zenon DEF KeyDown
    <3>2. /\ keys' \in KeysType /\ keys'.focused = keys.focused /\ keys'.keyboard = keys.keyboard
          /\ keys'.held = keys.held \cup {key}
      BY <1>b, <3>1 DEF KeysType
    <3>3. NoStuckButton'
      BY <1>b, <3>1, <3>2 DEF NoStuckButton
    <3> QED BY <1>e, <1>f, <3>1, <3>2, <3>3
  <2> QED BY <2>1, <2>2
<1>2. CASE KeyRepeat(key)
  <2>1. /\ keys' = keys /\ key \in keys.held /\ keys.focused
        /\ GameBoySetButton(button, button \in keys.keyboard)
    BY <1>2, Zenon DEF KeyRepeat
  <2>2. CASE button \in keys.keyboard
    <3>1. (button \in keys.keyboard) = TRUE
      BY <2>2, Zenon
    <3>2. GameBoySetButton(button, TRUE)
      BY <2>1, <3>1, Zenon
    <3>3. /\ joypad' \in JoypadType /\ Connected(joypad)' /\ cpu' \in CpuType /\ Woken'
          /\ joypad'.buttons = joypad.buttons \cup {button}
      BY <1>a, <1>c, <3>2, GameBoySetButtonKeeps
    <3>4. NoStuckButton'
      BY <1>b, <2>1, <2>2, <3>3 DEF NoStuckButton
    <3> QED BY <1>b, <1>e, <2>1, <3>3, <3>4
  <2>3. CASE ~(button \in keys.keyboard)
    <3>1. (button \in keys.keyboard) = FALSE
      BY <2>3
    <3>2. GameBoySetButton(button, FALSE)
      BY <2>1, <3>1, Zenon
    <3>3. /\ joypad' \in JoypadType /\ Connected(joypad)' /\ cpu' \in CpuType /\ Woken'
          /\ joypad'.buttons = joypad.buttons \ {button}
      BY <1>a, <1>c, <3>2, GameBoySetButtonKeeps
    <3>4. NoStuckButton'
      BY <1>b, <2>1, <3>3 DEF NoStuckButton
    <3> QED BY <1>b, <1>e, <2>1, <3>3, <3>4
  <2> QED BY <2>2, <2>3
<1>3. CASE KeyUp(key)
  <2>1. CASE keys.focused
    <3>1. keys' = [keys EXCEPT !.held = @ \ {key}, !.keyboard = @ \ {button}]
      BY <1>3, <2>1, Zenon DEF KeyUp
    <3>2. GameBoySetButton(button, FALSE)
      BY <1>3, <2>1, Zenon DEF KeyUp
    <3>3. /\ keys' \in KeysType /\ keys'.focused = keys.focused
          /\ keys'.held = keys.held \ {key} /\ keys'.keyboard = keys.keyboard \ {button}
      BY <1>a, <1>b, <3>1 DEF KeysType
    <3>4. /\ joypad' \in JoypadType /\ Connected(joypad)' /\ cpu' \in CpuType /\ Woken'
          /\ joypad'.buttons = joypad.buttons \ {button}
      BY <1>a, <1>c, <3>2, GameBoySetButtonKeeps
    <3>5. NoStuckButton'
      BY <1>b, <2>1, <3>3, <3>4 DEF NoStuckButton
    <3> QED BY <1>e, <3>3, <3>4, <3>5
  <2>2. CASE ~keys.focused
    <3>1. keys' = [keys EXCEPT !.held = @ \ {key}] /\ UNCHANGED <<joypad, cpu>>
      BY <1>3, <2>2, Zenon DEF KeyUp
    <3>2. /\ keys' \in KeysType /\ keys'.focused = keys.focused /\ keys'.keyboard = keys.keyboard
      BY <1>b, <3>1 DEF KeysType
    <3>3. NoStuckButton'
      BY <1>b, <2>2, <3>1, <3>2 DEF NoStuckButton
    <3> QED BY <1>e, <1>f, <3>1, <3>2, <3>3
  <2> QED BY <2>1, <2>2
<1> QED BY <1>1, <1>2, <1>3

\* The window and the page.
LEMMA WindowKeepsIInv ==
  ASSUME IInv, Blur \/ Focus \/ Reset
  PROVE  IInv'
<1>a. /\ DpadDelay \in Nat \ {0} /\ ActionDelay \in Nat \ {0}
      /\ FrameCycles \in Nat \ {0} /\ WakeupClocks \in Nat \ {0}
  BY ConsoleAssumption
<1>b. /\ keys \in KeysType /\ joypad \in JoypadType /\ Connected(joypad) /\ cpu \in CpuType
      /\ lcd \in LcdType /\ NoStuckButton /\ Woken
  BY DEF IInv
<1>c. frame = "idle" /\ frame' = frame
  BY Zenon DEF Blur, Focus, Reset, Event
<1>d. frame' \in {"idle", "dots", "access"} /\ AccessesRun'
  BY <1>c DEF AccessesRun
<1>1. CASE Blur
  <2> DEFINE after == [joypad EXCEPT !.buttons = {}]
  <2>1. /\ keys' = [keys EXCEPT !.focused = FALSE, !.keyboard = {}]
        /\ joypad' = RequestIfNeeded(joypad, after)
        /\ cpu' = cpu /\ lcd' = lcd
    BY <1>1, Zenon DEF Blur, Event
  <2>2. /\ after \in JoypadType /\ after.buttons = {}
        /\ after.select_bits = joypad.select_bits
        /\ after.pending_select_bits = joypad.pending_select_bits
        /\ after.switch_dots_remaining = joypad.switch_dots_remaining
        /\ joypad.requested => after.requested
    BY <1>b DEF JoypadType
  <2> HIDE DEF after
  <2>3. /\ joypad' \in JoypadType /\ joypad'.buttons = {}
        /\ joypad.requested => joypad'.requested
    BY <2>1, <2>2, RequestIfNeededRequests
  <2>4. Connected(joypad)'
    BY <1>b, <2>1, <2>2, RequestIfNeededRequests DEF Connected
  <2>5. keys' \in KeysType /\ keys'.keyboard = {}
    BY <1>b, <2>1 DEF KeysType
  <2>6. NoStuckButton'
    BY <2>3, <2>5 DEF NoStuckButton
  <2>7. Woken'
    BY <1>b, <2>1, <2>3 DEF Woken
  <2> QED BY <1>b, <1>d, <2>1, <2>3, <2>4, <2>5, <2>6, <2>7 DEF IInv
<1>2. CASE Focus
  <2>1. keys' = [keys EXCEPT !.focused = TRUE] /\ ~keys.focused
        /\ joypad' = joypad /\ cpu' = cpu /\ lcd' = lcd
    BY <1>2, Zenon DEF Focus, Event
  <2>2. keys' \in KeysType /\ keys'.keyboard = keys.keyboard /\ keys'.held = keys.held
    BY <1>b, <2>1 DEF KeysType
  <2>3. NoStuckButton'
    BY <1>b, <2>1, <2>2 DEF NoStuckButton
  <2>4. Connected(joypad)' /\ Woken'
    BY <1>b, <2>1 DEF Connected, Woken
  <2> QED BY <1>b, <1>d, <2>1, <2>2, <2>3, <2>4 DEF IInv
<1>3. CASE Reset
  <2>1. keys' = keys /\ joypad' = FreshJoypad /\ cpu' = FreshCpu /\ lcd' = FreshLcd
    BY <1>3, Zenon DEF Reset
  <2>2. joypad' \in JoypadType /\ joypad'.buttons = {}
    BY <1>a, <2>1 DEF FreshJoypad, JoypadType
  <2>3. Connected(joypad)'
    BY <2>1 DEF FreshJoypad, Connected
  <2>4. cpu' \in CpuType /\ ~cpu'.stop_wakeup_requested
    BY <1>a, <2>1 DEF FreshCpu, CpuType
  <2>5. lcd' \in LcdType
    BY <1>a, <2>1 DEF FreshLcd, LcdType
  <2>6. NoStuckButton' /\ Woken'
    BY <1>b, <2>1, <2>2, <2>4 DEF NoStuckButton, Woken
  <2> QED BY <1>b, <1>d, <2>1, <2>2, <2>3, <2>4, <2>5, <2>6 DEF IInv
<1> QED BY <1>1, <1>2, <1>3

\* The frame loop, its dots and its accesses.
LEMMA FrameKeepsIInv ==
  ASSUME IInv, StepFrame \/ RunFrame
  PROVE  IInv'
<1>a. /\ FrameCycles \in Nat \ {0} /\ WakeupClocks \in Nat \ {0}
  BY ConsoleAssumption
<1>b. /\ keys \in KeysType /\ joypad \in JoypadType /\ Connected(joypad) /\ cpu \in CpuType
      /\ lcd \in LcdType /\ NoStuckButton /\ AccessesRun /\ Woken
  BY DEF IInv
<1>c. keys' = keys
  BY Zenon DEF StepFrame, RunFrame, StandStill, WakeUp, Dots, OtherAccess, Stop, AccessIf,
               AccessP1, AccessLcdc, Access
<1>d. ASSUME joypad' = joypad
      PROVE  joypad' \in JoypadType /\ Connected(joypad)' /\ NoStuckButton'
  BY <1>b, <1>c, <1>d DEF Connected, NoStuckButton
<1>e. ASSUME joypad' \in JoypadType, Connected(joypad)', NoStuckButton',
             cpu' \in CpuType, lcd' \in LcdType, frame' \in {"idle", "dots", "access"},
             AccessesRun', Woken'
      PROVE  IInv'
  BY <1>b, <1>c, <1>e DEF IInv
<1>f. ASSUME Access
      PROVE  frame' \in {"idle", "dots", "access"} /\ AccessesRun' /\ ~cpu.stopped
  BY <1>b, <1>f DEF Access, EndMCycle, AccessesRun
<1>g. ASSUME joypad' \in JoypadType, joypad'.buttons = joypad.buttons
      PROVE  NoStuckButton'
  BY <1>b, <1>c, <1>g DEF NoStuckButton
<1>1. CASE StepFrame
  <2>1. joypad' = joypad /\ cpu' = cpu /\ frame' = "dots" /\ lcd' = [lcd EXCEPT !.frame_ready = FALSE]
    BY <1>1, Zenon DEF StepFrame
  <2>2. lcd' \in LcdType
    BY <1>b, <2>1 DEF LcdType
  <2>3. AccessesRun' /\ Woken'
    BY <1>b, <2>1 DEF AccessesRun, Woken
  <2> QED BY <1>b, <1>d, <1>e, <2>1, <2>2, <2>3
<1>2. CASE StandStill
  <2>1. /\ joypad' = joypad /\ lcd' = lcd /\ frame' = "idle" /\ cpu.stopped
        /\ ~cpu.stop_wakeup_requested \/ cpu.stop_wakeup_cycles_remaining > 4
        /\ cpu' = IF cpu.stop_wakeup_requested
                  THEN [cpu EXCEPT !.stop_wakeup_cycles_remaining = @ - 4] ELSE cpu
    BY <1>2, Zenon DEF StandStill
  <2>2. cpu' \in CpuType /\ (cpu'.stop_wakeup_requested => cpu.stop_wakeup_requested /\ cpu'.stopped)
    <3>1. CASE cpu.stop_wakeup_requested
      <4>1. cpu.stop_wakeup_cycles_remaining - 4 \in 0 .. WakeupClocks
        BY <1>a, <1>b, <2>1, <3>1 DEF CpuType
      <4>2. cpu' = [cpu EXCEPT !.stop_wakeup_cycles_remaining = @ - 4]
        BY <2>1, <3>1, Zenon
      <4> QED BY <1>b, <2>1, <3>1, <4>1, <4>2 DEF CpuType
    <3>2. CASE ~cpu.stop_wakeup_requested
      BY <1>b, <2>1, <3>2
    <3> QED BY <3>1, <3>2
  <2>3. AccessesRun' /\ Woken'
    BY <1>b, <2>1, <2>2 DEF AccessesRun, Woken
  <2> QED BY <1>b, <1>d, <1>e, <2>1, <2>2, <2>3
<1>3. CASE WakeUp
  <2>1. joypad' = joypad /\ lcd' = lcd /\ frame = "dots" /\ frame' = frame /\ cpu' = FreshCpu
    BY <1>3, Zenon DEF WakeUp
  <2>2. cpu' \in CpuType /\ ~cpu'.stop_wakeup_requested
    BY <1>a, <2>1 DEF FreshCpu, CpuType
  <2>3. AccessesRun' /\ Woken'
    BY <2>1, <2>2 DEF AccessesRun, Woken
  <2> QED BY <1>b, <1>d, <1>e, <2>1, <2>2, <2>3
<1>4. CASE Dots
  <2>1. /\ frame' = "access" /\ ~cpu.stopped /\ cpu' = cpu
        /\ joypad' = TickDot(TickDot(TickDot(TickDot(joypad))))
        /\ lcd' = TickLcd(lcd)
    BY <1>4, Zenon DEF Dots
  <2>2. joypad' \in JoypadType /\ Connected(joypad)' /\ joypad'.buttons = joypad.buttons
    <3> DEFINE j1 == TickDot(joypad)
               j2 == TickDot(j1)
               j3 == TickDot(j2)
               j4 == TickDot(j3)
    <3>1. j1 \in JoypadType /\ Connected(j1) /\ j1.buttons = joypad.buttons
      BY <1>b, TickDotSwitches
    <3>2. joypad' = j4
      BY <2>1
    <3> HIDE DEF j1
    <3>3. j2 \in JoypadType /\ Connected(j2) /\ j2.buttons = joypad.buttons
      BY <3>1, TickDotSwitches
    <3> HIDE DEF j2
    <3>4. j3 \in JoypadType /\ Connected(j3) /\ j3.buttons = joypad.buttons
      BY <3>3, TickDotSwitches
    <3> HIDE DEF j3
    <3>5. j4 \in JoypadType /\ Connected(j4) /\ j4.buttons = joypad.buttons
      BY <3>4, TickDotSwitches
    <3> HIDE DEF j4
    <3> QED BY <3>2, <3>5 DEF Connected
  <2>3. lcd' \in LcdType
    <3>1. CASE ~lcd.enabled
      BY <1>b, <2>1, <3>1 DEF TickLcd
    <3>2. CASE lcd.enabled /\ lcd.beam + 1 < FrameCycles
      <4>1. lcd' = [lcd EXCEPT !.beam = @ + 1]
        BY <2>1, <3>2 DEF TickLcd
      <4>2. lcd.beam + 1 \in 0 .. FrameCycles - 1
        BY <1>a, <1>b, <3>2 DEF LcdType
      <4> QED BY <1>b, <4>1, <4>2 DEF LcdType
    <3>3. CASE lcd.enabled /\ ~(lcd.beam + 1 < FrameCycles)
      <4>1. lcd' = [lcd EXCEPT !.beam = 0, !.frame_ready = TRUE]
        BY <2>1, <3>3 DEF TickLcd
      <4>2. 0 \in 0 .. FrameCycles - 1
        BY <1>a
      <4> QED BY <1>b, <4>1, <4>2 DEF LcdType
    <3> QED BY <3>1, <3>2, <3>3
  <2>4. AccessesRun' /\ Woken'
    BY <1>b, <2>1 DEF AccessesRun, Woken
  <2> QED BY <1>b, <1>e, <1>g, <2>1, <2>2, <2>3, <2>4
<1>5. CASE OtherAccess
  <2>1. Access /\ joypad' = joypad /\ cpu' = cpu /\ lcd' = lcd
    BY <1>5, Zenon DEF OtherAccess
  <2>2. Woken'
    BY <1>b, <2>1 DEF Woken
  <2> QED BY <1>b, <1>d, <1>e, <1>f, <2>1, <2>2
<1>6. CASE Stop
  <2>1. Access /\ joypad' = joypad /\ cpu' = [cpu EXCEPT !.stopped = TRUE] /\ lcd' = lcd
    BY <1>6, Zenon DEF Stop
  <2>2. cpu' \in CpuType /\ cpu'.stop_wakeup_requested = cpu.stop_wakeup_requested
    BY <1>b, <2>1 DEF CpuType
  <2>3. Woken'
    BY <1>b, <1>f, <2>1, <2>2 DEF Woken
  <2>4. frame' \in {"idle", "dots", "access"} /\ AccessesRun'
    BY <2>1 DEF Access, EndMCycle, AccessesRun
  <2> QED BY <1>b, <1>d, <1>e, <2>1, <2>2, <2>3, <2>4
<1>7. CASE \E bit \in BOOLEAN : AccessIf(bit)
  <2>1. PICK bit \in BOOLEAN : AccessIf(bit)
    BY <1>7, Zenon
  <2>2. Access /\ joypad' = [joypad EXCEPT !.requested = bit] /\ cpu' = cpu /\ lcd' = lcd
    BY <2>1, Zenon DEF AccessIf
  <2>3. /\ joypad' \in JoypadType /\ joypad'.buttons = joypad.buttons
        /\ joypad'.select_bits = joypad.select_bits
        /\ joypad'.pending_select_bits = joypad.pending_select_bits
        /\ joypad'.switch_dots_remaining = joypad.switch_dots_remaining
    BY <1>b, <2>2 DEF JoypadType
  <2>4. Connected(joypad)'
    BY <1>b, <2>3 DEF Connected
  <2>5. Woken'
    BY <1>b, <1>f, <2>2 DEF Woken
  <2> QED BY <1>b, <1>e, <1>f, <1>g, <2>2, <2>3, <2>4, <2>5
<1>8. CASE \E groups \in SUBSET Groups : AccessP1(groups)
  <2>1. PICK groups \in SUBSET Groups : AccessP1(groups)
    BY <1>8, Zenon
  <2>2. Access /\ joypad' = WriteP1(joypad, groups) /\ cpu' = cpu /\ lcd' = lcd
    BY <2>1, Zenon DEF AccessP1
  <2>3. joypad' \in JoypadType /\ joypad'.buttons = joypad.buttons /\ Connected(WriteP1(joypad, groups))
    BY <1>b, <2>2, WriteP1Connects
  <2>4. Connected(joypad)'
    BY <2>2, <2>3 DEF Connected
  <2>5. Woken'
    BY <1>b, <1>f, <2>2 DEF Woken
  <2> QED BY <1>b, <1>e, <1>f, <1>g, <2>2, <2>3, <2>4, <2>5
<1>9. CASE \E enabled \in BOOLEAN : AccessLcdc(enabled)
  <2>1. PICK enabled \in BOOLEAN : AccessLcdc(enabled)
    BY <1>9, Zenon
  <2>2. Access /\ lcd' = WriteLcdc(lcd, enabled) /\ joypad' = joypad /\ cpu' = cpu
    BY <2>1, Zenon DEF AccessLcdc
  <2>3. 0 \in 0 .. FrameCycles - 1
    BY <1>a
  <2>4. lcd' \in LcdType
    BY <1>b, <2>2, <2>3 DEF WriteLcdc, LcdType
  <2>5. Woken'
    BY <1>b, <2>2 DEF Woken
  <2> QED BY <1>b, <1>d, <1>e, <1>f, <2>2, <2>4, <2>5
<1> QED BY <1>1, <1>2, <1>3, <1>4, <1>5, <1>6, <1>7, <1>8, <1>9, Zenon DEF RunFrame

LEMMA StutterKeepsIInv ==
  ASSUME IInv, UNCHANGED vars
  PROVE  IInv'
BY DEF IInv, vars, Connected, NoStuckButton, AccessesRun, Woken

LEMMA NextKeepsIInv == IInv /\ [Next]_vars => IInv'
<1> SUFFICES ASSUME IInv, [Next]_vars PROVE IInv'
  OBVIOUS
<1>1. CASE \E key \in Keys : KeyDown(key) \/ KeyRepeat(key) \/ KeyUp(key)
  BY <1>1, EventKeepsIInv
<1>2. CASE Blur \/ Focus \/ Reset
  BY <1>2, WindowKeepsIInv
<1>3. CASE StepFrame \/ RunFrame
  BY <1>3, FrameKeepsIInv
<1>4. CASE UNCHANGED vars
  BY <1>4, StutterKeepsIInv
<1> QED BY <1>1, <1>2, <1>3, <1>4, Zenon DEF Next

LEMMA SpecKeepsIInv == Spec => []IInv
  BY InitIInv, NextKeepsIInv, PTL DEF Spec

-----------------------------------------------------------------------------
(* The edges of the lines. *)

\* FallingLines, where nothing falls and nothing is requested.
LEMMA QuietStep ==
  ASSUME Low(joypad') \subseteq Low(joypad), joypad'.requested => joypad.requested
  PROVE  FallingLines
<1>1. Low(joypad') \ Low(joypad) = {}
  OBVIOUS
<1> QED BY <1>1, Zenon DEF FallingLines

LEMMA UnchangedJoypadIsQuiet ==
  ASSUME joypad' = joypad
  PROVE  FallingLines
<1>1. Low(joypad') \subseteq Low(joypad) /\ (joypad'.requested => joypad.requested)
  BY Zenon
<1> QED BY <1>1, QuietStep

LEMMA GameBoySetButtonInterrupts ==
  ASSUME IInv, NEW button \in Buttons, NEW pressed \in BOOLEAN, GameBoySetButton(button, pressed)
  PROVE  FallingLines
<1>1. joypad \in JoypadType /\ cpu \in CpuType
  BY DEF IInv
<1>2. joypad' = SetButton(joypad, button, pressed)
  BY DEF GameBoySetButton
<1>3. /\ Low(joypad') \ Low(joypad) # {} => joypad'.requested
      /\ joypad'.requested => joypad.requested \/ Low(joypad') \ Low(joypad) # {}
  BY <1>1, <1>2, SetButtonPresses
<1>4. ASSUME Low(joypad') \ Low(joypad) # {}, cpu.stopped
      PROVE  cpu'.stop_wakeup_requested
  <2>1. cpu' = WakeFromStop(cpu)
    BY <1>2, <1>4, Zenon DEF GameBoySetButton
  <2>2. CASE cpu.stop_wakeup_requested
    BY <2>1, <2>2, Zenon DEF WakeFromStop
  <2>3. CASE ~cpu.stop_wakeup_requested
    <3> DEFINE woken == [cpu EXCEPT !.stop_wakeup_requested = TRUE, !.stop_wakeup_cycles_remaining = WakeupClocks]
    <3>1. cpu' = woken
      BY <1>4, <2>1, <2>3, Zenon DEF WakeFromStop
    <3>2. woken.stop_wakeup_requested
      BY <1>1 DEF CpuType
    <3> QED BY <3>1, <3>2, Zenon
  <2> QED BY <2>2, <2>3
<1> QED BY <1>3, <1>4, Zenon DEF FallingLines

LEMMA DotsAreQuiet ==
  ASSUME IInv, Dots
  PROVE  FallingLines
<1> DEFINE j1 == TickDot(joypad)
           j2 == TickDot(j1)
           j3 == TickDot(j2)
           j4 == TickDot(j3)
<1>1. joypad \in JoypadType /\ Connected(joypad) /\ joypad' = j4
  BY DEF IInv, Dots
<1>2. /\ j1 \in JoypadType /\ Connected(j1) /\ j1.buttons = joypad.buttons
      /\ j1.select_bits \subseteq joypad.select_bits /\ (j1.requested => joypad.requested)
  BY <1>1, TickDotSwitches
<1> HIDE DEF j1
<1>3. /\ j2 \in JoypadType /\ Connected(j2) /\ j2.buttons = joypad.buttons
      /\ j2.select_bits \subseteq joypad.select_bits /\ (j2.requested => joypad.requested)
  BY <1>2, TickDotSwitches
<1> HIDE DEF j2
<1>4. /\ j3 \in JoypadType /\ Connected(j3) /\ j3.buttons = joypad.buttons
      /\ j3.select_bits \subseteq joypad.select_bits /\ (j3.requested => joypad.requested)
  BY <1>3, TickDotSwitches
<1> HIDE DEF j3
<1>5. /\ j4.buttons = joypad.buttons
      /\ j4.select_bits \subseteq joypad.select_bits /\ (j4.requested => joypad.requested)
  BY <1>4, TickDotSwitches
<1> HIDE DEF j4
<1>6. Low(joypad') \subseteq Low(joypad)
  BY <1>1, <1>5, DisconnectedLinesRise
<1> QED BY <1>1, <1>5, <1>6, QuietStep

LEMMA AccessP1Interrupts ==
  ASSUME IInv, NEW groups \in SUBSET Groups, AccessP1(groups)
  PROVE  FallingLines
<1>1. joypad \in JoypadType /\ Connected(joypad) /\ ~cpu.stopped
  BY DEF IInv, AccessesRun, AccessP1, Access
<1>2. joypad' = WriteP1(joypad, groups)
  BY DEF AccessP1
<1>3. /\ Low(joypad') \ Low(joypad) # {} => joypad'.requested
      /\ joypad'.requested => joypad.requested \/ Low(joypad') \ Low(joypad) # {}
  BY <1>1, <1>2, WriteP1Connects
<1> QED BY <1>1, <1>3, Zenon DEF FallingLines

LEMMA AccessIfIsNoEdge ==
  ASSUME IInv, NEW bit \in BOOLEAN, AccessIf(bit)
  PROVE  FallingLines
<1>1. joypad \in JoypadType /\ joypad' = [joypad EXCEPT !.requested = bit]
  BY DEF IInv, AccessIf
<1>2. joypad'.buttons = joypad.buttons /\ joypad'.select_bits = joypad.select_bits
  BY <1>1 DEF JoypadType
<1>3. Low(joypad') \ Low(joypad) = {}
  BY <1>2, DisconnectedLinesRise
<1> QED BY <1>3, Zenon DEF FallingLines

LEMMA ReleasingIsQuiet ==
  ASSUME IInv, Blur \/ Reset
  PROVE  FallingLines
<1>1. joypad \in JoypadType
  BY DEF IInv
<1>2. CASE Blur
  <2> DEFINE after == [joypad EXCEPT !.buttons = {}]
  <2>1. joypad' = RequestIfNeeded(joypad, after)
    BY <1>2, Zenon DEF Blur
  <2>2. /\ after \in JoypadType /\ after.buttons = {}
        /\ after.select_bits = joypad.select_bits /\ (after.requested => joypad.requested)
    BY <1>1 DEF JoypadType
  <2> HIDE DEF after
  <2>3. Low(after) \ Low(joypad) = {}
    BY <2>2, DisconnectedLinesRise
  <2>4. joypad'.buttons = {} /\ joypad'.select_bits = joypad.select_bits
        /\ (joypad'.requested => joypad.requested)
    BY <2>1, <2>2, <2>3, RequestIfNeededRequests
  <2>5. Low(joypad') \subseteq Low(joypad)
    BY <2>4, DisconnectedLinesRise
  <2> QED BY <2>4, <2>5, QuietStep
<1>3. CASE Reset
  <2>1. joypad' = FreshJoypad
    BY <1>3, Zenon DEF Reset
  <2>2. joypad'.buttons = {} /\ joypad'.select_bits = {} /\ ~joypad'.requested
    BY <2>1 DEF FreshJoypad
  <2>3. Low(joypad') \subseteq Low(joypad)
    BY <2>2, DisconnectedLinesRise
  <2> QED BY <2>2, <2>3, QuietStep
<1> QED BY <1>2, <1>3

LEMMA EventInterrupts ==
  ASSUME IInv, NEW key \in Keys, KeyDown(key) \/ KeyRepeat(key) \/ KeyUp(key)
  PROVE  FallingLines
<1>1. ButtonOf[key] \in Buttons
  BY ConsoleAssumption
<1>2. CASE \E pressed \in BOOLEAN : GameBoySetButton(ButtonOf[key], pressed)
  BY <1>1, <1>2, GameBoySetButtonInterrupts
<1>3. CASE joypad' = joypad
  BY <1>3, UnchangedJoypadIsQuiet
<1>4. CASE KeyDown(key)
  <2>1. GameBoySetButton(ButtonOf[key], TRUE) \/ joypad' = joypad
    BY <1>4, Zenon DEF KeyDown
  <2> QED BY <1>2, <1>3, <2>1
<1>5. CASE KeyRepeat(key)
  <2>1. GameBoySetButton(ButtonOf[key], ButtonOf[key] \in keys.keyboard)
    BY <1>5, Zenon DEF KeyRepeat
  <2>2. (ButtonOf[key] \in keys.keyboard) \in BOOLEAN
    OBVIOUS
  <2> QED BY <1>1, <2>1, <2>2, GameBoySetButtonInterrupts
<1>6. CASE KeyUp(key)
  <2>1. GameBoySetButton(ButtonOf[key], FALSE) \/ joypad' = joypad
    BY <1>6, Zenon DEF KeyUp
  <2> QED BY <1>2, <1>3, <2>1
<1> QED BY <1>4, <1>5, <1>6

LEMMA StepsInterrupt == IInv /\ [Next]_vars => [FallingLines]_vars
<1> SUFFICES ASSUME IInv, Next PROVE FallingLines
  BY Zenon
<1>1. CASE \E key \in Keys : KeyDown(key) \/ KeyRepeat(key) \/ KeyUp(key)
  BY <1>1, EventInterrupts
<1>2. CASE Blur \/ Reset
  BY <1>2, ReleasingIsQuiet
<1>3. CASE Dots
  BY <1>3, DotsAreQuiet
<1>4. CASE \E groups \in SUBSET Groups : AccessP1(groups)
  BY <1>4, AccessP1Interrupts
<1>5. CASE \E bit \in BOOLEAN : AccessIf(bit)
  BY <1>5, AccessIfIsNoEdge
<1>6. CASE Focus \/ StepFrame \/ StandStill \/ WakeUp \/ OtherAccess \/ Stop
           \/ \E enabled \in BOOLEAN : AccessLcdc(enabled)
  <2>1. joypad' = joypad
    BY <1>6, Zenon DEF Focus, StepFrame, StandStill, WakeUp, OtherAccess, Stop, AccessLcdc
  <2> QED BY <2>1, UnchangedJoypadIsQuiet
<1> QED BY <1>1, <1>2, <1>3, <1>4, <1>5, <1>6, Zenon DEF Next, RunFrame

-----------------------------------------------------------------------------
(* Theorems. *)

\* The console's state has its type.
THEOREM StateHasItsType == Spec => []TypeOK
<1>1. IInv => TypeOK
  BY TypeParts DEF IInv
<1> QED BY <1>1, SpecKeepsIInv, PTL

\* No key event, loss of the focus or reset leaves a button pressed that no held
\* key stands for, for any assignment of keys to buttons.
THEOREM ButtonsFollowTheKeys == Spec => []NoStuckButton
<1>1. IInv => NoStuckButton
  BY DEF IInv
<1> QED BY <1>1, SpecKeepsIInv, PTL

\* Joypad::write and tick_dots keep the connected groups and the delay together,
\* for every pair of delays and any series of writes.
THEOREM DisconnectionIsDelayed == Spec => []DelayedDisconnection
<1>1. IInv => DelayedDisconnection
  BY DEF IInv, Connected, DelayedDisconnection
<1> QED BY <1>1, SpecKeepsIInv, PTL

\* What wakes the CPU from STOP has requested the joypad interrupt, and the request
\* still stands when the oscillator has started.
THEOREM WakingRequestStands == Spec => []WokenByItsInterrupt
<1>1. IInv => WokenByItsInterrupt
  BY DEF IInv, Woken, WokenByItsInterrupt
<1> QED BY <1>1, SpecKeepsIInv, PTL

\* Every falling line requests the joypad interrupt, in STOP it wakes the CPU, and
\* nothing else but a write of IF requests it: for any matrix and any delays.
THEOREM FallingLinesInterrupt == Spec => EdgesInterrupt
  BY SpecKeepsIInv, StepsInterrupt, PTL DEF Spec, EdgesInterrupt

-----------------------------------------------------------------------------
(* The line that module Scanline draws. *)

\* The pixels of the two FIFOs, the steps of an object fetch and the members' kinds.
BgPixel == [layer : {"blank", "bg", "window"}, column : Int]
ObjectPixel == [oam : Nat, pixel : Int]
FetchSteps ==
  {"None", "Align", "OamSecond", "DataLowFirst", "DataLowSecond", "DataHighFirst",
   "DataHighSecond"}

\* The background fetcher.
Fetcher == [step : 0 .. 6, window : BOOLEAN, x : Int, tile : Int]

\* Every member of the PPU that mode 3 changes.
Drawing ==
  [ lcdc : SUBSET Layers, wx : 0 .. 255, scx : 0 .. 255, scx_low : 0 .. 7,
    mode3_startup_dots : 0 .. 4, pixel_position : Int, screen_x : Int,
    bg_fifo : Seq(BgPixel), obj_fifo : Seq(ObjectPixel), fetcher : Fetcher,
    line_objects : SUBSET Nat, fetched : SUBSET Nat,
    object_fetch_step : FetchSteps, object_fetch_index : Nat, object_fetch_aborted : BOOLEAN,
    window_triggered : BOOLEAN, window_active : BOOLEAN, wx_just_changed : BOOLEAN,
    window_line : Int, finished : BOOLEAN ]

\* The fetcher is never late: a FIFO that is not empty lasts until it has fetched.
FetcherIsInTime(d) ==
  IF d.bg_fifo = <<>> THEN d.fetcher.step <= 5 ELSE d.fetcher.step + Len(d.bg_fifo) >= 6

\* The pixels that have left the FIFO.
Pops(d) ==
  IF d.pixel_position < -8 THEN d.pixel_position + 16 ELSE (d.scx_low + d.pixel_position) + 8

\* Where the pixel that leaves next belongs; the window has taken back some columns.
InPlace(d, taken) ==
  \/ /\ d.pixel_position \in -16 .. -9 /\ d.pixel_position + 16 <= d.scx_low
     /\ d.screen_x = 0 /\ taken = 0
  \/ d.pixel_position \in -7 .. -1 /\ d.screen_x = 0 /\ taken = 0
  \/ d.pixel_position >= 0 /\ d.screen_x + taken = d.pixel_position

\* The window is allowed and not there.
MayBegin(d) == ~d.window_active /\ WindowEnabled(d)

\* WX was met one column ago.
Trails(d) == d.wx \in 1 .. Width + 5 /\ d.wx = d.pixel_position + 6 /\ d.screen_x > 0

\* The window would begin, but for a write of WX a dot ago.
MayTrigger(d) == MayBegin(d) /\ (WindowReached(d) \/ Trails(d))

\* Dots until the FIFO has pixels again.
Refill(d) == IF d.bg_fifo = <<>> THEN 6 - d.fetcher.step ELSE 0

\* Dots that the fetch of an object takes once the FIFO has pixels.
FetchDots(d) ==
  CASE d.object_fetch_step = "None" -> 0
    [] d.object_fetch_step = "Align" ->
         (IF d.bg_fifo = <<>> THEN 11 ELSE IF d.fetcher.step < 5 THEN 11 - d.fetcher.step ELSE 6)
    [] d.object_fetch_step = "OamSecond" -> 5
    [] d.object_fetch_step = "DataLowFirst" -> 4
    [] d.object_fetch_step = "DataLowSecond" -> 3
    [] d.object_fetch_step = "DataHighFirst" -> 2
    [] d.object_fetch_step = "DataHighSecond" -> 1

\* Dots that a window would take from the alignment of an object that is fetched.
Misaligned(d) == IF MayTrigger(d) THEN 5 ELSE 0

\* Dots that must pass before the next pixel, whatever comes first.
Owed(d) ==
  (Refill(d) + FetchDots(d))
    + (IF d.wx_just_changed \/ d.object_fetch_step = "Align" THEN Misaligned(d) ELSE 0)

\* Windows that are paid for: one for each write, and the one that is there.
Windows(d, count) == IF d.window_active /\ WindowEnabled(d) THEN count + 1 ELSE count

\* Dots that are paid for: startup, pixels, windows and fetched objects.
Paid(d, count) ==
  (((4 - d.mode3_startup_dots) + Pops(d)) + 7 * Windows(d, count)) + 11 * Cardinality(d.fetched)

\* What was used and what is owed are paid for; no dot draws two pixels.
InBudget(d, count, taken, n) ==
  /\ (n + taken) + Owed(d) <= Paid(d, count)
  /\ (4 - d.mode3_startup_dots) + Pops(d) <= n

\* A column is taken back only after a write.
TakenIsWritten(d, count, taken) ==
  /\ taken <= count
  /\ taken = count => ~d.wx_just_changed /\ ~(MayBegin(d) /\ Trails(d))

\* What mode 3 keeps of its members.
Wellformed(d, taken) ==
  /\ d \in Drawing /\ FetcherIsInTime(d) /\ InPlace(d, taken)
  /\ d.scx_low = line.scx % 8 /\ d.line_objects = ScannedObjects(line)
  /\ d.fetched \subseteq d.line_objects
  /\ d.object_fetch_step # "None" =>
       /\ d.object_fetch_index \in d.line_objects
       /\ line.oam[d.object_fetch_index].x = ObjectMatch(d)
  /\ d.mode3_startup_dots > 0 => d.pixel_position = -16
  /\ d.screen_x \in 0 .. Width /\ d.finished = (d.screen_x = Width)

\* A pixel of the object FIFO is in front of its column, i places from position p.
PixelInPlace(p, i, e) ==
  \/ e = Clear
  \/ /\ e.oam \in 1 .. Len(line.oam)
     /\ \/ e.oam \in AtZero
        \/ p >= -7 /\ e.pixel = ((p + i) - 1) - (line.oam[e.oam].x - 8)

\* Every pixel of the object FIFO is in front of its column.
FifoInPlace(d) ==
  \A i \in 1 .. Len(d.obj_fifo) : PixelInPlace(d.pixel_position, i, d.obj_fifo[i])

\* Every pixel of an object in the picture is in its column, or behind it by a
\* column taken back.
ShownInPlace(p, x, taken) ==
  \A n \in 0 .. x - 1 :
    p[n].layer = "object" /\ p[n].oam \notin AtZero
      => (n - p[n].column) - (line.oam[p[n].oam].x - 8) \in -taken .. 0

\* The inductive invariant.
DrawInv ==
  /\ line \in ScanLines /\ dots \in Nat
  /\ writes \in [count : Nat, taken : Nat]
  /\ Wellformed(draw, writes.taken)
  /\ InBudget(draw, writes.count, writes.taken, dots)
  /\ TakenIsWritten(draw, writes.count, writes.taken)
  /\ FifoInPlace(draw) /\ ShownInPlace(picture, draw.screen_x, writes.taken)
  /\ DOMAIN picture = 0 .. Width - 1

\* The assumption by a name that a proof can cite.
LEMMA LineAssumption == LinesAreBytes
  BY ScanlineAssumption

\* Parts of the members that a step leaves alone.
SameRegisters(d, u) ==
  /\ u.lcdc = d.lcdc /\ u.wx = d.wx /\ u.scx = d.scx /\ u.scx_low = d.scx_low
  /\ u.mode3_startup_dots = d.mode3_startup_dots /\ u.line_objects = d.line_objects

SameColumn(d, u) ==
  /\ u.pixel_position = d.pixel_position /\ u.screen_x = d.screen_x /\ u.finished = d.finished

SameObjects(d, u) ==
  /\ u.obj_fifo = d.obj_fifo /\ u.fetched = d.fetched
  /\ u.object_fetch_step = d.object_fetch_step /\ u.object_fetch_index = d.object_fetch_index
  /\ u.object_fetch_aborted = d.object_fetch_aborted

SameGround(d, u) ==
  /\ u.bg_fifo = d.bg_fifo /\ u.fetcher = d.fetcher /\ u.window_active = d.window_active

SameWindow(d, u) == u.wx_just_changed = d.wx_just_changed

-----------------------------------------------------------------------------
(* The member functions, member by member. *)

\* What the window's part of a dot does.
WindowTicked(d, u) ==
  /\ u \in Drawing /\ SameRegisters(d, u) /\ SameObjects(d, u)
  /\ u.pixel_position = d.pixel_position /\ u.finished = d.finished
  /\ u.wx_just_changed = FALSE
  /\ ~Triggers(d) => SameGround(d, u) /\ u.screen_x = d.screen_x
  /\ Triggers(d) =>
       /\ u.bg_fifo = <<>> /\ u.fetcher.step = 0 /\ u.window_active = TRUE
       /\ u.screen_x = IF WindowPassed(d) THEN d.screen_x - 1 ELSE d.screen_x

\* trigger_window, after a column is taken back or not.
TakenBack(d) == [d EXCEPT !.screen_x = IF WindowPassed(d) THEN @ - 1 ELSE @]

\* TriggerWindow sets these members.
WindowBegun(d, u) ==
  /\ u \in Drawing /\ SameRegisters(d, u) /\ SameObjects(d, u)
  /\ u.pixel_position = d.pixel_position /\ u.finished = d.finished
  /\ u.bg_fifo = <<>> /\ u.fetcher.step = 0 /\ u.window_active = TRUE
  /\ u.screen_x = IF WindowPassed(d) THEN d.screen_x - 1 ELSE d.screen_x

\* A window that begins empties the FIFO.
LEMMA WindowBegins ==
  ASSUME NEW d \in Drawing
  PROVE  WindowBegun(d, TriggerWindow(TakenBack(d)))
<1> DEFINE x == IF WindowPassed(d) THEN d.screen_x - 1 ELSE d.screen_x
           b == [d EXCEPT !.screen_x = x]
           rows == IF b.window_triggered THEN b.window_line + 1 ELSE b.window_line
           f == [FreshFetcher EXCEPT !.window = TRUE]
           u == TriggerWindow(b)
<1>1. x \in Int
  BY DEF Drawing
<1>2. TakenBack(d) = b
  BY DEF TakenBack
<1> HIDE DEF x
<1>3. b \in Drawing /\ SameRegisters(d, b) /\ SameObjects(d, b) /\ b.screen_x = x
      /\ b.pixel_position = d.pixel_position /\ b.finished = d.finished
  BY <1>1, ZenonT(60) DEF Drawing, SameRegisters, SameObjects
<1>4. f \in Fetcher /\ f.step = 0
  <2>1. FreshFetcher \in Fetcher /\ FreshFetcher.step = 0
    BY DEF FreshFetcher, Fetcher
  <2> QED
    BY <2>1 DEF Fetcher
<1> HIDE DEF b
<1>5. rows \in Int
  BY <1>3 DEF Drawing
<1>6. u = [b EXCEPT !.window_line = rows, !.window_triggered = TRUE, !.window_active = TRUE,
                    !.bg_fifo = <<>>, !.fetcher = f]
  BY DEF TriggerWindow
<1> HIDE DEF rows, f, u
<1>7. <<>> \in Seq(BgPixel)
  OBVIOUS
<1>8. u \in Drawing /\ u.bg_fifo = <<>> /\ u.fetcher = f /\ u.window_active = TRUE
  <2> DEFINE v == [b EXCEPT !.window_line = rows]
             w == [v EXCEPT !.window_triggered = TRUE]
             x2 == [w EXCEPT !.window_active = TRUE]
             y == [x2 EXCEPT !.bg_fifo = <<>>]
             z == [y EXCEPT !.fetcher = f]
  <2>1. v \in Drawing
    BY <1>3, <1>5, ZenonT(60) DEF Drawing
  <2>2. w \in Drawing
    BY <2>1, ZenonT(60) DEF Drawing
  <2>3. u = z
    BY <1>3, <1>6 DEF Drawing
  <2>4. x2 \in Drawing /\ x2.window_active = TRUE
    <3> HIDE DEF w
    <3> QED BY <2>2, ZenonT(60) DEF Drawing
  <2>5. y \in Drawing /\ y.window_active = TRUE /\ y.bg_fifo = <<>>
    <3> HIDE DEF x2
    <3> QED BY <2>4, <1>7, ZenonT(60) DEF Drawing
  <2>6. z \in Drawing /\ z.window_active = TRUE /\ z.bg_fifo = <<>> /\ z.fetcher = f
    <3> HIDE DEF y
    <3>1. f \in Fetcher
      BY <1>4
    <3>2. z \in Drawing
      BY <2>5, <3>1, ZenonT(60) DEF Drawing
    <3> QED BY <2>5, <3>2 DEF Drawing
  <2> QED
    BY <2>3, <2>6
<1>9. SameRegisters(b, u) /\ SameObjects(b, u) /\ u.screen_x = b.screen_x
      /\ u.pixel_position = b.pixel_position /\ u.finished = b.finished
  BY <1>3, <1>6 DEF Drawing, SameRegisters, SameObjects
<1>10. WindowBegun(d, u)
  BY <1>3, <1>4, <1>8, <1>9 DEF WindowBegun, SameRegisters, SameObjects, x
<1> QED
  BY <1>2, <1>10 DEF u

\* The window's part of a dot.
LEMMA WindowTicks ==
  ASSUME NEW d \in Drawing
  PROVE  WindowTicked(d, TickWindow(d))
<1> DEFINE begun == IF Triggers(d) THEN TriggerWindow(TakenBack(d)) ELSE d
           unseen == /\ ~begun.window_triggered /\ WindowEnabled(begun)
                     /\ begun.wx = Width + 6 /\ begun.pixel_position = Width - 1
           seen == begun.window_triggered \/ unseen
           rows == IF unseen THEN begun.window_line + 1 ELSE begun.window_line
           u == TickWindow(d)
<1>1. u = [begun EXCEPT !.window_triggered = seen, !.window_line = rows, !.wx_just_changed = FALSE]
  BY DEF TickWindow, TakenBack
<1>2. begun \in Drawing /\ SameRegisters(d, begun) /\ SameObjects(d, begun)
      /\ begun.pixel_position = d.pixel_position /\ begun.finished = d.finished
  BY WindowBegins DEF WindowBegun, SameRegisters, SameObjects
<1>3. Triggers(d) => /\ begun.bg_fifo = <<>> /\ begun.fetcher.step = 0 /\ begun.window_active = TRUE
                     /\ begun.screen_x = IF WindowPassed(d) THEN d.screen_x - 1 ELSE d.screen_x
  BY WindowBegins DEF WindowBegun
<1>4. ~Triggers(d) => begun = d
  OBVIOUS
<1> HIDE DEF begun
<1>5. unseen \in BOOLEAN /\ begun.window_triggered \in BOOLEAN
  BY <1>2 DEF Drawing
<1> HIDE DEF unseen
<1>6. seen \in BOOLEAN
  BY <1>5
<1>7. rows \in Int
  BY <1>2 DEF Drawing
<1> HIDE DEF seen, rows, u
<1>8. u \in Drawing /\ u.wx_just_changed = FALSE
  <2> DEFINE v == [begun EXCEPT !.window_triggered = seen]
             w == [v EXCEPT !.window_line = rows]
             z == [w EXCEPT !.wx_just_changed = FALSE]
  <2>1. v \in Drawing
    BY <1>2, <1>6, ZenonT(60) DEF Drawing
  <2>2. w \in Drawing
    <3> HIDE DEF v
    <3> QED BY <2>1, <1>7, ZenonT(60) DEF Drawing
  <2>3. u = z
    BY <1>1, <1>2 DEF Drawing
  <2>4. z \in Drawing /\ z.wx_just_changed = FALSE
    <3> HIDE DEF w
    <3> QED BY <2>2, ZenonT(60) DEF Drawing
  <2> QED
    BY <2>3, <2>4
<1>9. /\ SameRegisters(begun, u) /\ SameObjects(begun, u)
      /\ SameColumn(begun, u) /\ SameGround(begun, u)
  BY <1>1, <1>2 DEF Drawing, SameRegisters, SameObjects, SameColumn, SameGround
<1>10. SameRegisters(d, u) /\ SameObjects(d, u)
       /\ u.pixel_position = d.pixel_position /\ u.finished = d.finished
  BY <1>2, <1>9 DEF SameRegisters, SameObjects, SameColumn
<1>11. ~Triggers(d) => SameGround(d, u) /\ u.screen_x = d.screen_x
  BY <1>4, <1>9 DEF SameGround, SameColumn
<1>12. Triggers(d) => /\ u.bg_fifo = <<>> /\ u.fetcher.step = 0 /\ u.window_active = TRUE
                      /\ u.screen_x = IF WindowPassed(d) THEN d.screen_x - 1 ELSE d.screen_x
  BY <1>3, <1>9 DEF SameGround, SameColumn
<1>13. WindowTicked(d, u)
  BY <1>8, <1>10, <1>11, <1>12, Zenon DEF WindowTicked
<1> QED
  BY <1>13 DEF u

\* The new pixels: a blank one, or those of a tile.
PixelsCome(d, u) ==
  \/ Len(u.bg_fifo) = 1 /\ u.fetcher.step = 6
  \/ Len(u.bg_fifo) = 8 /\ u.fetcher.step = 0

\* try_push_bg_pixels leaves a FIFO that is not empty.
PixelsTried(d, u) ==
  /\ u \in Drawing /\ SameRegisters(d, u) /\ SameColumn(d, u) /\ SameObjects(d, u)
  /\ SameWindow(d, u) /\ u.window_active = d.window_active
  /\ d.bg_fifo # <<>> => u = d
  /\ d.bg_fifo = <<>> => u.bg_fifo # <<>> /\ PixelsCome(d, u)

\* Eight pixels of a tile are a FIFO of eight pixels.
LEMMA RunOfPixels ==
  ASSUME NEW n \in Nat, NEW S, NEW b, b \in [1 .. n -> S]
  PROVE  b \in Seq(S) /\ Len(b) = n
<1>1. b \in UNION {[1 .. m -> S] : m \in Nat}
  BY Zenon
<1>2. b \in Seq(S)
  BY <1>1, SeqDef
<1>3. DOMAIN b = 1 .. n
  OBVIOUS
<1>4. Len(b) = n
  BY <1>2, <1>3, LenProperties
<1> QED
  BY <1>2, <1>4

\* try_push_bg_pixels fills an empty FIFO.
LEMMA PixelsAreTried ==
  ASSUME NEW d \in Drawing, d.fetcher.step = 6
  PROVE  PixelsTried(d, TryPushBgPixels(d))
<1> DEFINE u == TryPushBgPixels(d)
<1>1. CASE d.bg_fifo # <<>>
  <2>1. u = d
    BY <1>1 DEF TryPushBgPixels
  <2> QED
    BY <1>1, <2>1 DEF PixelsTried, SameRegisters, SameColumn, SameObjects, SameWindow
<1>2. CASE d.bg_fifo = <<>> /\ LeavesBlankPixel(d)
  <2> DEFINE b == <<Blank>>
  <2>1. u = [d EXCEPT !.bg_fifo = b]
    BY <1>2 DEF TryPushBgPixels
  <2>2. b \in Seq(BgPixel) /\ Len(b) = 1 /\ b # <<>>
    BY DEF BgPixel, Blank
  <2> HIDE DEF b, u
  <2> DEFINE w == [d EXCEPT !.bg_fifo = b]
  <2>a. w \in Drawing
    <3>1. b \in Seq(BgPixel)
      BY <2>2
    <3> QED
      BY <3>1, ZenonT(60) DEF Drawing
  <2>b. w.bg_fifo = b
    BY DEF Drawing
  <2>3. u \in Drawing /\ u.bg_fifo = b
    BY <2>1, <2>a, <2>b
  <2>4. /\ SameRegisters(d, u) /\ SameColumn(d, u) /\ SameObjects(d, u) /\ SameWindow(d, u)
        /\ u.window_active = d.window_active /\ u.fetcher.step = 6
    BY <2>1 DEF Drawing, SameRegisters, SameColumn, SameObjects, SameWindow
  <2>5. PixelsCome(d, u)
    BY <2>2, <2>3, <2>4 DEF PixelsCome
  <2>6. PixelsTried(d, u)
    BY <1>2, <2>2, <2>3, <2>4, <2>5, Zenon DEF PixelsTried
  <2> QED
    BY <2>6 DEF u
<1>3. CASE d.bg_fifo = <<>> /\ ~LeavesBlankPixel(d)
  <2> DEFINE b == FetchedPixels(d.fetcher)
             f == [d.fetcher EXCEPT !.step = 0]
  <2>1. u = [d EXCEPT !.bg_fifo = b, !.fetcher = f]
    <3>1. u = [d EXCEPT !.bg_fifo = b, !.fetcher.step = 0]
      BY <1>3 DEF TryPushBgPixels
    <3> QED
      BY <3>1 DEF Drawing
  <2>2. d.fetcher \in Fetcher
    BY DEF Drawing
  <2>3. f \in Fetcher /\ f.step = 0
    BY <2>2 DEF Fetcher
  <2>4. b \in [1 .. 8 -> BgPixel]
    <3>1. d.fetcher.tile \in Int
      BY <2>2 DEF Fetcher
    <3> DEFINE t == d.fetcher.tile
    <3> HIDE DEF t
    <3>2. t \in Int
      BY <3>1 DEF t
    <3>3. \A i \in 1 .. 8 : (8 * t + i) - 1 \in Int
      BY <3>2
    <3>4. b = [i \in 1 .. 8 |-> [layer |-> IF d.fetcher.window THEN "window" ELSE "bg",
                                 column |-> (8 * t + i) - 1]]
      BY DEF FetchedPixels, t
    <3> HIDE DEF b
    <3>5. \A i \in 1 .. 8 :
            [layer |-> IF d.fetcher.window THEN "window" ELSE "bg",
             column |-> (8 * t + i) - 1] \in BgPixel
      BY <3>3 DEF BgPixel
    <3> QED
      BY <3>4, <3>5
  <2> HIDE DEF b
  <2>5. b \in Seq(BgPixel) /\ Len(b) = 8 /\ b # <<>>
    <3>1. b \in Seq(BgPixel) /\ Len(b) = 8
      BY <2>4, RunOfPixels
    <3>2. Len(<<>>) = 0
      OBVIOUS
    <3>4. 8 # 0
      OBVIOUS
    <3>3. b # <<>>
      BY <3>1, <3>2, <3>4, Zenon
    <3> QED
      BY <3>1, <3>3
  <2> HIDE DEF f, u
  <2>6. u \in Drawing /\ u.bg_fifo = b /\ u.fetcher = f
    <3> DEFINE v == [d EXCEPT !.bg_fifo = b]
               w == [v EXCEPT !.fetcher = f]
    <3>1. v \in Drawing /\ v.bg_fifo = b
      BY <2>5, ZenonT(60) DEF Drawing
    <3>2. u = w
      BY <2>1 DEF Drawing
    <3> HIDE DEF v
    <3>3. f \in Fetcher
      BY <2>3
    <3>4. w \in Drawing
      BY <3>1, <3>3, ZenonT(60) DEF Drawing
    <3>5. w.bg_fifo = b /\ w.fetcher = f
      BY <3>1 DEF Drawing
    <3> QED
      BY <3>2, <3>4, <3>5
  <2>7. /\ SameRegisters(d, u) /\ SameColumn(d, u) /\ SameObjects(d, u) /\ SameWindow(d, u)
        /\ u.window_active = d.window_active
    BY <2>1 DEF Drawing, SameRegisters, SameColumn, SameObjects, SameWindow
  <2>8. PixelsCome(d, u)
    BY <2>3, <2>5, <2>6 DEF PixelsCome
  <2>9. PixelsTried(d, u)
    BY <1>3, <2>5, <2>6, <2>7, <2>8, Zenon DEF PixelsTried
  <2> QED
    BY <2>9 DEF u
<1> QED
  BY <1>1, <1>2, <1>3

\* What a dot of the background fetcher does.
Advanced(d, u) ==
  /\ u \in Drawing /\ SameRegisters(d, u) /\ SameColumn(d, u) /\ SameObjects(d, u)
  /\ SameWindow(d, u) /\ (WindowEnabled(d) => u.window_active = d.window_active)
  /\ d.fetcher.step < 5 => u.bg_fifo = d.bg_fifo /\ u.fetcher.step = d.fetcher.step + 1
  /\ d.fetcher.step >= 5 /\ d.bg_fifo # <<>> => u.bg_fifo = d.bg_fifo /\ u.fetcher.step = 6
  /\ d.fetcher.step >= 5 /\ d.bg_fifo = <<>> => u.bg_fifo # <<>> /\ PixelsCome(d, u)

\* The tile that the fetcher finds is a number.
LEMMA TileIsNumber ==
  ASSUME NEW d \in Drawing
  PROVE  TileOfBackground(d) \in Int
<1> DEFINE s == d.scx
           p == d.pixel_position
<1>a. s \in Int
  <2>1. d.scx \in 0 .. 255
    BY DEF Drawing
  <2> QED
    BY <2>1
<1>b. p \in Int
  BY DEF Drawing
<1>1. s \in Int /\ p \in Int
  BY <1>a, <1>b
<1> HIDE DEF s, p
<1>2. (s \div 8) \in Int /\ (((s + p + 8) \div 8) % 32) \in Int
  BY <1>1
<1> QED
  BY <1>2 DEF TileOfBackground, MapTiles, s, p

\* A dot of the background fetcher does that.
LEMMA FetcherAdvances ==
  ASSUME NEW d \in Drawing
  PROVE  Advanced(d, AdvancePixelFetcher(d))
<1> DEFINE u == AdvancePixelFetcher(d)
           step == d.fetcher.step
<1>0. d.fetcher \in Fetcher /\ step \in 0 .. 6 /\ d.window_active \in BOOLEAN
      /\ d.fetcher.window \in BOOLEAN
  <2>1. d.fetcher \in Fetcher /\ d.window_active \in BOOLEAN
    BY DEF Drawing
  <2>2. d.fetcher.step \in 0 .. 6 /\ d.fetcher.window \in BOOLEAN
    BY <2>1 DEF Fetcher
  <2> QED
    BY <2>1, <2>2
<1>1. CASE step = 0
  <2> DEFINE window == d.fetcher.window /\ WindowEnabled(d)
             tile == IF window THEN d.fetcher.x ELSE TileOfBackground(d)
             active == d.window_active /\ (d.fetcher.window => window)
             f == [d.fetcher EXCEPT !.step = 1, !.window = window, !.tile = tile]
  <2>1. u = [d EXCEPT !.window_active = active, !.fetcher = f]
    BY <1>1 DEF AdvancePixelFetcher
  <2>2. window \in BOOLEAN /\ active \in BOOLEAN
    BY <1>0, Zenon
  <2>3. tile \in Int
    BY <1>0, TileIsNumber DEF Fetcher
  <2>4. WindowEnabled(d) => active = d.window_active
    BY <1>0
  <2> HIDE DEF window, tile, active
  <2>5. f \in Fetcher /\ f.step = 1
    <3> DEFINE f1 == [d.fetcher EXCEPT !.step = 1]
               f2 == [f1 EXCEPT !.window = window]
               f3 == [f2 EXCEPT !.tile = tile]
    <3>1. f1 \in Fetcher /\ f1.step = 1
      BY <1>0 DEF Fetcher
    <3>2. f = f3
      BY <1>0 DEF Fetcher
    <3> HIDE DEF f1
    <3>3. f2 \in Fetcher
      BY <3>1, <2>2 DEF Fetcher
    <3>4. f2.step = 1
      BY <3>1 DEF Fetcher
    <3> HIDE DEF f2
    <3>5. f3 \in Fetcher
      BY <3>3, <2>3 DEF Fetcher
    <3>6. f3.step = 1
      BY <3>3, <3>4 DEF Fetcher
    <3> QED
      BY <3>2, <3>5, <3>6
  <2> HIDE DEF f, u
  <2>6. u \in Drawing /\ u.window_active = active /\ u.fetcher = f
    <3> DEFINE v == [d EXCEPT !.window_active = active]
               w == [v EXCEPT !.fetcher = f]
    <3>0. active \in BOOLEAN
      BY <2>2
    <3>6. v \in Drawing
      BY <3>0, ZenonT(60) DEF Drawing
    <3>7. v.window_active = active
      BY DEF Drawing
    <3>1. v \in Drawing /\ v.window_active = active
      BY <3>6, <3>7
    <3>2. u = w
      BY <2>1 DEF Drawing
    <3> HIDE DEF v
    <3>3. f \in Fetcher
      BY <2>5
    <3>4. w \in Drawing
      BY <3>1, <3>3, ZenonT(60) DEF Drawing
    <3>5. w.window_active = active /\ w.fetcher = f
      BY <3>1 DEF Drawing
    <3> QED
      BY <3>2, <3>4, <3>5
  <2>7. /\ SameRegisters(d, u) /\ SameColumn(d, u) /\ SameObjects(d, u) /\ SameWindow(d, u)
        /\ u.bg_fifo = d.bg_fifo
    BY <2>1 DEF Drawing, SameRegisters, SameColumn, SameObjects, SameWindow
  <2>8. d.fetcher.step < 5 => u.bg_fifo = d.bg_fifo /\ u.fetcher.step = d.fetcher.step + 1
    BY <1>1, <2>5, <2>6, <2>7
  <2>9. ~(d.fetcher.step >= 5)
    BY <1>1
  <2>10. Advanced(d, u)
    BY <2>4, <2>6, <2>7, <2>8, <2>9, Zenon DEF Advanced
  <2> QED
    BY <2>10 DEF u
<1>2. CASE step \in 1 .. 4
  <2> DEFINE f == [d.fetcher EXCEPT !.step = step + 1]
  <2>1. u = [d EXCEPT !.fetcher = f]
    <3>1. u = [d EXCEPT !.fetcher.step = @ + 1]
      BY <1>2 DEF AdvancePixelFetcher
    <3> QED
      BY <3>1 DEF Drawing
  <2>2. f \in Fetcher
    BY <1>0, <1>2 DEF Fetcher
  <2>3. f.step = d.fetcher.step + 1
    BY <1>0 DEF Fetcher
  <2> HIDE DEF f, u
  <2>4. u \in Drawing /\ u.fetcher = f
    <3> DEFINE w == [d EXCEPT !.fetcher = f]
    <3>1. w \in Drawing
      <4>1. f \in Fetcher
        BY <2>2
      <4> QED
        BY <4>1, ZenonT(60) DEF Drawing
    <3>2. w.fetcher = f
      BY DEF Drawing
    <3>3. u = w
      BY <2>1
    <3> QED
      BY <3>1, <3>2, <3>3
  <2>5. /\ SameRegisters(d, u) /\ SameColumn(d, u) /\ SameObjects(d, u) /\ SameWindow(d, u)
        /\ u.bg_fifo = d.bg_fifo /\ u.window_active = d.window_active
    BY <2>1 DEF Drawing, SameRegisters, SameColumn, SameObjects, SameWindow
  <2>6. ~(d.fetcher.step >= 5)
    BY <1>2
  <2>7. Advanced(d, u)
    BY <2>3, <2>4, <2>5, <2>6, Zenon DEF Advanced
  <2> QED
    BY <2>7 DEF u
<1>3. CASE step = 5
  <2> DEFINE x == IF d.fetcher.window THEN (d.fetcher.x + 1) % MapTiles ELSE d.fetcher.x
             f == [d.fetcher EXCEPT !.step = 6, !.x = x]
             v == [d EXCEPT !.fetcher = f]
  <2>1. u = TryPushBgPixels(v)
    <3>1. [d EXCEPT !.fetcher.step = 6,
                    !.fetcher.x = IF d.fetcher.window THEN (@ + 1) % MapTiles ELSE @] = v
      BY DEF Drawing
    <3> QED
      BY <1>3, <3>1 DEF AdvancePixelFetcher
  <2>2. x \in Int
    <3>1. d.fetcher.x \in Int
      BY <1>0 DEF Fetcher
    <3> DEFINE y == d.fetcher.x
    <3> HIDE DEF y
    <3>2. ((y + 1) % 32) \in Int
      BY <3>1 DEF y
    <3> QED
      BY <3>1, <3>2 DEF y, MapTiles
  <2> HIDE DEF x
  <2>3. f \in Fetcher
    <3> DEFINE f1 == [d.fetcher EXCEPT !.step = 6]
               f2 == [f1 EXCEPT !.x = x]
    <3>1. f1 \in Fetcher
      BY <1>0 DEF Fetcher
    <3>2. f = f2
      BY <1>0 DEF Fetcher
    <3> HIDE DEF f1
    <3>3. f2 \in Fetcher
      BY <3>1, <2>2 DEF Fetcher
    <3> QED
      BY <3>2, <3>3
  <2>4. f.step = 6
    BY <1>0 DEF Fetcher
  <2> HIDE DEF f
  <2>5. v \in Drawing /\ v.fetcher = f
    BY <2>3, ZenonT(60) DEF Drawing
  <2>6. /\ SameRegisters(d, v) /\ SameColumn(d, v) /\ SameObjects(d, v) /\ SameWindow(d, v)
        /\ v.bg_fifo = d.bg_fifo /\ v.window_active = d.window_active
    BY DEF Drawing, SameRegisters, SameColumn, SameObjects, SameWindow
  <2> HIDE DEF v
  <2>7. PixelsTried(v, u)
    BY <2>1, <2>4, <2>5, PixelsAreTried
  <2> HIDE DEF u
  <2>8. /\ u \in Drawing /\ SameRegisters(d, u) /\ SameColumn(d, u) /\ SameObjects(d, u)
        /\ SameWindow(d, u) /\ u.window_active = d.window_active
    BY <2>6, <2>7 DEF PixelsTried, SameRegisters, SameColumn, SameObjects, SameWindow
  <2>9. d.bg_fifo # <<>> => u.bg_fifo = d.bg_fifo /\ u.fetcher.step = 6
    BY <2>4, <2>5, <2>6, <2>7 DEF PixelsTried
  <2>10. d.bg_fifo = <<>> => u.bg_fifo # <<>> /\ PixelsCome(d, u)
    BY <2>6, <2>7 DEF PixelsTried, PixelsCome
  <2>11. ~(d.fetcher.step < 5)
    BY <1>3
  <2>12. Advanced(d, u)
    BY <2>8, <2>9, <2>10, <2>11, Zenon DEF Advanced
  <2> QED
    BY <2>12 DEF u
<1>4. CASE step = 6
  <2>1. u = TryPushBgPixels(d)
    BY <1>4 DEF AdvancePixelFetcher
  <2>2. PixelsTried(d, u)
    BY <1>4, <2>1, PixelsAreTried
  <2> HIDE DEF u
  <2>3. d.bg_fifo # <<>> => u.bg_fifo = d.bg_fifo /\ u.fetcher.step = 6
    BY <1>4, <2>2 DEF PixelsTried
  <2>4. ~(d.fetcher.step < 5)
    BY <1>4
  <2>5. Advanced(d, u)
    BY <2>2, <2>3, <2>4, Zenon DEF Advanced, PixelsTried
  <2> QED
    BY <2>5 DEF u
<1>5. step = 0 \/ step \in 1 .. 4 \/ step = 5 \/ step = 6
  BY <1>0
<1> QED
  BY <1>1, <1>2, <1>3, <1>4, <1>5

\* The fetch of an object.
SameFetch(d, u) ==
  /\ u.fetched = d.fetched /\ u.object_fetch_step = d.object_fetch_step
  /\ u.object_fetch_index = d.object_fetch_index
  /\ u.object_fetch_aborted = d.object_fetch_aborted

\* What mix_and_push_pixel does to the members, when there is a pixel.
Popped(d, u) ==
  /\ u \in Drawing /\ SameRegisters(d, u) /\ SameFetch(d, u) /\ SameWindow(d, u)
  /\ u.fetcher = d.fetcher /\ u.window_active = d.window_active /\ u.finished = d.finished
  /\ u.bg_fifo = Tail(d.bg_fifo)
  /\ u.obj_fifo = (IF d.obj_fifo = <<>> THEN d.obj_fifo ELSE Tail(d.obj_fifo))
  /\ u.pixel_position = Position(d) + 1
  /\ u.screen_x = (IF Position(d) < 0 THEN d.screen_x ELSE d.screen_x + 1)

\* A FIFO that is not empty loses one pixel.
LEMMA TailIsSeq ==
  ASSUME NEW S, NEW s \in Seq(S), s # <<>>
  PROVE  Tail(s) \in Seq(S)
  OBVIOUS

\* mix_and_push_pixel does that.
LEMMA PixelIsPopped ==
  ASSUME NEW d \in Drawing, Mixes(d)
  PROVE  Popped(d, MixAndPushPixel(d))
<1> DEFINE p == Position(d) + 1
           x == IF Position(d) < 0 THEN d.screen_x ELSE d.screen_x + 1
           b == Tail(d.bg_fifo)
           o == IF d.obj_fifo = <<>> THEN d.obj_fifo ELSE Tail(d.obj_fifo)
           u == MixAndPushPixel(d)
<1>1. p \in Int
  <2>1. d.pixel_position \in Int
    BY DEF Drawing
  <2> QED
    BY <2>1 DEF Position
<1>2. x \in Int
  <2>1. d.screen_x \in Int
    BY DEF Drawing
  <2> QED
    BY <2>1
<1>3. b \in Seq(BgPixel)
  <2>1. d.bg_fifo \in Seq(BgPixel)
    BY DEF Drawing
  <2>2. d.bg_fifo # <<>>
    BY DEF Mixes
  <2> QED
    BY <2>1, <2>2, TailIsSeq
<1>4. o \in Seq(ObjectPixel)
  <2>1. d.obj_fifo \in Seq(ObjectPixel)
    BY DEF Drawing
  <2> QED
    BY <2>1, TailIsSeq
<1>5. u = [d EXCEPT !.bg_fifo = b, !.obj_fifo = o, !.pixel_position = p, !.screen_x = x]
  BY DEF MixAndPushPixel
<1> HIDE DEF p, x, b, o, u
<1> DEFINE v == [d EXCEPT !.bg_fifo = b]
           w == [v EXCEPT !.obj_fifo = o]
           y == [w EXCEPT !.pixel_position = p]
           z == [y EXCEPT !.screen_x = x]
<1>6. u = z
  BY <1>5 DEF Drawing
<1>7. v \in Drawing
  BY <1>3, ZenonT(60) DEF Drawing
<1>8. w \in Drawing
  <2> HIDE DEF v
  <2> QED BY <1>4, <1>7, ZenonT(60) DEF Drawing
<1>9. y \in Drawing
  <2> HIDE DEF w
  <2> QED BY <1>1, <1>8, ZenonT(60) DEF Drawing
<1>10. z \in Drawing
  <2> HIDE DEF y
  <2> QED BY <1>2, <1>9, ZenonT(60) DEF Drawing
<1>11. u.bg_fifo = b /\ u.obj_fifo = o /\ u.pixel_position = p /\ u.screen_x = x
  BY <1>5 DEF Drawing
<1>12. SameRegisters(d, u) /\ SameFetch(d, u) /\ SameWindow(d, u)
  BY <1>5 DEF Drawing, SameRegisters, SameFetch, SameWindow
<1>13. u.fetcher = d.fetcher /\ u.window_active = d.window_active /\ u.finished = d.finished
  BY <1>5 DEF Drawing
<1> HIDE DEF z
<1>14. u \in Drawing
  BY <1>6, <1>10
<1>15. Popped(d, u)
  <2>1. /\ u.bg_fifo = Tail(d.bg_fifo)
        /\ u.obj_fifo = (IF d.obj_fifo = <<>> THEN d.obj_fifo ELSE Tail(d.obj_fifo))
        /\ u.pixel_position = Position(d) + 1
        /\ u.screen_x = (IF Position(d) < 0 THEN d.screen_x ELSE d.screen_x + 1)
    BY <1>11 DEF b, o, p, x
  <2> QED
    BY <1>12, <1>13, <1>14, <2>1, Zenon DEF Popped
<1> QED
  BY <1>15 DEF u

\* finish_drawing_if_complete only marks the line.
Finished(d, u) ==
  /\ u \in Drawing /\ SameRegisters(d, u) /\ SameObjects(d, u) /\ SameGround(d, u)
  /\ SameWindow(d, u)
  /\ u.pixel_position = d.pixel_position /\ u.screen_x = d.screen_x
  /\ d.finished = FALSE => u.finished = (d.screen_x = Width)

\* finish_drawing_if_complete does that.
LEMMA LineFinishes ==
  ASSUME NEW d \in Drawing
  PROVE  Finished(d, FinishDrawing(d))
<1> DEFINE u == FinishDrawing(d)
<1>1. CASE d.screen_x # Width
  <2>1. u = d
    BY <1>1 DEF FinishDrawing
  <2>2. d.finished = FALSE => d.finished = (d.screen_x = Width)
    BY <1>1
  <2>3. Finished(d, d)
    BY <2>2, Zenon DEF Finished, SameRegisters, SameObjects, SameGround, SameWindow
  <2> QED
    BY <2>1, <2>3
<1>2. CASE d.screen_x = Width
  <2> DEFINE rows == IF d.window_triggered THEN d.window_line + 1 ELSE d.window_line
             v == [d EXCEPT !.window_line = rows]
             w == [v EXCEPT !.finished = TRUE]
  <2>1. u = [d EXCEPT !.window_line = rows, !.finished = TRUE]
    BY <1>2 DEF FinishDrawing
  <2>2. u = w
    BY <2>1 DEF Drawing
  <2>3. rows \in Int
    BY DEF Drawing
  <2> HIDE DEF rows, u
  <2>4. v \in Drawing
    BY <2>3, ZenonT(60) DEF Drawing
  <2>5. u \in Drawing
    <3> HIDE DEF v
    <3>1. w \in Drawing
      BY <2>4, ZenonT(60) DEF Drawing
    <3> HIDE DEF w
    <3> QED
      BY <2>2, <3>1
  <2>6. u.finished = TRUE
    BY <2>1 DEF Drawing
  <2>7. SameRegisters(d, u) /\ SameObjects(d, u) /\ SameGround(d, u) /\ SameWindow(d, u)
    BY <2>1 DEF Drawing, SameRegisters, SameObjects, SameGround, SameWindow
  <2>8. u.pixel_position = d.pixel_position /\ u.screen_x = d.screen_x
    BY <2>1 DEF Drawing
  <2>9. d.finished = FALSE => u.finished = (d.screen_x = Width)
    BY <1>2, <2>6, Zenon
  <2>10. Finished(d, u)
    BY <2>5, <2>7, <2>8, <2>9, Zenon DEF Finished
  <2> QED
    BY <2>10 DEF u
<1> QED
  BY <1>1, <1>2

\* The end of an object fetch, done or given up.
FetchEnded(d, u) ==
  /\ u \in Drawing /\ SameRegisters(d, u) /\ SameGround(d, u) /\ SameColumn(d, u)
  /\ SameWindow(d, u) /\ u.obj_fifo = d.obj_fifo /\ u.fetched = d.fetched
  /\ u.object_fetch_step = "None"

\* The end of a fetch does that.
LEMMA FetchEnds ==
  ASSUME NEW d \in Drawing
  PROVE  FetchEnded(d, EndObjectFetch(d))
<1> DEFINE u == EndObjectFetch(d)
           v == [d EXCEPT !.object_fetch_step = "None"]
           w == [v EXCEPT !.object_fetch_index = 0]
           z == [w EXCEPT !.object_fetch_aborted = FALSE]
<1>1. u = [d EXCEPT !.object_fetch_step = "None", !.object_fetch_index = 0,
                    !.object_fetch_aborted = FALSE]
  BY DEF EndObjectFetch
<1> HIDE DEF u
<1>2. u = z
  BY <1>1 DEF Drawing
<1>3. v \in Drawing
  <2>1. "None" \in FetchSteps
    BY DEF FetchSteps
  <2> QED
    BY <2>1, ZenonT(60) DEF Drawing
<1>4. w \in Drawing
  <2> HIDE DEF v
  <2> QED BY <1>3, ZenonT(60) DEF Drawing
<1>5. z \in Drawing
  <2> DEFINE no == FALSE
             y == [w EXCEPT !.object_fetch_aborted = no]
  <2>1. no \in BOOLEAN
    OBVIOUS
  <2>2. z = y
    OBVIOUS
  <2> HIDE DEF w, no, z
  <2>3. y \in Drawing
    BY <1>4, <2>1, ZenonT(60) DEF Drawing
  <2> QED
    BY <2>2, <2>3
<1>6. SameRegisters(d, u) /\ SameGround(d, u) /\ SameColumn(d, u) /\ SameWindow(d, u)
  BY <1>1 DEF Drawing, SameRegisters, SameGround, SameColumn, SameWindow
<1>7. u.obj_fifo = d.obj_fifo /\ u.fetched = d.fetched /\ u.object_fetch_step = "None"
  BY <1>1 DEF Drawing
<1> HIDE DEF z
<1>8. FetchEnded(d, u)
  BY <1>2, <1>5, <1>6, <1>7, Zenon DEF FetchEnded
<1> QED
  BY <1>8 DEF u

\* The least of some numbers is one of them.
LEMMA MinIsMember ==
  ASSUME NEW S, S \subseteq Nat, S # {}
  PROVE  Min(S) \in S
<1>1. PICK m \in S : \A n \in S : <<n, m>> \notin OpToRel(<, Nat)
  BY WFMin, NatLessThanWellFounded, Zenon
<1>2. ASSUME NEW n \in S PROVE m <= n
  <2>1. SUFFICES ASSUME n < m PROVE FALSE
    OBVIOUS
  <2>2. <<n, m>> \in Nat \X Nat
    OBVIOUS
  <2>3. <<n, m>>[1] < <<n, m>>[2]
    BY <2>1
  <2>4. <<n, m>> \in OpToRel(<, Nat)
    BY <2>2, <2>3, Zenon DEF OpToRel
  <2> QED
    BY <1>1, <2>4, Zenon
<1> QED
  BY <1>1, <1>2, Zenon DEF Min

\* start_object_fetch: objects that the line has passed are given up, and one
\* that begins here is fetched.
Started(d, u) ==
  /\ u \in Drawing /\ SameRegisters(d, u) /\ SameColumn(d, u) /\ SameGround(d, u)
  /\ SameWindow(d, u) /\ u.obj_fifo = d.obj_fifo
  /\ u.object_fetch_aborted = d.object_fetch_aborted
  /\ d.fetched \subseteq u.fetched /\ u.fetched \subseteq d.line_objects
  /\ \/ /\ u.object_fetch_step = d.object_fetch_step
        /\ u.object_fetch_index = d.object_fetch_index
     \/ /\ u.object_fetch_step = "Align"
        /\ u.object_fetch_index \in d.line_objects
        /\ line.oam[u.object_fetch_index].x = ObjectMatch(d)
        /\ \E i \in u.fetched : i \notin d.fetched

\* The members that the fetch of an object changes.
Fetches(d, F, i, s) ==
  [d EXCEPT !.fetched = F, !.object_fetch_index = i, !.object_fetch_step = s]

\* Only these members are changed.
FetchOf(d, u, F, i, s) ==
  /\ u \in Drawing /\ SameRegisters(d, u) /\ SameColumn(d, u) /\ SameGround(d, u)
  /\ SameWindow(d, u) /\ u.obj_fifo = d.obj_fifo
  /\ u.object_fetch_aborted = d.object_fetch_aborted
  /\ u.fetched = F /\ u.object_fetch_index = i /\ u.object_fetch_step = s

\* Setting them changes only them.
LEMMA FetchIsSet ==
  ASSUME NEW d \in Drawing, NEW F \in SUBSET Nat, NEW i \in Nat, NEW s \in FetchSteps
  PROVE  FetchOf(d, Fetches(d, F, i, s), F, i, s)
<1> DEFINE u == Fetches(d, F, i, s)
           v == [d EXCEPT !.fetched = F]
           w == [v EXCEPT !.object_fetch_index = i]
           z == [w EXCEPT !.object_fetch_step = s]
<1>1. u = [d EXCEPT !.fetched = F, !.object_fetch_index = i, !.object_fetch_step = s]
  BY DEF Fetches
<1> HIDE DEF u
<1>2. u = z
  BY <1>1 DEF Drawing
<1>3. v \in Drawing
  BY ZenonT(60) DEF Drawing
<1>4. w \in Drawing
  <2> HIDE DEF v
  <2> QED BY <1>3, ZenonT(60) DEF Drawing
<1>5. z \in Drawing
  <2> HIDE DEF w
  <2> QED BY <1>4, ZenonT(60) DEF Drawing
<1>6. SameRegisters(d, u) /\ SameGround(d, u) /\ SameColumn(d, u) /\ SameWindow(d, u)
  BY <1>1 DEF Drawing, SameRegisters, SameGround, SameColumn, SameWindow
<1>7. /\ u.obj_fifo = d.obj_fifo /\ u.object_fetch_aborted = d.object_fetch_aborted
      /\ u.fetched = F /\ u.object_fetch_index = i /\ u.object_fetch_step = s
  BY <1>1 DEF Drawing
<1> HIDE DEF z
<1>8. FetchOf(d, u, F, i, s)
  BY <1>2, <1>5, <1>6, <1>7, Zenon DEF FetchOf
<1> QED
  BY <1>8 DEF u

\* start_object_fetch gives up objects that were passed and fetches one that is met.
LEMMA FetchStarts ==
  ASSUME NEW d \in Drawing, d.fetched \subseteq d.line_objects
  PROVE  Started(d, StartObjectFetch(d))
<1> DEFINE waiting == {i \in d.line_objects \ d.fetched : line.oam[i].x < Width + 8}
           missed == {i \in waiting : line.oam[i].x < ObjectMatch(d)}
           met == {i \in waiting : line.oam[i].x = ObjectMatch(d)}
           begun == [d EXCEPT !.fetched = @ \union missed]
           off == "objects" \notin d.lcdc \/ d.pixel_position >= Width
           on == "objects" \in d.lcdc /\ d.pixel_position < Width
           u == StartObjectFetch(d)
<1>1. /\ d.fetched \in SUBSET Nat /\ d.line_objects \in SUBSET Nat
      /\ d.object_fetch_index \in Nat /\ d.object_fetch_step \in FetchSteps
  BY DEF Drawing
<1>2. missed \subseteq d.line_objects /\ met \subseteq d.line_objects \ d.fetched
  OBVIOUS
<1>3. CASE off
  <2>0. ~on
    <3>1. d.pixel_position \in Int /\ Width \in Int
      BY LineAssumption DEF Drawing, LinesAreBytes
    <3> QED
      BY <1>3, <3>1
  <2>1. u = d
    <3> HIDE DEF off, on
    <3>1. ~(on /\ met # {})
      BY <2>0
    <3> QED
      BY <1>3, <3>1, Zenon DEF StartObjectFetch, off, on
  <2>2. Started(d, d)
    BY Zenon DEF Started, SameRegisters, SameColumn, SameGround, SameWindow
  <2> QED
    BY <2>1, <2>2
<1>4. CASE on /\ met # {}
  <2> DEFINE m == Min(met)
             F == (d.fetched \union missed) \union {m}
  <2>0. ~off
    <3>1. d.pixel_position \in Int /\ Width \in Int
      BY LineAssumption DEF Drawing, LinesAreBytes
    <3> QED
      BY <1>4, <3>1
  <2>1. m \in met
    <3> HIDE DEF met
    <3>1. met \subseteq Nat /\ met # {}
      BY <1>1, <1>2, <1>4
    <3> QED
      BY <3>1, MinIsMember
  <2>2. u = [begun EXCEPT !.fetched = @ \union {m}, !.object_fetch_index = m,
                          !.object_fetch_step = "Align"]
    <3> HIDE DEF off
    <3> QED BY <1>4, <2>0 DEF StartObjectFetch, off
  <2>3. u = Fetches(d, F, m, "Align")
    BY <2>2 DEF Fetches, Drawing
  <2>4. line.oam[m].x = ObjectMatch(d) /\ m \in d.line_objects /\ m \notin d.fetched
    BY <2>1
  <2> HIDE DEF missed, met, u
  <2>5. /\ m \in Nat /\ F \in SUBSET Nat
        /\ d.fetched \subseteq F /\ F \subseteq d.line_objects /\ m \in F
    BY <1>1, <1>2, <2>4
  <2> HIDE DEF F, m
  <2>6. "Align" \in FetchSteps
    BY DEF FetchSteps
  <2>7. FetchOf(d, u, F, m, "Align")
    BY <2>3, <2>5, <2>6, FetchIsSet
  <2>8. Started(d, u)
    BY <2>4, <2>5, <2>7, Zenon DEF FetchOf, Started
  <2> QED
    BY <2>8 DEF u
<1>5. CASE ~off /\ ~(on /\ met # {})
  <2> DEFINE F == d.fetched \union missed
  <2>1. u = [d EXCEPT !.fetched = F]
    <3> HIDE DEF off
    <3> QED BY <1>5 DEF StartObjectFetch, off
  <2>2. u = Fetches(d, F, d.object_fetch_index, d.object_fetch_step)
    BY <2>1 DEF Fetches, Drawing
  <2> HIDE DEF missed, u
  <2>3. F \in SUBSET Nat /\ d.fetched \subseteq F /\ F \subseteq d.line_objects
    BY <1>1, <1>2
  <2> HIDE DEF F
  <2>4. FetchOf(d, u, F, d.object_fetch_index, d.object_fetch_step)
    BY <1>1, <2>2, <2>3, FetchIsSet
  <2>5. Started(d, u)
    BY <2>3, <2>4, Zenon DEF FetchOf, Started
  <2> QED
    BY <2>5 DEF u
<1> QED
  BY <1>3, <1>4, <1>5

\* What overlay_object_pixels does to the members.
Overlaid(d, u) ==
  /\ u \in Drawing /\ SameRegisters(d, u) /\ SameColumn(d, u) /\ SameGround(d, u)
  /\ SameWindow(d, u) /\ SameFetch(d, u) /\ FifoInPlace(u)

\* The object that is fetched begins where the line is.
ObjectIsMet(d) ==
  /\ d.object_fetch_index \in 1 .. Len(line.oam)
  /\ line.oam[d.object_fetch_index].x = ObjectMatch(d)
  /\ d.pixel_position < -8 \/ d.pixel_position >= -7

\* The pixels of the object that is fetched lie in front of its columns.
LEMMA ObjectIsOverlaid ==
  ASSUME NEW d \in Drawing, line \in LineState, FifoInPlace(d), ObjectIsMet(d)
  PROVE  Overlaid(d, Overlay(d))
<1> DEFINE k == d.object_fetch_index
           object == line.oam[k]
           p == d.pixel_position
           old == [i \in 1 .. 16 |-> IF i <= Len(d.obj_fifo) THEN d.obj_fifo[i] ELSE Clear]
           pixel == [i \in 1 .. 16 |-> d.pixel_position + i - 1 - (object.x - 8)]
           new(i) == IF pixel[i] \in object.opaque /\ Covers(k, old[i])
                     THEN [oam |-> k, pixel |-> pixel[i]] ELSE old[i]
           o == [i \in 1 .. 16 |-> new(i)]
           u == Overlay(d)
<1>1. u = [d EXCEPT !.obj_fifo = o]
  BY DEF Overlay
<1>2. k \in Nat /\ p \in Int /\ d.obj_fifo \in Seq(ObjectPixel)
  BY DEF Drawing
<1>a. k \in 1 .. Len(line.oam) /\ object.x = ObjectMatch(d) /\ (p < -8 \/ p >= -7)
  BY DEF ObjectIsMet
<1>3. object.x \in Int
  <2>1. line.oam \in Seq(ObjectEntry)
    BY DEF LineState
  <2>2. object \in ObjectEntry
    BY <1>a, <2>1
  <2>3. object.x \in 0 .. 255
    BY <2>2 DEF ObjectEntry
  <2> QED
    BY <2>3, SMTT(30)
<1>4. ASSUME NEW i \in 1 .. 16
      PROVE  old[i] \in ObjectPixel /\ PixelInPlace(p, i, old[i])
  <2>1. CASE i <= Len(d.obj_fifo)
    <3>0. old[i] = d.obj_fifo[i]
      BY <2>1
    <3>4. i \in 1 .. Len(d.obj_fifo)
      BY <1>2, <2>1
    <3>1. old[i] = d.obj_fifo[i] /\ i \in 1 .. Len(d.obj_fifo)
      BY <3>0, <3>4
    <3>2. PixelInPlace(p, i, d.obj_fifo[i])
      BY <3>1 DEF FifoInPlace
    <3>3. d.obj_fifo[i] \in ObjectPixel
      BY <1>2, <3>1
    <3> HIDE DEF old, p
    <3> QED
      BY <3>1, <3>2, <3>3
  <2>2. CASE ~(i <= Len(d.obj_fifo))
    <3>1. old[i] = Clear
      BY <2>2
    <3> HIDE DEF old, p
    <3>2. Clear \in ObjectPixel
      BY DEF Clear, ObjectPixel
    <3> QED
      BY <3>1, <3>2 DEF PixelInPlace
  <2> QED
    BY <2>1, <2>2
<1>5. ASSUME NEW i \in 1 .. 16
      PROVE  pixel[i] \in Int /\ pixel[i] = ((p + i) - 1) - (object.x - 8)
  <2> DEFINE x == object.x
  <2>1. pixel[i] = p + i - 1 - (x - 8)
    OBVIOUS
  <2>2. x \in Int /\ p \in Int
    BY <1>2, <1>3
  <2> HIDE DEF x, pixel, p
  <2>3. p + i - 1 - (x - 8) = ((p + i) - 1) - (x - 8)
    BY <2>2
  <2>4. ((p + i) - 1) - (x - 8) \in Int
    BY <2>2
  <2> QED
    BY <2>1, <2>3, <2>4 DEF x
<1>6. k \in AtZero \/ p >= -7
  <2>1. CASE p < -8
    <3>1. object.x = 0
      BY <1>a, <2>1 DEF ObjectMatch
    <3>2. DOMAIN line.oam = 1 .. Len(line.oam)
      BY DEF LineState
    <3> QED
      BY <1>a, <3>1, <3>2 DEF AtZero
  <2> QED
    BY <1>a, <2>1
<1>7. ASSUME NEW i \in 1 .. 16
      PROVE  new(i) \in ObjectPixel /\ PixelInPlace(p, i, new(i))
  <2> DEFINE e == [oam |-> k, pixel |-> pixel[i]]
  <2>1. pixel[i] \in Int /\ pixel[i] = ((p + i) - 1) - (object.x - 8)
    BY <1>5
  <2> DEFINE q == pixel[i]
             before == old[i]
  <2>2. before \in ObjectPixel /\ PixelInPlace(p, i, before)
    BY <1>4
  <2>3. q \in Int /\ q = ((p + i) - 1) - (line.oam[k].x - 8)
    BY <2>1
  <2>4. new(i) = e \/ new(i) = before
    OBVIOUS
  <2> HIDE DEF q, before
  <2>5. e = [oam |-> k, pixel |-> q]
    BY DEF q
  <2> HIDE DEF e, pixel, old, p, new, object, k
  <2>6. e.oam = k /\ e.pixel = q
    BY <2>5
  <2>7. e \in ObjectPixel
    BY <1>2, <2>3, <2>5 DEF ObjectPixel
  <2>8. k \in 1 .. Len(line.oam)
    BY <1>a
  <2>9. PixelInPlace(p, i, e)
    BY <1>6, <2>3, <2>6, <2>8, Zenon DEF PixelInPlace
  <2> QED
    BY <2>2, <2>4, <2>7, <2>9, ZenonT(60)
<1> HIDE DEF new, old, pixel, object, k
<1>8. o \in [1 .. 16 -> ObjectPixel] /\ \A i \in 1 .. 16 : o[i] = new(i)
  BY <1>7
<1> HIDE DEF o, u
<1>9. o \in Seq(ObjectPixel) /\ Len(o) = 16
  <2>1. 16 \in Nat
    OBVIOUS
  <2> QED
    BY <1>8, <2>1, RunOfPixels
<1> DEFINE w == [d EXCEPT !.obj_fifo = o]
<1>10. w \in Drawing
  BY <1>9, ZenonT(60) DEF Drawing
<1>11. u.obj_fifo = o /\ u.pixel_position = p
  BY <1>1 DEF Drawing
<1>12. FifoInPlace(u)
  <2>1. \A i \in 1 .. 16 : PixelInPlace(p, i, o[i])
    <3> HIDE DEF p
    <3> QED BY <1>7, <1>8, Zenon
  <2> HIDE DEF p
  <2> QED
    BY <1>9, <1>11, <2>1, Zenon DEF FifoInPlace
<1>13. /\ SameRegisters(d, u) /\ SameColumn(d, u) /\ SameGround(d, u) /\ SameWindow(d, u)
       /\ SameFetch(d, u)
  BY <1>1 DEF Drawing, SameRegisters, SameColumn, SameGround, SameWindow, SameFetch
<1> HIDE DEF w
<1>14. u = w
  BY <1>1 DEF w
<1>15. Overlaid(d, u)
  BY <1>10, <1>12, <1>13, <1>14, Zenon DEF Overlaid
<1> QED
  BY <1>15 DEF u

\* An object fetch that waits for the background fetcher.
Aligns(d) == d.object_fetch_step = "Align" /\ (d.fetcher.step < 5 \/ d.bg_fifo = <<>>)

\* A dot of tick_object_fetch.
FetchTicked(d, u) ==
  /\ u \in Drawing /\ SameRegisters(d, u) /\ SameColumn(d, u) /\ SameWindow(d, u)
  /\ u.fetched = d.fetched /\ FifoInPlace(u)
  /\ WindowEnabled(d) => u.window_active = d.window_active
  /\ u.object_fetch_step # "None" => u.object_fetch_index = d.object_fetch_index
  /\ Aligns(d) => Advanced(d, u)
  /\ d.object_fetch_step = "Align" /\ ~Aligns(d) =>
       u.bg_fifo = d.bg_fifo /\ u.fetcher.step = 6 /\ u.object_fetch_step = "OamSecond"
  /\ d.object_fetch_step # "Align" => SameGround(d, u)
  /\ d.object_fetch_step \notin {"Align", "DataHighSecond"} =>
       u.object_fetch_step = NextFetchStep(d.object_fetch_step)
  /\ d.object_fetch_step = "DataHighSecond" => u.object_fetch_step = "None"

\* The object FIFO stays in place where neither it nor the place changes.
LEMMA FifoStaysInPlace ==
  ASSUME NEW d, NEW u, FifoInPlace(d), u.obj_fifo = d.obj_fifo,
         u.pixel_position = d.pixel_position
  PROVE  FifoInPlace(u)
BY Zenon DEF FifoInPlace

\* A dot of tick_object_fetch does that.
LEMMA FetchTicks ==
  ASSUME NEW d \in Drawing, line \in LineState, FifoInPlace(d), ObjectIsMet(d),
         d.object_fetch_step # "None"
  PROVE  FetchTicked(d, TickObjectFetch(d))
<1> DEFINE u == TickObjectFetch(d)
           step == d.object_fetch_step
           next == NextFetchStep(step)
<1>0. step \in FetchSteps \ {"None"} /\ d.fetcher.step \in 0 .. 6 /\ next \in FetchSteps \ {"None"}
  <2>1. step \in FetchSteps
    BY DEF Drawing
  <2>2. d.fetcher \in Fetcher
    BY DEF Drawing
  <2>3. d.fetcher.step \in 0 .. 6
    BY <2>2 DEF Fetcher
  <2>4. next \in FetchSteps \ {"None"}
    BY DEF NextFetchStep, FetchSteps
  <2> QED
    BY <2>1, <2>3, <2>4
<1> HIDE DEF next
<1>1. CASE Aligns(d)
  <2>1. u = AdvancePixelFetcher(d)
    BY <1>1 DEF TickObjectFetch, Aligns
  <2>2. Advanced(d, u)
    BY <2>1, FetcherAdvances
  <2> HIDE DEF u
  <2>3. FifoInPlace(u)
    <3>1. u.obj_fifo = d.obj_fifo /\ u.pixel_position = d.pixel_position
      BY <2>2 DEF Advanced, SameObjects, SameColumn
    <3> QED
      BY <3>1, FifoStaysInPlace
  <2>4. step = "Align"
    BY <1>1 DEF Aligns
  <2>5. FetchTicked(d, u)
    BY <1>1, <2>2, <2>3, <2>4 DEF FetchTicked, Advanced, SameObjects
  <2> QED
    BY <2>5 DEF u
<1>2. CASE step = "Align" /\ ~Aligns(d)
  <2> DEFINE v == AdvancePixelFetcher(d)
             w == [v EXCEPT !.object_fetch_step = next]
  <2>1. u = w
    BY <1>2 DEF TickObjectFetch, Aligns, next
  <2>2. Advanced(d, v)
    BY FetcherAdvances
  <2>3. next = "OamSecond"
    BY <1>2 DEF NextFetchStep, next
  <2> HIDE DEF v
  <2>4. v \in Drawing
    BY <2>2 DEF Advanced
  <2>5. w \in Drawing /\ w.object_fetch_step = next
    <3>1. next \in FetchSteps
      BY <1>0
    <3>2. w \in Drawing
      BY <2>4, <3>1, ZenonT(60) DEF Drawing
    <3> QED
      BY <2>4, <3>2 DEF Drawing
  <2>6. /\ SameRegisters(v, w) /\ SameColumn(v, w) /\ SameWindow(v, w) /\ SameGround(v, w)
        /\ w.fetched = v.fetched /\ w.obj_fifo = v.obj_fifo
        /\ w.object_fetch_index = v.object_fetch_index
    BY <2>4 DEF Drawing, SameRegisters, SameColumn, SameWindow, SameGround
  <2> HIDE DEF u, w
  <2>7. /\ SameRegisters(d, w) /\ SameColumn(d, w) /\ SameWindow(d, w)
        /\ w.fetched = d.fetched /\ w.obj_fifo = d.obj_fifo
        /\ w.object_fetch_index = d.object_fetch_index
        /\ (WindowEnabled(d) => w.window_active = d.window_active)
    BY <2>2, <2>6 DEF Advanced, SameRegisters, SameColumn, SameWindow, SameGround, SameObjects
  <2>8. d.bg_fifo # <<>> /\ d.fetcher.step >= 5
    BY <1>0, <1>2 DEF Aligns
  <2>9. w.bg_fifo = d.bg_fifo /\ w.fetcher.step = 6
    BY <2>2, <2>6, <2>8 DEF Advanced, SameGround
  <2>10. FifoInPlace(w)
    <3>1. w.obj_fifo = d.obj_fifo /\ w.pixel_position = d.pixel_position
      BY <2>7 DEF SameColumn
    <3> QED
      BY <3>1, FifoStaysInPlace
  <2>11. FetchTicked(d, w)
    BY <1>2, <2>3, <2>5, <2>7, <2>9, <2>10 DEF FetchTicked
  <2> QED
    BY <2>1, <2>11 DEF u
<1>3. CASE step = "DataHighSecond"
  <2> DEFINE v == Overlay(d)
  <2>1. u = EndObjectFetch(v)
    BY <1>3 DEF TickObjectFetch
  <2>2. Overlaid(d, v)
    BY ObjectIsOverlaid
  <2> HIDE DEF v
  <2>3. FetchEnded(v, u)
    BY <2>1, <2>2, FetchEnds DEF Overlaid
  <2> HIDE DEF u
  <2>4. /\ SameRegisters(d, u) /\ SameColumn(d, u) /\ SameWindow(d, u) /\ SameGround(d, u)
        /\ u.fetched = d.fetched /\ u \in Drawing /\ u.object_fetch_step = "None"
    BY <2>2, <2>3 DEF Overlaid, FetchEnded, SameRegisters, SameColumn, SameWindow,
                         SameGround, SameFetch
  <2>5. FifoInPlace(u)
    <3>1. u.obj_fifo = v.obj_fifo /\ u.pixel_position = v.pixel_position
      BY <2>3 DEF FetchEnded, SameColumn
    <3>2. FifoInPlace(v)
      BY <2>2 DEF Overlaid
    <3> QED
      BY <3>1, <3>2, FifoStaysInPlace
  <2>6. ~Aligns(d)
    BY <1>3 DEF Aligns
  <2>7. FetchTicked(d, u)
    BY <1>3, <2>4, <2>5, <2>6 DEF FetchTicked, SameGround
  <2> QED
    BY <2>7 DEF u
<1>4. CASE step \notin {"Align", "DataHighSecond"}
  <2> DEFINE w == [d EXCEPT !.object_fetch_step = next]
  <2>1. u = w
    BY <1>4 DEF TickObjectFetch, next
  <2>2. w \in Drawing /\ w.object_fetch_step = next
    <3>1. next \in FetchSteps
      BY <1>0
    <3>2. w \in Drawing
      BY <3>1, ZenonT(60) DEF Drawing
    <3> QED
      BY <3>2 DEF Drawing
  <2>3. /\ SameRegisters(d, w) /\ SameColumn(d, w) /\ SameWindow(d, w) /\ SameGround(d, w)
        /\ w.fetched = d.fetched /\ w.obj_fifo = d.obj_fifo
        /\ w.object_fetch_index = d.object_fetch_index
    BY DEF Drawing, SameRegisters, SameColumn, SameWindow, SameGround
  <2> HIDE DEF u, w
  <2>4. FifoInPlace(w)
    <3>1. w.obj_fifo = d.obj_fifo /\ w.pixel_position = d.pixel_position
      BY <2>3 DEF SameColumn
    <3> QED
      BY <3>1, FifoStaysInPlace
  <2>5. ~Aligns(d)
    BY <1>4 DEF Aligns
  <2>6. FetchTicked(d, w)
    BY <1>4, <2>2, <2>3, <2>4, <2>5 DEF FetchTicked, SameGround, next
  <2> QED
    BY <2>1, <2>6 DEF u
<1>5. Aligns(d) => step = "Align"
  BY DEF Aligns
<1> QED
  BY <1>1, <1>2, <1>3, <1>4, <1>5

-----------------------------------------------------------------------------
(* What is owed and what is paid are numbers. *)

\* ScannedObjects gives places in OAM.
LEMMA ObjectsAreInOam == ScannedObjects(line) \subseteq 1 .. Len(line.oam)
BY DEF ScannedObjects

\* A line has finitely many objects.
LEMMA ObjectsAreFinite ==
  ASSUME line \in LineState
  PROVE  IsFiniteSet(ScannedObjects(line))
<1>1. Len(line.oam) \in Nat
  BY DEF LineState
<1> DEFINE k == Len(line.oam)
<1>2. IsFiniteSet(1 .. k)
  <2>1. k \in Int /\ 1 \in Int
    BY <1>1
  <2> HIDE DEF k
  <2> QED
    BY <2>1, FS_Interval
<1> QED
  BY <1>2, ObjectsAreInOam, FS_Subset

\* So finitely many are fetched.
LEMMA FetchesAreFinite ==
  ASSUME NEW d, line \in LineState, d.line_objects = ScannedObjects(line),
         d.fetched \subseteq d.line_objects
  PROVE  IsFiniteSet(d.fetched) /\ Cardinality(d.fetched) \in Nat
<1>1. IsFiniteSet(d.fetched)
  BY ObjectsAreFinite, FS_Subset, Zenon
<1> QED
  BY <1>1, FS_CardinalityType

\* One more object is in F than in E.
LEMMA OneMore ==
  ASSUME NEW F, NEW E, IsFiniteSet(F), E \subseteq F, \E i \in F : i \notin E
  PROVE  Cardinality(F) >= Cardinality(E) + 1
<1>1. PICK i \in F : i \notin E
  OBVIOUS
<1> DEFINE G == E \union {i}
<1>2. IsFiniteSet(E)
  BY FS_Subset
<1>3. IsFiniteSet(G) /\ Cardinality(G) = Cardinality(E) + 1
  BY <1>1, <1>2, FS_AddElement
<1>4. G \subseteq F
  BY <1>1
<1> HIDE DEF G
<1>5. Cardinality(G) <= Cardinality(F)
  BY <1>4, FS_Subset
<1>6. Cardinality(G) \in Nat /\ Cardinality(F) \in Nat /\ Cardinality(E) \in Nat
  BY <1>2, <1>3, FS_CardinalityType
<1> QED
  BY <1>3, <1>5, <1>6

\* More objects are not fewer.
LEMMA NoLess ==
  ASSUME NEW F, NEW E, IsFiniteSet(F), E \subseteq F
  PROVE  Cardinality(F) >= Cardinality(E)
<1>1. Cardinality(E) <= Cardinality(F) /\ IsFiniteSet(E)
  BY FS_Subset
<1>2. Cardinality(F) \in Nat /\ Cardinality(E) \in Nat
  BY <1>1, FS_CardinalityType
<1> QED
  BY <1>1, <1>2

\* The members that are counted are numbers.
Numbers(d) ==
  /\ Refill(d) \in 0 .. 6 /\ FetchDots(d) \in 0 .. 11 /\ Misaligned(d) \in {0, 5}
  /\ Pops(d) \in Int /\ 4 - d.mode3_startup_dots \in 0 .. 4
  /\ d.fetcher.step \in 0 .. 6 /\ d.bg_fifo \in Seq(BgPixel) /\ Len(d.bg_fifo) \in Nat
  /\ d.pixel_position \in Int /\ d.screen_x \in Int /\ d.scx_low \in 0 .. 7
  /\ d.wx \in 0 .. 255 /\ d.object_fetch_step \in FetchSteps
  /\ d.window_active \in BOOLEAN /\ d.wx_just_changed \in BOOLEAN /\ d.finished \in BOOLEAN

\* They are.
LEMMA DrawingIsNumbers ==
  ASSUME NEW d \in Drawing
  PROVE  Numbers(d)
<1>0. d.fetcher \in Fetcher
  BY DEF Drawing
<1>1. d.fetcher.step \in 0 .. 6
  BY <1>0 DEF Fetcher
<1>2. d.mode3_startup_dots \in 0 .. 4 /\ d.scx_low \in 0 .. 7 /\ d.wx \in 0 .. 255
  BY DEF Drawing
<1>3. d.pixel_position \in Int /\ d.screen_x \in Int
  BY DEF Drawing
<1>4. d.object_fetch_step \in FetchSteps
  BY DEF Drawing
<1>5. d.window_active \in BOOLEAN /\ d.wx_just_changed \in BOOLEAN /\ d.finished \in BOOLEAN
  BY DEF Drawing
<1>6. d.bg_fifo \in Seq(BgPixel)
  BY DEF Drawing
<1>7. Len(d.bg_fifo) \in Nat
  BY <1>6
<1>8. Refill(d) \in 0 .. 6
  BY <1>1 DEF Refill
<1>9. FetchDots(d) \in 0 .. 11
  <2> DEFINE s == d.object_fetch_step
             n == d.fetcher.step
  <2>1. n \in 0 .. 6
    BY <1>1
  <2>2. s \in FetchSteps
    BY <1>4
  <2>3. CASE s = "Align"
    BY <2>1, <2>3 DEF FetchDots
  <2>4. CASE s # "Align"
    BY <2>2, <2>4 DEF FetchDots, FetchSteps
  <2> QED
    BY <2>3, <2>4
<1>10. Misaligned(d) \in {0, 5}
  BY DEF Misaligned
<1>11. 4 - d.mode3_startup_dots \in 0 .. 4
  BY <1>2
<1>12. Pops(d) \in Int
  <2> DEFINE p == d.pixel_position
             l == d.scx_low
  <2>1. p \in Int /\ l \in Int
    BY <1>2, <1>3
  <2> HIDE DEF p, l
  <2>2. p + 16 \in Int /\ (l + p) + 8 \in Int
    BY <2>1
  <2> QED
    BY <2>2 DEF p, l, Pops
<1> QED
  BY <1>1, <1>2, <1>3, <1>4, <1>5, <1>6, <1>7, <1>8, <1>9, <1>10, <1>11, <1>12, Zenon DEF Numbers

\* What the window does next is told by the registers and the place.
SamePath(d, u) ==
  /\ WindowEnabled(u) <=> WindowEnabled(d)
  /\ WindowReached(u) <=> WindowReached(d)
  /\ Trails(u) <=> Trails(d)
  /\ Pops(u) = Pops(d) /\ ObjectMatch(u) = ObjectMatch(d)

\* It is told by them.
LEMMA PathIsSame ==
  ASSUME NEW d, NEW u, SameRegisters(d, u), SameColumn(d, u)
  PROVE  SamePath(d, u)
<1>1. /\ u.lcdc = d.lcdc /\ u.wx = d.wx /\ u.scx_low = d.scx_low
      /\ u.pixel_position = d.pixel_position /\ u.screen_x = d.screen_x
  BY DEF SameRegisters, SameColumn
<1>2. WindowEnabled(u) <=> WindowEnabled(d)
  BY <1>1, Zenon DEF WindowEnabled
<1>3. WindowReached(u) <=> WindowReached(d)
  BY <1>1, Zenon DEF WindowReached
<1>4. Trails(u) <=> Trails(d)
  BY <1>1, Zenon DEF Trails
<1>5. Pops(u) = Pops(d) /\ ObjectMatch(u) = ObjectMatch(d)
  BY <1>1, Zenon DEF Pops, ObjectMatch
<1> QED
  BY <1>2, <1>3, <1>4, <1>5, Zenon DEF SamePath

-----------------------------------------------------------------------------
(* A dot: the window, then the start of a fetch, then a dot of it or a pixel. *)

\* The line goes on, t columns taken back.
GoesOn(d, t) ==
  /\ Wellformed(d, t) /\ FifoInPlace(d) /\ d.finished = FALSE
  /\ d.mode3_startup_dots = 0 /\ d.wx_just_changed = FALSE
  /\ t \in Nat /\ t <= writes.count
  /\ t = writes.count => ~MayTrigger(d)
  /\ Pops(d) + 4 <= dots

\* Before a fetch starts the window has to be paid whatever comes.
Ready(d, t) ==
  /\ GoesOn(d, t)
  /\ (dots + t) + ((Refill(d) + FetchDots(d)) + Misaligned(d)) <= Paid(d, writes.count)

\* A line that has begun, or given up, the fetch of an object.
Begun(d, t) ==
  GoesOn(d, t) /\ (dots + t) + Owed(d) <= Paid(d, writes.count)

\* A line whose dot is over, before it is counted.
Done(d, t) ==
  /\ Wellformed(d, t) /\ FifoInPlace(d) /\ t \in Nat
  /\ InBudget(d, writes.count, t, dots + 1)
  /\ TakenIsWritten(d, writes.count, t)

\* Columns taken back, the present dot included.
Taken(d, t) == IF Triggers(d) /\ WindowPassed(d) THEN t + 1 ELSE t

\* The counters count.
Counts == dots \in Nat /\ writes.count \in Nat /\ writes.taken \in Nat

\* A line holds bytes.
LEMMA LineIsState ==
  ASSUME line \in ScanLines
  PROVE  line \in LineState /\ Width \in Nat /\ Width > 8
BY LineAssumption DEF LinesAreBytes

\* A window that begins triggers, or WX was just written.
LEMMA TriggersIsMayTrigger ==
  ASSUME NEW d \in Drawing
  PROVE  /\ Triggers(d) => MayTrigger(d)
         /\ MayTrigger(d) /\ ~Triggers(d) => d.wx_just_changed
         /\ WindowPassed(d) => d.screen_x > 0 /\ Trails(d)
BY Zenon DEF Triggers, MayTrigger, MayBegin, WindowPassed, Trails

\* The window's part keeps the members well formed.
LEMMA WindowKeepsForm ==
  ASSUME NEW d, NEW t \in Nat, line \in ScanLines, Wellformed(d, t), d.finished = FALSE
  PROVE  Wellformed(TickWindow(d), Taken(d, t)) /\ TickWindow(d).finished = FALSE
<1> DEFINE u == TickWindow(d)
<1>1. d \in Drawing /\ line \in LineState /\ Width \in Nat
  BY LineIsState DEF Wellformed
<1>2. WindowTicked(d, u)
  BY <1>1, WindowTicks
<1>3. Numbers(d) /\ Numbers(u)
  BY <1>1, <1>2, DrawingIsNumbers DEF WindowTicked
<1> HIDE DEF u
<1>4. FetcherIsInTime(u)
  <2>1. CASE Triggers(d)
    BY <1>2, <2>1 DEF WindowTicked, FetcherIsInTime
  <2>2. CASE ~Triggers(d)
    <3>1. u.bg_fifo = d.bg_fifo /\ u.fetcher = d.fetcher
      BY <1>2, <2>2 DEF WindowTicked, SameGround
    <3>2. FetcherIsInTime(d)
      BY DEF Wellformed
    <3> QED
      BY <3>1, <3>2, Zenon DEF FetcherIsInTime
  <2> QED
    BY <2>1, <2>2
<1>5. /\ u.pixel_position = d.pixel_position /\ u.scx_low = d.scx_low /\ u.finished = FALSE
      /\ u.line_objects = d.line_objects /\ u.fetched = d.fetched
      /\ u.object_fetch_step = d.object_fetch_step
      /\ u.object_fetch_index = d.object_fetch_index
      /\ u.mode3_startup_dots = d.mode3_startup_dots
  BY <1>2 DEF WindowTicked, SameRegisters, SameObjects
<1>6. /\ InPlace(u, Taken(d, t)) /\ u.screen_x \in 0 .. Width
      /\ u.finished = (u.screen_x = Width)
  <2>1. d.screen_x \in 0 .. Width /\ d.screen_x # Width
    BY DEF Wellformed
  <2>2. InPlace(d, t)
    BY DEF Wellformed
  <2>3. CASE Triggers(d) /\ WindowPassed(d)
    <3>1. d.screen_x > 0 /\ u.screen_x = d.screen_x - 1 /\ Taken(d, t) = t + 1
      BY <1>1, <1>2, <2>3, TriggersIsMayTrigger DEF WindowTicked, Taken
    <3>2. d.pixel_position >= 0 /\ d.screen_x + t = d.pixel_position
      BY <1>3, <2>2, <3>1 DEF InPlace, Numbers
    <3>3. u.pixel_position >= 0 /\ u.screen_x + Taken(d, t) = u.pixel_position
      BY <1>3, <1>5, <3>1, <3>2 DEF Numbers
    <3>4. u.screen_x \in 0 .. Width /\ u.screen_x # Width
      BY <1>1, <2>1, <3>1
    <3>5. u.finished = (u.screen_x = Width)
      BY <1>5, <3>4, Zenon
    <3> QED
      BY <3>3, <3>4, <3>5 DEF InPlace
  <2>4. CASE ~(Triggers(d) /\ WindowPassed(d))
    <3>1. u.screen_x = d.screen_x /\ Taken(d, t) = t
      BY <1>2, <2>4 DEF WindowTicked, Taken
    <3>2. u.finished = (u.screen_x = Width)
      BY <1>5, <2>1, <3>1, Zenon
    <3>3. InPlace(u, t)
      BY <1>5, <2>2, <3>1, Zenon DEF InPlace
    <3> QED
      BY <2>1, <3>1, <3>2, <3>3
  <2> QED
    BY <2>3, <2>4
<1>7. ObjectMatch(u) = ObjectMatch(d)
  BY <1>5 DEF ObjectMatch
<1>8. Wellformed(u, Taken(d, t))
  <2>1. u \in Drawing
    BY <1>2 DEF WindowTicked
  <2>2. /\ u.scx_low = line.scx % 8 /\ u.line_objects = ScannedObjects(line)
        /\ u.fetched \subseteq u.line_objects
    BY <1>5, Zenon DEF Wellformed
  <2>3. u.object_fetch_step # "None" =>
          /\ u.object_fetch_index \in u.line_objects
          /\ line.oam[u.object_fetch_index].x = ObjectMatch(u)
    BY <1>5, <1>7, Zenon DEF Wellformed
  <2>4. u.mode3_startup_dots > 0 => u.pixel_position = -16
    BY <1>5, Zenon DEF Wellformed
  <2> QED
    BY <1>4, <1>6, <2>1, <2>2, <2>3, <2>4, Zenon DEF Wellformed
<1> QED
  BY <1>5, <1>8 DEF u

\* What is owed after the window's part.
LEMMA WindowIsPaid ==
  ASSUME NEW d, NEW t \in Nat, line \in ScanLines, Counts, Wellformed(d, t),
         InBudget(d, writes.count, t, dots)
  PROVE  /\ (dots + Taken(d, t))
              + ((Refill(TickWindow(d)) + FetchDots(TickWindow(d))) + Misaligned(TickWindow(d)))
              <= Paid(TickWindow(d), writes.count)
         /\ Triggers(d) /\ ~WindowPassed(d) =>
              ((dots + 1) + t) + Owed(TickWindow(d)) <= Paid(TickWindow(d), writes.count)
<1> DEFINE u == TickWindow(d)
           t2 == Taken(d, t)
           r == Refill(d)
           f == FetchDots(d)
           m == Misaligned(d)
           r2 == Refill(u)
           f2 == FetchDots(u)
           m2 == Misaligned(u)
           c == Cardinality(d.fetched)
           w == Windows(d, writes.count)
           w2 == Windows(u, writes.count)
           k == (4 - d.mode3_startup_dots) + Pops(d)
           n == dots
<1>1. d \in Drawing /\ line \in LineState /\ Width \in Nat
  BY LineIsState DEF Wellformed
<1>2. WindowTicked(d, u)
  BY <1>1, WindowTicks
<1>3. Numbers(d) /\ Numbers(u)
  BY <1>1, <1>2, DrawingIsNumbers DEF WindowTicked
<1>4. c \in Nat
  BY <1>1, FetchesAreFinite DEF Wellformed
<1> HIDE DEF u
<1>5. k \in Int
  <2> DEFINE a == 4 - d.mode3_startup_dots
             b == Pops(d)
  <2>1. a \in Int /\ b \in Int
    BY <1>3 DEF Numbers
  <2> HIDE DEF a, b
  <2>2. a + b \in Int
    BY <2>1
  <2> QED
    BY <2>2 DEF a, b
<1>6. w \in Nat /\ w2 \in Nat /\ n \in Nat
  BY DEF Counts, Windows
<1>7. /\ r \in 0 .. 6 /\ f \in 0 .. 11 /\ m \in {0, 5}
      /\ r2 \in 0 .. 6 /\ f2 \in 0 .. 11 /\ m2 \in {0, 5}
  BY <1>3 DEF Numbers
<1>8. Paid(u, writes.count) = (k + 7 * w2) + 11 * c
  <2>1. /\ u.mode3_startup_dots = d.mode3_startup_dots /\ u.fetched = d.fetched
        /\ u.pixel_position = d.pixel_position /\ u.scx_low = d.scx_low
    BY <1>2 DEF WindowTicked, SameRegisters, SameObjects
  <2>2. Pops(u) = Pops(d)
    BY <2>1, Zenon DEF Pops
  <2> QED
    BY <2>1, <2>2, Zenon DEF Paid
<1>9. Paid(d, writes.count) = (k + 7 * w) + 11 * c
  BY Zenon DEF Paid
<1>10. (n + t) + Owed(d) <= (k + 7 * w) + 11 * c
  BY <1>9, Zenon DEF InBudget
<1>11. (r + f) + m >= r + f /\ Owed(d) \in {r + f, (r + f) + m}
       /\ (d.wx_just_changed \/ d.object_fetch_step = "Align" => Owed(d) = (r + f) + m)
  <2>1. (r + f) + m >= r + f /\ (r + f) + 0 = r + f
    <3> HIDE DEF r, f, m
    <3> QED BY <1>7
  <2>2. CASE d.wx_just_changed \/ d.object_fetch_step = "Align"
    <3>1. Owed(d) = (r + f) + m
      BY <2>2, Zenon DEF Owed
    <3> HIDE DEF r, f, m
    <3> QED BY <2>1, <3>1, Zenon
  <2>3. CASE ~(d.wx_just_changed \/ d.object_fetch_step = "Align")
    <3>1. Owed(d) = (r + f) + 0
      BY <2>3, Zenon DEF Owed
    <3> HIDE DEF r, f, m
    <3> QED BY <2>1, <2>3, <3>1, Zenon
  <2> QED
    BY <2>2, <2>3
<1>12. u.object_fetch_step = d.object_fetch_step /\ u.wx_just_changed = FALSE
  BY <1>2 DEF WindowTicked, SameObjects
<1>13. CASE Triggers(d)
  <2>1. u.window_active = TRUE /\ u.bg_fifo = <<>> /\ u.fetcher.step = 0
    BY <1>2, <1>13 DEF WindowTicked
  <2>2. m2 = 0
    <3>1. ~MayTrigger(u)
      BY <2>1, Zenon DEF MayTrigger, MayBegin
    <3> QED
      BY <3>1 DEF Misaligned
  <2>3. r2 = 6
    BY <2>1 DEF Refill
  <2>4. w2 = w + 1
    <3>1. u.lcdc = d.lcdc /\ u.wx = d.wx
      BY <1>2 DEF WindowTicked, SameRegisters
    <3>2. WindowEnabled(d) /\ ~d.window_active
      BY <1>13 DEF Triggers
    <3>3. WindowEnabled(u)
      BY <3>1, <3>2, Zenon DEF WindowEnabled
    <3>4. w = writes.count /\ w2 = writes.count + 1
      BY <2>1, <3>2, <3>3 DEF Windows
    <3> HIDE DEF w, w2
    <3> QED
      BY <3>4, Zenon
  <2>5. f2 <= (r + f) + m /\ (f2 <= r + f \/ Owed(d) = (r + f) + m)
    <3>1. CASE d.object_fetch_step = "Align"
      <4>1. m = 5
        BY <1>1, <1>13, TriggersIsMayTrigger DEF Misaligned
      <4>2. f2 = 11
        BY <1>12, <2>1, <3>1 DEF FetchDots
      <4>3. f >= 6
        BY <1>3, <3>1, SMTT(30) DEF FetchDots, Numbers
      <4>4. Owed(d) = (r + f) + m
        BY <1>11, <3>1
      <4> HIDE DEF r, f, m, f2
      <4>5. f2 <= (r + f) + m
        BY <1>7, <4>1, <4>2, <4>3
      <4> QED
        BY <4>4, <4>5
    <3>2. CASE d.object_fetch_step # "Align"
      <4>1. f2 = f
        BY <1>12, <3>2 DEF FetchDots
      <4> HIDE DEF r, f, m, f2
      <4> QED
        BY <1>7, <4>1
    <3> QED
      BY <3>1, <3>2
  <2>6. t2 <= t + 1 /\ t2 \in Nat
    BY DEF Taken
  <2>7. f2 <= Owed(d) /\ Owed(d) \in Int
    <3> DEFINE o == Owed(d)
    <3>1. o \in {r + f, (r + f) + m} /\ (f2 <= r + f \/ o = (r + f) + m)
          /\ f2 <= (r + f) + m
      BY <1>11, <2>5
    <3> HIDE DEF o, r, f, m, f2
    <3>2. f2 <= o /\ o \in Int
      BY <1>7, <3>1
    <3> QED
      BY <3>2 DEF o
  <2>8. Owed(u) = r2 + f2
    <3>1. Owed(u) = (r2 + f2) + (IF u.wx_just_changed \/ u.object_fetch_step = "Align"
                                  THEN m2 ELSE 0)
      BY Zenon DEF Owed
    <3> HIDE DEF r2, f2, m2
    <3>2. (r2 + f2) + 0 = r2 + f2
      BY <1>7
    <3> QED
      BY <2>2, <3>1, <3>2
  <2> DEFINE o == Owed(d)
             o2 == Owed(u)
             P == Paid(u, writes.count)
  <2>9. (n + t) + o <= (k + 7 * w) + 11 * c /\ P = (k + 7 * w2) + 11 * c /\ o \in Int
        /\ f2 <= o /\ o2 = r2 + f2
    BY <1>8, <1>10, <2>7, <2>8
  <2> HIDE DEF o, o2, P, k, w, w2, r2, f2, m2, c, t2, n, r, f, m
  <2>10. (n + t2) + ((r2 + f2) + m2) <= P
    BY <1>4, <1>5, <1>6, <1>7, <2>2, <2>3, <2>4, <2>6, <2>9
  <2>11. ((n + 1) + t) + o2 <= P
    BY <1>4, <1>5, <1>6, <1>7, <2>2, <2>3, <2>4, <2>9
  <2> QED
    BY <2>10, <2>11 DEF o2, P, r2, f2, m2, t2, n, u
<1>14. CASE ~Triggers(d)
  <2>1. /\ u.bg_fifo = d.bg_fifo /\ u.fetcher = d.fetcher /\ u.window_active = d.window_active
        /\ u.screen_x = d.screen_x
    BY <1>2, <1>14 DEF WindowTicked, SameGround
  <2>2. SamePath(d, u)
    BY <1>2, <2>1, PathIsSame DEF WindowTicked, SameColumn
  <2>3. r2 = r /\ f2 = f
    BY <1>12, <2>1, Zenon DEF Refill, FetchDots
  <2>4. w2 = w
    BY <2>1, <2>2, Zenon DEF SamePath, Windows
  <2>5. MayTrigger(u) <=> MayTrigger(d)
    BY <2>1, <2>2, Zenon DEF SamePath, MayTrigger, MayBegin
  <2>6. (r + f) + m2 <= Owed(d)
    <3>1. CASE d.wx_just_changed
      <4>1. Owed(d) = (r + f) + m
        BY <1>11, <3>1
      <4>2. m2 = m
        BY <2>5 DEF Misaligned
      <4> DEFINE o == Owed(d)
      <4>3. o = (r + f) + m
        BY <4>1
      <4> HIDE DEF r, f, m, m2, o
      <4>4. (r + f) + m2 <= o
        BY <1>7, <4>2, <4>3
      <4> QED
        BY <4>4 DEF o
    <3>2. CASE ~d.wx_just_changed
      <4>1. m2 = 0
        <5>1. ~MayTrigger(u)
          BY <1>1, <1>14, <2>5, <3>2, TriggersIsMayTrigger
        <5> QED
          BY <5>1 DEF Misaligned
      <4> DEFINE o == Owed(d)
      <4>2. o \in {r + f, (r + f) + m}
        BY <1>11
      <4> HIDE DEF r, f, m, m2, o
      <4>3. (r + f) + m2 <= o
        BY <1>7, <4>1, <4>2
      <4> QED
        BY <4>3 DEF o
    <3> QED
      BY <3>1, <3>2
  <2>7. t2 = t
    BY <1>14 DEF Taken
  <2> DEFINE o == Owed(d)
             P == Paid(u, writes.count)
  <2>8. (n + t) + o <= (k + 7 * w) + 11 * c /\ P = (k + 7 * w2) + 11 * c
        /\ (r + f) + m2 <= o /\ o \in {r + f, (r + f) + m}
    BY <1>8, <1>10, <1>11, <2>6
  <2> HIDE DEF o, P, k, w, w2, r2, f2, m2, c, t2, n, r, f, m
  <2>9. (n + t2) + ((r2 + f2) + m2) <= P
    BY <1>4, <1>5, <1>6, <1>7, <2>3, <2>4, <2>7, <2>8
  <2> QED
    BY <1>14, <2>9 DEF P, r2, f2, m2, t2, n, u
<1> QED
  BY <1>13, <1>14

\* After the window's part the line is ready to go on.
LEMMA WindowLeavesReady ==
  ASSUME NEW d, NEW t \in Nat, line \in ScanLines, Counts, Wellformed(d, t), FifoInPlace(d),
         InBudget(d, writes.count, t, dots), TakenIsWritten(d, writes.count, t),
         d.finished = FALSE, d.mode3_startup_dots = 0
  PROVE  Ready(TickWindow(d), Taken(d, t))
<1> DEFINE u == TickWindow(d)
           t2 == Taken(d, t)
<1>1. d \in Drawing
  BY DEF Wellformed
<1>2. WindowTicked(d, u)
  BY <1>1, WindowTicks
<1>3. Wellformed(u, t2) /\ u.finished = FALSE
  BY WindowKeepsForm
<1>4. (dots + t2) + ((Refill(u) + FetchDots(u)) + Misaligned(u)) <= Paid(u, writes.count)
  BY WindowIsPaid
<1> HIDE DEF u
<1>5. /\ u.pixel_position = d.pixel_position /\ u.scx_low = d.scx_low
      /\ u.mode3_startup_dots = 0 /\ u.wx_just_changed = FALSE /\ u.obj_fifo = d.obj_fifo
  BY <1>2 DEF WindowTicked, SameRegisters, SameObjects
<1>6. FifoInPlace(u)
  BY <1>5, FifoStaysInPlace
<1>7. Pops(u) + 4 <= dots
  <2>1. Pops(u) = Pops(d)
    BY <1>5, Zenon DEF Pops
  <2>2. (4 - 0) + Pops(d) <= dots
    BY Zenon DEF InBudget
  <2>3. Pops(d) \in Int /\ dots \in Int
    BY <1>1, DrawingIsNumbers DEF Numbers, Counts
  <2> QED
    BY <2>1, <2>2, <2>3
<1>8. t2 \in Nat /\ t2 <= writes.count /\ (t2 = writes.count => ~MayTrigger(u))
  <2>1. t <= writes.count /\ writes.count \in Nat
    BY DEF TakenIsWritten, Counts
  <2>2. CASE Triggers(d)
    <3>1. u.window_active = TRUE
      BY <1>2, <2>2 DEF WindowTicked
    <3>2. ~MayTrigger(u)
      BY <3>1, Zenon DEF MayTrigger, MayBegin
    <3>3. CASE WindowPassed(d)
      <4>1. Trails(d) /\ MayBegin(d)
        BY <1>1, <2>2, <3>3, TriggersIsMayTrigger DEF Triggers, MayBegin
      <4>2. t # writes.count
        BY <4>1 DEF TakenIsWritten
      <4>3. t2 = t + 1
        BY <2>2, <3>3 DEF Taken
      <4> HIDE DEF t2
      <4> QED
        BY <2>1, <3>2, <4>2, <4>3
    <3>4. CASE ~WindowPassed(d)
      <4>1. t2 = t
        BY <3>4 DEF Taken
      <4> HIDE DEF t2
      <4> QED
        BY <2>1, <3>2, <4>1
    <3> QED
      BY <3>3, <3>4
  <2>3. CASE ~Triggers(d)
    <3>1. t2 = t
      BY <2>3 DEF Taken
    <3>2. u.window_active = d.window_active /\ u.screen_x = d.screen_x
      BY <1>2, <2>3 DEF WindowTicked, SameGround
    <3>3. SamePath(d, u)
      BY <1>2, <3>2, PathIsSame DEF WindowTicked, SameColumn
    <3>4. ASSUME t2 = writes.count PROVE ~MayTrigger(u)
      <4>1. ~d.wx_just_changed
        BY <3>1, <3>4 DEF TakenIsWritten
      <4>2. ~MayTrigger(d)
        BY <1>1, <2>3, <4>1, TriggersIsMayTrigger
      <4> QED
        BY <3>2, <3>3, <4>2, Zenon DEF SamePath, MayTrigger, MayBegin
    <3> HIDE DEF t2
    <3> QED
      BY <2>1, <3>1, <3>4
  <2> QED
    BY <2>2, <2>3
<1>9. GoesOn(u, t2)
  BY <1>3, <1>5, <1>6, <1>7, <1>8, Zenon DEF GoesOn
<1>10. Ready(u, t2)
  BY <1>4, <1>9, Zenon DEF Ready
<1> QED
  BY <1>10 DEF u

\* The line goes on as before where nothing but the fetch has changed.
LEMMA FetchLetsGoOn ==
  ASSUME NEW d, NEW t, NEW u, line \in ScanLines, GoesOn(d, t), Started(d, u)
  PROVE  GoesOn(u, t)
<1>1. /\ u \in Drawing /\ SameRegisters(d, u) /\ SameColumn(d, u) /\ SameGround(d, u)
      /\ SameWindow(d, u) /\ u.obj_fifo = d.obj_fifo
  BY DEF Started
<1>2. SamePath(d, u)
  BY <1>1, PathIsSame
<1>3. FifoInPlace(u)
  <2>1. FifoInPlace(d) /\ u.pixel_position = d.pixel_position
    BY <1>1 DEF GoesOn, SameColumn
  <2> QED
    BY <1>1, <2>1, FifoStaysInPlace
<1>4. Wellformed(d, t)
  BY DEF GoesOn
<1>5. Wellformed(u, t)
  <2>1. FetcherIsInTime(u)
    BY <1>1, <1>4, Zenon DEF Wellformed, FetcherIsInTime, SameGround
  <2>2. InPlace(u, t)
    BY <1>1, <1>4, Zenon DEF Wellformed, InPlace, SameColumn, SameRegisters
  <2>3. /\ u.scx_low = line.scx % 8 /\ u.line_objects = ScannedObjects(line)
        /\ u.line_objects = d.line_objects
    BY <1>1, <1>4, Zenon DEF Wellformed, SameRegisters
  <2>4. u.fetched \subseteq u.line_objects
    BY <2>3, Zenon DEF Started
  <2>5. u.object_fetch_step # "None" =>
          /\ u.object_fetch_index \in u.line_objects
          /\ line.oam[u.object_fetch_index].x = ObjectMatch(u)
    BY <1>2, <1>4, <2>3, Zenon DEF Started, Wellformed, SamePath
  <2>6. /\ u.mode3_startup_dots > 0 => u.pixel_position = -16
        /\ u.screen_x \in 0 .. Width /\ u.finished = (u.screen_x = Width)
    BY <1>1, <1>4, Zenon DEF Wellformed, SameColumn, SameRegisters
  <2> QED
    BY <1>1, <2>1, <2>2, <2>3, <2>4, <2>5, <2>6, Zenon DEF Wellformed
<1>6. t = writes.count => ~MayTrigger(u)
  BY <1>1, <1>2, Zenon DEF GoesOn, SamePath, MayTrigger, MayBegin, SameGround
<1>7. /\ u.finished = FALSE /\ u.mode3_startup_dots = 0 /\ u.wx_just_changed = FALSE
      /\ t \in Nat /\ t <= writes.count /\ Pops(u) + 4 <= dots
  BY <1>1, <1>2, Zenon DEF GoesOn, SameColumn, SameRegisters, SameWindow, SamePath
<1> QED
  BY <1>3, <1>5, <1>6, <1>7, Zenon DEF GoesOn

\* A line that is ready and fetches no object goes on.
LEMMA ReadyBegins ==
  ASSUME NEW d, NEW t, Counts, Ready(d, t), line \in ScanLines
  PROVE  Begun(d, t)
<1> DEFINE s == Refill(d) + FetchDots(d)
           m == Misaligned(d)
           o == Owed(d)
           P == Paid(d, writes.count)
           n == dots + t
<1>1. d \in Drawing /\ t \in Nat
  BY DEF Ready, GoesOn, Wellformed
<1>2. Numbers(d)
  BY <1>1, DrawingIsNumbers
<1>3. s \in Nat /\ m \in {0, 5} /\ n \in Nat
  BY <1>1, <1>2, SMTT(30) DEF Numbers, Counts
<1>4. o = s + m \/ o = s + 0
  BY Zenon DEF Owed
<1>5. n + (s + m) <= P
  BY Zenon DEF Ready
<1>6. P \in Int
  <2> DEFINE a == 4 - d.mode3_startup_dots
             b == Pops(d)
             w == Windows(d, writes.count)
             c == Cardinality(d.fetched)
  <2>1. a \in Int /\ b \in Int
    BY <1>2 DEF Numbers
  <2>2. w \in Nat
    BY DEF Counts, Windows
  <2>3. c \in Nat
    BY LineIsState, FetchesAreFinite DEF Ready, GoesOn, Wellformed
  <2>4. P = ((a + b) + 7 * w) + 11 * c
    BY Zenon DEF Paid
  <2> HIDE DEF a, b, w, c, P
  <2> QED
    BY <2>1, <2>2, <2>3, <2>4
<1> HIDE DEF s, m, o, P, n
<1>7. n + o <= P
  BY <1>3, <1>4, <1>5, <1>6
<1> QED
  BY <1>7, Zenon DEF n, o, P, Begun, Ready

\* An object that is fetched has paid for it.
LEMMA FetchIsPaid ==
  ASSUME NEW d, NEW t, Counts, Ready(d, t), line \in ScanLines, d.object_fetch_step = "None"
  PROVE  Begun(StartObjectFetch(d), t)
<1> DEFINE u == StartObjectFetch(d)
           n == dots + t
           r == Refill(d)
           f == FetchDots(d)
           m == Misaligned(d)
           r2 == Refill(u)
           f2 == FetchDots(u)
           m2 == Misaligned(u)
           o2 == Owed(u)
           c == Cardinality(d.fetched)
           c2 == Cardinality(u.fetched)
           a == 4 - d.mode3_startup_dots
           b == Pops(d)
           w == Windows(d, writes.count)
           P == Paid(d, writes.count)
           P2 == Paid(u, writes.count)
<1>1. d \in Drawing /\ t \in Nat /\ d.fetched \subseteq d.line_objects
  BY DEF Ready, GoesOn, Wellformed
<1>2. Started(d, u)
  BY <1>1, FetchStarts
<1> HIDE DEF u
<1>3. GoesOn(u, t)
  BY <1>2, FetchLetsGoOn DEF Ready
<1>4. Numbers(d) /\ Numbers(u)
  BY <1>1, <1>2, DrawingIsNumbers DEF Started
<1>5. /\ SameRegisters(d, u) /\ SameColumn(d, u) /\ SameGround(d, u) /\ SameWindow(d, u)
  BY <1>2 DEF Started
<1>6. SamePath(d, u)
  BY <1>5, PathIsSame
<1>7. r2 = r /\ m2 = m
  BY <1>5, <1>6, Zenon DEF Refill, Misaligned, MayTrigger, MayBegin, SameGround, SamePath
<1>8. P = ((a + b) + 7 * w) + 11 * c /\ P2 = ((a + b) + 7 * w) + 11 * c2
  <2>1. u.mode3_startup_dots = d.mode3_startup_dots /\ Pops(u) = b
    BY <1>5, <1>6 DEF SameRegisters, SamePath
  <2>2. Windows(u, writes.count) = w
    BY <1>5, <1>6, Zenon DEF Windows, SameGround, SamePath
  <2> QED
    BY <2>1, <2>2, Zenon DEF Paid
<1>9. a \in Int /\ b \in Int /\ w \in Nat /\ n \in Nat
  BY <1>1, <1>4, SMTT(30) DEF Numbers, Counts, Windows
<1>10. /\ r \in 0 .. 6 /\ f \in 0 .. 11 /\ m \in {0, 5} /\ f2 \in 0 .. 11
  BY <1>4 DEF Numbers
<1>11. d.fetched \subseteq u.fetched /\ IsFiniteSet(u.fetched) /\ c \in Nat /\ c2 \in Nat
  BY <1>2, <1>3, LineIsState, FetchesAreFinite DEF Started, GoesOn, Ready, Wellformed
<1>12. f = 0
  BY DEF FetchDots
<1>13. n + ((r + f) + m) <= P
  BY Zenon DEF Ready
<1>14. o2 = (r2 + f2) + m2 \/ o2 = (r2 + f2) + 0
  BY Zenon DEF Owed
<1>15. n + o2 <= P2
  <2>1. CASE u.object_fetch_step = d.object_fetch_step
    <3>1. f2 = 0
      BY <2>1 DEF FetchDots
    <3>2. c2 >= c
      BY <1>11, NoLess
    <3> HIDE DEF r, f, m, r2, f2, m2, o2, c, c2, a, b, w, P, P2, n
    <3>3. n + o2 <= P2
      BY <1>7, <1>8, <1>9, <1>10, <1>11, <1>12, <1>13, <1>14, <3>1, <3>2
    <3> QED
      BY <3>3
  <2>2. CASE u.object_fetch_step # d.object_fetch_step
    <3>1. \E i \in u.fetched : i \notin d.fetched
      BY <1>2, <2>2 DEF Started
    <3>2. c2 >= c + 1
      BY <1>11, <3>1, OneMore
    <3> HIDE DEF r, f, m, r2, f2, m2, o2, c, c2, a, b, w, P, P2, n
    <3>3. n + o2 <= P2
      BY <1>7, <1>8, <1>9, <1>10, <1>11, <1>12, <1>13, <1>14, <3>2
    <3> QED
      BY <3>3
  <2> QED
    BY <2>1, <2>2
<1>16. Begun(u, t)
  BY <1>3, <1>15, Zenon DEF Begun
<1> QED
  BY <1>16 DEF u

\* The fetcher is in time after its dot.
LEMMA FetcherStaysInTime ==
  ASSUME NEW d \in Drawing, NEW u, Advanced(d, u),
         d.bg_fifo = <<>> => d.fetcher.step <= 5
            \/ d.fetcher.step = 6,
         d.bg_fifo # <<>> => d.fetcher.step + Len(d.bg_fifo) >= 5
  PROVE  FetcherIsInTime(u)
<1>1. Numbers(d) /\ Numbers(u)
  BY DrawingIsNumbers DEF Advanced
<1> DEFINE n == d.fetcher.step
           n2 == u.fetcher.step
           l == Len(d.bg_fifo)
           l2 == Len(u.bg_fifo)
<1>2. n \in 0 .. 6 /\ n2 \in 0 .. 6 /\ l \in Nat /\ l2 \in Nat
  BY <1>1 DEF Numbers
<1>3. CASE n < 5
  <2>1. u.bg_fifo = d.bg_fifo /\ n2 = n + 1
    BY <1>3 DEF Advanced
  <2>2. CASE d.bg_fifo = <<>>
    <3>1. n2 <= 5
      BY <1>2, <1>3, <2>1
    <3> QED
      BY <2>1, <2>2, <3>1 DEF FetcherIsInTime
  <2>3. CASE d.bg_fifo # <<>>
    <3>1. n + l >= 5 /\ l2 = l
      BY <2>1, <2>3
    <3>2. n2 + l2 >= 6
      <4> HIDE DEF n, n2, l, l2
      <4> QED BY <1>2, <2>1, <3>1
    <3> QED
      BY <2>1, <2>3, <3>2 DEF FetcherIsInTime
  <2> QED
    BY <2>2, <2>3
<1>4. CASE n >= 5 /\ d.bg_fifo # <<>>
  <2>1. u.bg_fifo = d.bg_fifo /\ n2 = 6
    BY <1>4 DEF Advanced
  <2>2. n2 + l2 >= 6
    <3> HIDE DEF n2, l2
    <3> QED BY <1>2, <2>1
  <2> QED
    BY <1>4, <2>1, <2>2 DEF FetcherIsInTime
<1>5. CASE n >= 5 /\ d.bg_fifo = <<>>
  <2>1. u.bg_fifo # <<>> /\ PixelsCome(d, u)
    BY <1>5 DEF Advanced
  <2>2. n2 + l2 >= 6
    <3>1. (l2 = 1 /\ n2 = 6) \/ (l2 = 8 /\ n2 = 0)
      BY <2>1 DEF PixelsCome
    <3> HIDE DEF n2, l2
    <3> QED
      BY <3>1
  <2> QED
    BY <2>1, <2>2 DEF FetcherIsInTime
<1> QED
  BY <1>2, <1>3, <1>4, <1>5

\* The window goes on as before, or is off.
LEMMA WindowIsSame ==
  ASSUME NEW d, NEW u, WindowEnabled(u) <=> WindowEnabled(d),
         WindowEnabled(d) => u.window_active = d.window_active
  PROVE  /\ MayBegin(u) <=> MayBegin(d)
         /\ Windows(u, writes.count) = Windows(d, writes.count)
BY Zenon DEF MayBegin, Windows

\* A dot of a fetch is owed no more.
LEMMA FetchDotIsOwed ==
  ASSUME NEW d \in Drawing, NEW u, FetchTicked(d, u), FetcherIsInTime(d),
         d.object_fetch_step # "None"
  PROVE  /\ (Refill(u) + FetchDots(u)) + 1 <= Refill(d) + FetchDots(d)
         /\ u.object_fetch_step = "Align" => d.object_fetch_step = "Align"
         /\ FetcherIsInTime(u)
<1> DEFINE n == d.fetcher.step
           n2 == u.fetcher.step
           s == d.object_fetch_step
           s2 == u.object_fetch_step
           r == Refill(d)
           f == FetchDots(d)
           r2 == Refill(u)
           f2 == FetchDots(u)
<1>1. Numbers(d) /\ Numbers(u)
  BY DrawingIsNumbers DEF FetchTicked
<1>2. n \in 0 .. 6 /\ n2 \in 0 .. 6 /\ s \in FetchSteps /\ s # "None"
  BY <1>1 DEF Numbers
<1>3. d.bg_fifo = <<>> => n <= 5
  BY DEF FetcherIsInTime
<1>4. d.bg_fifo # <<>> => n + Len(d.bg_fifo) >= 5
  <2> DEFINE l == Len(d.bg_fifo)
  <2>1. d.bg_fifo # <<>> => n + l >= 6
    BY DEF FetcherIsInTime
  <2>2. l \in Nat
    BY <1>1 DEF Numbers
  <2> HIDE DEF n, l
  <2>3. n + l >= 6 => n + l >= 5
    BY <1>2, <2>2
  <2> QED
    BY <2>1, <2>3 DEF n, l
<1>5. CASE Aligns(d)
  <2>1. Advanced(d, u)
    BY <1>5 DEF FetchTicked
  <2>2. FetcherIsInTime(u)
    BY <1>3, <1>4, <2>1, FetcherStaysInTime
  <2>3. s = "Align" /\ s2 = "Align"
    BY <1>5, <2>1 DEF Aligns, Advanced, SameObjects
  <2>4. CASE d.bg_fifo = <<>> /\ n < 5
    <3>1. u.bg_fifo = <<>> /\ n2 = n + 1
      BY <2>1, <2>4 DEF Advanced
    <3>2. r = 6 - n /\ f = 11 /\ r2 = 6 - n2 /\ f2 = 11
      BY <2>3, <2>4, <3>1 DEF Refill, FetchDots
    <3> HIDE DEF n, n2, r, r2, f, f2
    <3>3. (r2 + f2) + 1 <= r + f
      BY <1>2, <3>1, <3>2
    <3> QED
      BY <2>2, <2>3, <3>3 DEF r, r2, f, f2
  <2>5. CASE d.bg_fifo = <<>> /\ n = 5
    <3>1. u.bg_fifo # <<>> /\ PixelsCome(d, u)
      BY <2>1, <2>5 DEF Advanced
    <3>2. r = 1 /\ f = 11 /\ r2 = 0
      BY <2>3, <2>5, <3>1 DEF Refill, FetchDots
    <3>a. f2 \in 0 .. 11
      BY <1>1 DEF Numbers
    <3>b. f2 <= 11 /\ f2 \in Int
      <4> HIDE DEF f2
      <4> QED BY <3>a
    <3>3. f2 <= 11
      BY <3>b
    <3>4. f2 \in Int
      BY <3>b
    <3> HIDE DEF n, n2, r, r2, f, f2
    <3>5. (r2 + f2) + 1 <= r + f
      BY <3>2, <3>3, <3>4
    <3> QED
      BY <2>2, <2>3, <3>5 DEF r, r2, f, f2
  <2>6. CASE d.bg_fifo # <<>>
    <3>1. n < 5
      BY <1>5, <2>6 DEF Aligns
    <3>2. u.bg_fifo # <<>> /\ n2 = n + 1
      BY <2>1, <2>6, <3>1 DEF Advanced
    <3>3. r = 0 /\ r2 = 0 /\ f = 11 - n
      BY <2>3, <2>6, <3>1, <3>2 DEF Refill, FetchDots
    <3>4. f2 = IF n2 < 5 THEN 11 - n2 ELSE 6
      BY <2>3, <3>2 DEF FetchDots
    <3> HIDE DEF n, n2, r, r2, f, f2
    <3>5. (r2 + f2) + 1 <= r + f
      BY <1>2, <3>1, <3>2, <3>3, <3>4
    <3> QED
      BY <2>2, <2>3, <3>5 DEF r, r2, f, f2
  <2>7. (d.bg_fifo = <<>> /\ n < 5) \/ (d.bg_fifo = <<>> /\ n = 5) \/ d.bg_fifo # <<>>
    BY <1>2, <1>3
  <2> QED
    BY <2>4, <2>5, <2>6, <2>7
<1>6. CASE s = "Align" /\ ~Aligns(d)
  <2>1. u.bg_fifo = d.bg_fifo /\ n2 = 6 /\ s2 = "OamSecond"
    BY <1>6 DEF FetchTicked
  <2>2. d.bg_fifo # <<>> /\ n >= 5
    BY <1>2, <1>6 DEF Aligns
  <2>3. r = 0 /\ r2 = 0 /\ f = 6 /\ f2 = 5
    BY <1>2, <1>6, <2>1, <2>2 DEF Refill, FetchDots
  <2>4. FetcherIsInTime(u)
    <3> DEFINE l == Len(u.bg_fifo)
    <3>1. l \in Nat
      BY <1>1 DEF Numbers
    <3> HIDE DEF l
    <3>2. n2 + l >= 6
      BY <2>1, <3>1
    <3> QED
      BY <2>1, <2>2, <3>2 DEF FetcherIsInTime, l
  <2>5. (r2 + f2) + 1 <= r + f
    <3> HIDE DEF r, r2, f, f2
    <3> QED BY <2>3
  <2> QED
    BY <2>1, <2>4, <2>5
<1>7. CASE s # "Align"
  <2>1. u.bg_fifo = d.bg_fifo /\ u.fetcher = d.fetcher
    BY <1>7 DEF FetchTicked, SameGround
  <2>2. FetcherIsInTime(u) /\ r2 = r
    BY <2>1, Zenon DEF FetcherIsInTime, Refill
  <2>3. s2 # "Align" /\ f2 + 1 = f
    <3>1. CASE s = "DataHighSecond"
      <4>1. s2 = "None"
        BY <3>1 DEF FetchTicked
      <4> QED
        BY <3>1, <4>1 DEF FetchDots
    <3>2. CASE s \notin {"Align", "DataHighSecond"}
      <4>1. s2 = NextFetchStep(s)
        BY <3>2 DEF FetchTicked
      <4> QED
        BY <1>2, <3>2, <4>1 DEF FetchDots, NextFetchStep, FetchSteps
    <3> QED
      BY <1>7, <3>1, <3>2
  <2>4. r \in Int /\ f2 \in Int /\ f \in Int
    <3>1. r \in 0 .. 6 /\ f2 \in 0 .. 11 /\ f \in 0 .. 11
      BY <1>1 DEF Numbers
    <3> HIDE DEF r, f2, f
    <3> QED
      BY <3>1
  <2>5. (r2 + f2) + 1 <= r + f
    <3>1. f2 + 1 = f /\ r2 = r
      BY <2>2, <2>3
    <3> HIDE DEF r, r2, f, f2
    <3> QED BY <2>4, <3>1
  <2> QED
    BY <2>2, <2>3, <2>5
<1>8. Aligns(d) => s = "Align"
  BY DEF Aligns
<1> QED
  BY <1>5, <1>6, <1>7, <1>8

\* An object of the line has a place in OAM.
LEMMA ObjectIsInOam ==
  ASSUME NEW d, NEW t, Wellformed(d, t), d.object_fetch_step # "None"
  PROVE  ObjectIsMet(d)
<1>1. d.object_fetch_index \in d.line_objects /\ d.line_objects = ScannedObjects(line)
      /\ line.oam[d.object_fetch_index].x = ObjectMatch(d)
  BY DEF Wellformed
<1>2. d.object_fetch_index \in 1 .. Len(line.oam)
  BY <1>1, ObjectsAreInOam
<1>3. d.pixel_position < -8 \/ d.pixel_position >= -7
  <2>1. d.pixel_position \in Int /\ InPlace(d, t)
    BY DrawingIsNumbers DEF Wellformed, Numbers
  <2> QED
    BY <2>1 DEF InPlace
<1> QED
  BY <1>1, <1>2, <1>3 DEF ObjectIsMet

\* A dot of the fetch of an object is done.
LEMMA FetchDotIsDone ==
  ASSUME NEW d, NEW t, Counts, line \in ScanLines, Begun(d, t), d.object_fetch_step # "None"
  PROVE  Done(TickObjectFetch(d), t)
<1> DEFINE u == TickObjectFetch(d)
           n == dots
           q == Refill(d) + FetchDots(d)
           q2 == Refill(u) + FetchDots(u)
           m == Misaligned(d)
           m2 == Misaligned(u)
           o == Owed(d)
           o2 == Owed(u)
           P == Paid(d, writes.count)
           P2 == Paid(u, writes.count)
<1>1. Wellformed(d, t) /\ FifoInPlace(d) /\ t \in Nat /\ d \in Drawing /\ line \in LineState
  BY LineIsState DEF Begun, GoesOn, Wellformed
<1>2. ObjectIsMet(d)
  BY <1>1, ObjectIsInOam
<1>3. FetchTicked(d, u)
  BY <1>1, <1>2, FetchTicks
<1> HIDE DEF u
<1>4. Numbers(d) /\ Numbers(u)
  BY <1>1, <1>3, DrawingIsNumbers DEF FetchTicked
<1>5. FetcherIsInTime(d)
  BY <1>1 DEF Wellformed
<1>6. q2 + 1 <= q /\ FetcherIsInTime(u)
      /\ (u.object_fetch_step = "Align" => d.object_fetch_step = "Align")
  BY <1>1, <1>3, <1>5, FetchDotIsOwed
<1>7. SameRegisters(d, u) /\ SameColumn(d, u) /\ SameWindow(d, u) /\ u.fetched = d.fetched
  BY <1>3 DEF FetchTicked
<1>8. SamePath(d, u)
  BY <1>7, PathIsSame
<1>9. (MayBegin(u) <=> MayBegin(d)) /\ Windows(u, writes.count) = Windows(d, writes.count)
  <2>1. WindowEnabled(u) <=> WindowEnabled(d)
    BY <1>8 DEF SamePath
  <2>2. WindowEnabled(d) => u.window_active = d.window_active
    BY <1>3 DEF FetchTicked
  <2> QED
    BY <2>1, <2>2, WindowIsSame
<1>10. (MayTrigger(u) <=> MayTrigger(d)) /\ m2 = m
  BY <1>8, <1>9, Zenon DEF SamePath, MayTrigger, Misaligned
<1>11. P2 = P
  BY <1>7, <1>8, <1>9, Zenon DEF Paid, SameRegisters, SamePath
<1>12. u.wx_just_changed = FALSE /\ d.wx_just_changed = FALSE
  BY <1>7, Zenon DEF SameWindow, Begun, GoesOn
<1>13. q \in Nat /\ q2 \in Nat /\ m \in {0, 5} /\ n \in Nat
  <2>1. m \in {0, 5} /\ n \in Nat
    BY <1>4 DEF Numbers, Counts
  <2>2. q \in Nat
    <3> DEFINE r == Refill(d)
               f == FetchDots(d)
    <3>1. r \in 0 .. 6 /\ f \in 0 .. 11
      BY <1>4 DEF Numbers
    <3> HIDE DEF r, f
    <3>2. r + f \in Nat
      BY <3>1
    <3> QED
      BY <3>2 DEF r, f
  <2>3. q2 \in Nat
    <3> DEFINE r2 == Refill(u)
               f2 == FetchDots(u)
    <3>1. r2 \in 0 .. 6 /\ f2 \in 0 .. 11
      BY <1>4 DEF Numbers
    <3> HIDE DEF r2, f2
    <3>2. r2 + f2 \in Nat
      BY <3>1
    <3> QED
      BY <3>2 DEF r2, f2
  <2> QED
    BY <2>1, <2>2, <2>3
<1>14. o2 + 1 <= o /\ o \in Int /\ o2 \in Int
  <2>1. o2 = q2 + m \/ (o2 = q2 + 0)
    BY <1>10, Zenon DEF Owed
  <2>2. o = q + m \/ (o = q + 0)
    BY Zenon DEF Owed
  <2>3. CASE u.object_fetch_step = "Align"
    <3>1. o = q + m
      BY <1>6, <2>3, Zenon DEF Owed
    <3> HIDE DEF o, o2, q, q2, m
    <3> QED
      BY <1>6, <1>13, <2>1, <3>1
  <2>4. CASE u.object_fetch_step # "Align"
    <3>1. o2 = q2 + 0
      BY <1>12, <2>4, Zenon DEF Owed
    <3> HIDE DEF o, o2, q, q2, m
    <3> QED
      BY <1>6, <1>13, <2>2, <3>1
  <2> QED
    BY <2>3, <2>4
<1>15. P \in Int
  <2> DEFINE a == 4 - d.mode3_startup_dots
             b == Pops(d)
             w == Windows(d, writes.count)
             c == Cardinality(d.fetched)
  <2>1. a \in Int /\ b \in Int
    BY <1>4 DEF Numbers
  <2>2. w \in Nat
    BY DEF Counts, Windows
  <2>3. c \in Nat
    BY <1>1, FetchesAreFinite DEF Wellformed
  <2>4. P = ((a + b) + 7 * w) + 11 * c
    BY Zenon DEF Paid
  <2> HIDE DEF a, b, w, c, P
  <2> QED
    BY <2>1, <2>2, <2>3, <2>4
<1>16. (n + t) + o <= P
  BY Zenon DEF Begun
<1>17. ((n + 1) + t) + o2 <= P2
  <2> HIDE DEF n, o, o2, P, P2
  <2> QED
    BY <1>1, <1>11, <1>13, <1>14, <1>15, <1>16
<1>18. (4 - u.mode3_startup_dots) + Pops(u) <= n + 1
  <2>1. u.mode3_startup_dots = 0 /\ Pops(u) = Pops(d) /\ Pops(d) + 4 <= n
    BY <1>7, <1>8, Zenon DEF SameRegisters, SamePath, Begun, GoesOn
  <2> DEFINE b == Pops(d)
  <2>2. b \in Int /\ n \in Nat /\ b + 4 <= n
    BY <1>4, <1>13, <2>1 DEF Numbers
  <2> HIDE DEF b, n
  <2>3. (4 - 0) + b <= n + 1
    BY <2>2
  <2> QED
    BY <2>1, <2>3 DEF b
<1>19. TakenIsWritten(u, writes.count, t)
  <2>1. t <= writes.count /\ (t = writes.count => ~MayTrigger(d))
    BY DEF Begun, GoesOn
  <2> QED
    BY <1>10, <1>12, <2>1, Zenon DEF TakenIsWritten, MayTrigger
<1>20. Wellformed(u, t)
  <2>1. u \in Drawing
    BY <1>3 DEF FetchTicked
  <2>2. InPlace(u, t)
    BY <1>1, <1>7, Zenon DEF Wellformed, InPlace, SameColumn, SameRegisters
  <2>3. /\ u.scx_low = line.scx % 8 /\ u.line_objects = ScannedObjects(line)
        /\ u.line_objects = d.line_objects /\ u.fetched \subseteq u.line_objects
    BY <1>1, <1>7, Zenon DEF Wellformed, SameRegisters
  <2>4. u.object_fetch_step # "None" =>
          /\ u.object_fetch_index \in u.line_objects
          /\ line.oam[u.object_fetch_index].x = ObjectMatch(u)
    BY <1>1, <1>3, <1>8, <2>3, Zenon DEF FetchTicked, Wellformed, SamePath
  <2>5. /\ u.mode3_startup_dots > 0 => u.pixel_position = -16
        /\ u.screen_x \in 0 .. Width /\ u.finished = (u.screen_x = Width)
    BY <1>1, <1>7, Zenon DEF Wellformed, SameColumn, SameRegisters
  <2> QED
    BY <1>6, <2>1, <2>2, <2>3, <2>4, <2>5, Zenon DEF Wellformed
<1>21. FifoInPlace(u)
  BY <1>3 DEF FetchTicked
<1>22. Done(u, t)
  BY <1>1, <1>17, <1>18, <1>19, <1>20, <1>21, Zenon DEF Done, InBudget
<1> QED
  BY <1>22 DEF u

\* The line moves by a pixel.
PixelMoved(d, u) ==
  /\ u \in Drawing /\ SameRegisters(d, u) /\ SameFetch(d, u) /\ SameWindow(d, u)
  /\ u.obj_fifo = (IF d.obj_fifo = <<>> THEN d.obj_fifo ELSE Tail(d.obj_fifo))
  /\ u.pixel_position = Position(d) + 1
  /\ u.screen_x = (IF Position(d) < 0 THEN d.screen_x ELSE d.screen_x + 1)
  /\ u.finished = (u.screen_x = Width)
  /\ WindowEnabled(d) => u.window_active = d.window_active
  /\ FetcherIsInTime(u) /\ u.bg_fifo # <<>>

\* Or it waits for the fetcher.
PixelWaits(d, u) ==
  /\ u \in Drawing /\ SameRegisters(d, u) /\ SameColumn(d, u) /\ SameObjects(d, u)
  /\ SameWindow(d, u)
  /\ WindowEnabled(d) => u.window_active = d.window_active
  /\ FetcherIsInTime(u) /\ Refill(u) + 1 = Refill(d)

\* A dot that finds a pixel moves the line by one.
LEMMA PixelMoves ==
  ASSUME NEW d \in Drawing, FetcherIsInTime(d), d.bg_fifo # <<>>, d.finished = FALSE,
         d.screen_x < Width
  PROVE  PixelMoved(d, DrawPixel(d))
<1> DEFINE v == MixAndPushPixel(d)
           w == AdvancePixelFetcher(v)
           u == FinishDrawing(w)
<1>1. Popped(d, v)
  BY PixelIsPopped DEF Mixes
<1> HIDE DEF v
<1>2. v \in Drawing
  BY <1>1 DEF Popped
<1>3. Advanced(v, w)
  BY <1>2, FetcherAdvances
<1> HIDE DEF w
<1>4. w \in Drawing
  BY <1>3 DEF Advanced
<1>5. Finished(w, u)
  BY <1>4, LineFinishes
<1>6. DrawPixel(d) = u
  BY DEF DrawPixel, v, w
<1> HIDE DEF u
<1>7. u \in Drawing /\ SameRegisters(d, u) /\ SameFetch(d, u) /\ SameWindow(d, u)
  BY <1>1, <1>3, <1>5 DEF Popped, Advanced, Finished, SameRegisters, SameFetch, SameWindow,
                          SameObjects
<1>8. /\ u.obj_fifo = v.obj_fifo /\ u.pixel_position = v.pixel_position /\ u.screen_x = v.screen_x
  BY <1>3, <1>5 DEF Advanced, Finished, SameObjects, SameColumn
<1>9. u.finished = (u.screen_x = Width)
  <2>1. w.finished = FALSE
    BY <1>1, <1>3 DEF Popped, Advanced, SameColumn
  <2>2. u.finished = (w.screen_x = Width) /\ u.screen_x = w.screen_x
    BY <1>5, <2>1, Zenon DEF Finished
  <2> QED
    BY <2>2, Zenon
<1>10. WindowEnabled(d) => u.window_active = d.window_active
  <2>1. WindowEnabled(v) <=> WindowEnabled(d)
    BY <1>1, Zenon DEF Popped, SameRegisters, WindowEnabled
  <2>2. WindowEnabled(v) => w.window_active = v.window_active
    BY <1>3 DEF Advanced
  <2>3. u.window_active = w.window_active /\ v.window_active = d.window_active
    BY <1>1, <1>5 DEF Popped, Finished, SameGround
  <2> QED
    BY <2>1, <2>2, <2>3, Zenon
<1>11. Numbers(d) /\ Numbers(v)
  BY <1>2, DrawingIsNumbers
<1> DEFINE n == v.fetcher.step
           l == Len(d.bg_fifo)
           l2 == Len(v.bg_fifo)
<1>12. n \in 0 .. 6 /\ l \in Nat /\ l2 \in Nat
  BY <1>11 DEF Numbers
<1>13. l2 = l - 1
  <2>1. d.bg_fifo \in Seq(BgPixel) /\ v.bg_fifo = Tail(d.bg_fifo)
    BY <1>1, <1>11 DEF Numbers, Popped
  <2> QED
    BY <2>1
<1>14. n + l >= 6
  <2>1. v.fetcher = d.fetcher
    BY <1>1 DEF Popped
  <2> QED
    BY <2>1 DEF FetcherIsInTime
<1>15. n + l2 >= 5
  <2> HIDE DEF n, l, l2
  <2> QED BY <1>12, <1>13, <1>14
<1>16. v.bg_fifo = <<>> => n >= 5
  <2>1. v.bg_fifo = <<>> => l2 = 0
    OBVIOUS
  <2> HIDE DEF n, l2
  <2> QED
    BY <1>12, <1>15, <2>1
<1>17. FetcherIsInTime(w)
  <2>1. v.bg_fifo = <<>> => v.fetcher.step <= 5 \/ v.fetcher.step = 6
    <3> HIDE DEF n
    <3>1. n <= 5 \/ n = 6
      BY <1>12
    <3> QED
      BY <3>1 DEF n
  <2>2. v.bg_fifo # <<>> => v.fetcher.step + Len(v.bg_fifo) >= 5
    BY <1>15
  <2> QED
    BY <1>2, <1>3, <2>1, <2>2, FetcherStaysInTime
<1>18. w.bg_fifo # <<>>
  <2>1. CASE v.bg_fifo = <<>>
    BY <1>3, <1>16, <2>1 DEF Advanced
  <2>2. CASE v.bg_fifo # <<>>
    <3>1. n < 5 \/ n >= 5
      BY <1>12
    <3> QED
      BY <1>3, <2>2, <3>1 DEF Advanced
  <2> QED
    BY <2>1, <2>2
<1>19. u.bg_fifo = w.bg_fifo /\ u.fetcher = w.fetcher
  BY <1>5 DEF Finished, SameGround
<1>20. FetcherIsInTime(u) /\ u.bg_fifo # <<>>
  BY <1>17, <1>18, <1>19, Zenon DEF FetcherIsInTime
<1>21. /\ u.obj_fifo = (IF d.obj_fifo = <<>> THEN d.obj_fifo ELSE Tail(d.obj_fifo))
       /\ u.pixel_position = Position(d) + 1
       /\ u.screen_x = (IF Position(d) < 0 THEN d.screen_x ELSE d.screen_x + 1)
  BY <1>1, <1>8, Zenon DEF Popped
<1>22. PixelMoved(d, u)
  BY <1>7, <1>9, <1>10, <1>20, <1>21, Zenon DEF PixelMoved
<1> QED
  BY <1>6, <1>22

\* A dot without a pixel waits for the fetcher.
LEMMA PixelStaysAway ==
  ASSUME NEW d \in Drawing, FetcherIsInTime(d), d.bg_fifo = <<>>, d.screen_x # Width
  PROVE  PixelWaits(d, DrawPixel(d))
<1> DEFINE u == AdvancePixelFetcher(d)
           n == d.fetcher.step
           n2 == u.fetcher.step
<1>1. MixAndPushPixel(d) = d
  BY DEF MixAndPushPixel, Mixes
<1>2. Advanced(d, u)
  BY FetcherAdvances
<1> HIDE DEF u
<1>3. u.screen_x # Width
  BY <1>2 DEF Advanced, SameColumn
<1>4. DrawPixel(d) = u
  <2>1. FinishDrawing(u) = u
    BY <1>3 DEF FinishDrawing
  <2> QED
    BY <1>1, <2>1 DEF DrawPixel, u
<1>5. n \in 0 .. 6 /\ n <= 5
  BY DrawingIsNumbers DEF Numbers, FetcherIsInTime
<1>6. FetcherIsInTime(u)
  <2>1. d.bg_fifo = <<>> => d.fetcher.step <= 5 \/ d.fetcher.step = 6
    BY <1>5
  <2>2. d.bg_fifo # <<>> => d.fetcher.step + Len(d.bg_fifo) >= 5
    OBVIOUS
  <2> QED
    BY <1>2, <2>1, <2>2, FetcherStaysInTime
<1>7. Refill(u) + 1 = Refill(d)
  <2>1. CASE n < 5
    <3>1. u.bg_fifo = <<>> /\ n2 = n + 1
      BY <1>2, <2>1 DEF Advanced
    <3>2. Refill(u) = 6 - n2 /\ Refill(d) = 6 - n
      BY <3>1 DEF Refill
    <3> HIDE DEF n, n2
    <3>3. (6 - n2) + 1 = 6 - n
      BY <1>5, <3>1
    <3> QED
      BY <3>2, <3>3, Zenon
  <2>2. CASE n = 5
    <3>1. u.bg_fifo # <<>>
      BY <1>2, <2>2 DEF Advanced
    <3>2. Refill(u) = 0 /\ Refill(d) = 1
      BY <2>2, <3>1 DEF Refill
    <3> QED
      BY <3>2
  <2>3. n < 5 \/ n = 5
    BY <1>5
  <2> QED
    BY <2>1, <2>2, <2>3
<1>8. PixelWaits(d, u)
  BY <1>2, <1>6, <1>7, Zenon DEF Advanced, PixelWaits
<1> QED
  BY <1>4, <1>8

\* What a line that goes on may owe at most is a number.
LEMMA PaidIsNumber ==
  ASSUME NEW d, NEW t, Counts, line \in ScanLines, Wellformed(d, t)
  PROVE  Paid(d, writes.count) \in Int
<1> DEFINE a == 4 - d.mode3_startup_dots
           b == Pops(d)
           w == Windows(d, writes.count)
           c == Cardinality(d.fetched)
           P == Paid(d, writes.count)
<1>1. a \in Int /\ b \in Int
  BY DrawingIsNumbers DEF Numbers, Wellformed
<1>2. w \in Nat
  BY DEF Counts, Windows
<1>3. c \in Nat
  BY LineIsState, FetchesAreFinite DEF Wellformed
<1>4. P = ((a + b) + 7 * w) + 11 * c
  BY Zenon DEF Paid
<1> HIDE DEF a, b, w, c, P
<1>5. P \in Int
  BY <1>1, <1>2, <1>3, <1>4
<1> QED
  BY <1>5 DEF P

\* A fetch that is given up leaves the line as it was.
LEMMA FetchIsGivenUp ==
  ASSUME NEW d, NEW t, Counts, line \in ScanLines, Begun(d, t)
  PROVE  /\ GoesOn(EndObjectFetch(d), t)
         /\ EndObjectFetch(d).object_fetch_step = "None"
         /\ (dots + t) + Refill(EndObjectFetch(d)) <= Paid(EndObjectFetch(d), writes.count)
<1> DEFINE u == EndObjectFetch(d)
           r == Refill(d)
           f == FetchDots(d)
           m == Misaligned(d)
           o == Owed(d)
           n == dots + t
           P == Paid(d, writes.count)
<1>1. Wellformed(d, t) /\ d \in Drawing /\ GoesOn(d, t)
  BY DEF Begun, GoesOn, Wellformed
<1>2. FetchEnded(d, u)
  BY <1>1, FetchEnds
<1> HIDE DEF u
<1>3. /\ u \in Drawing /\ SameRegisters(d, u) /\ SameColumn(d, u) /\ SameGround(d, u)
      /\ SameWindow(d, u) /\ u.obj_fifo = d.obj_fifo /\ u.object_fetch_step = "None"
  BY <1>2 DEF FetchEnded
<1>4. SamePath(d, u)
  BY <1>3, PathIsSame
<1>5. Wellformed(u, t)
  <2>1. FetcherIsInTime(u)
    BY <1>1, <1>3, Zenon DEF Wellformed, FetcherIsInTime, SameGround
  <2>2. InPlace(u, t)
    BY <1>1, <1>3, Zenon DEF Wellformed, InPlace, SameColumn, SameRegisters
  <2>3. /\ u.scx_low = line.scx % 8 /\ u.line_objects = ScannedObjects(line)
        /\ u.fetched \subseteq u.line_objects
    BY <1>1, <1>2, <1>3, Zenon DEF Wellformed, SameRegisters, FetchEnded
  <2>4. /\ u.mode3_startup_dots > 0 => u.pixel_position = -16
        /\ u.screen_x \in 0 .. Width /\ u.finished = (u.screen_x = Width)
    BY <1>1, <1>3, Zenon DEF Wellformed, SameColumn, SameRegisters
  <2> QED
    BY <1>3, <2>1, <2>2, <2>3, <2>4, Zenon DEF Wellformed
<1>6. FifoInPlace(u)
  <2>1. FifoInPlace(d) /\ u.pixel_position = d.pixel_position
    BY <1>1, <1>3 DEF GoesOn, SameColumn
  <2> QED
    BY <1>3, <2>1, FifoStaysInPlace
<1>7. t = writes.count => ~MayTrigger(u)
  BY <1>1, <1>3, <1>4, Zenon DEF GoesOn, SamePath, MayTrigger, MayBegin, SameGround
<1>8. /\ u.finished = FALSE /\ u.mode3_startup_dots = 0 /\ u.wx_just_changed = FALSE
      /\ t \in Nat /\ t <= writes.count /\ Pops(u) + 4 <= dots
  BY <1>1, <1>3, <1>4, Zenon DEF GoesOn, SameColumn, SameRegisters, SameWindow, SamePath
<1>9. GoesOn(u, t)
  BY <1>5, <1>6, <1>7, <1>8, Zenon DEF GoesOn
<1>10. Refill(u) = r /\ Paid(u, writes.count) = P
  <2>1. Refill(u) = r
    BY <1>3, Zenon DEF Refill, SameGround
  <2>2. Windows(u, writes.count) = Windows(d, writes.count)
    BY <1>3, <1>4, Zenon DEF Windows, SameGround, SamePath
  <2>3. u.fetched = d.fetched /\ u.mode3_startup_dots = d.mode3_startup_dots /\ Pops(u) = Pops(d)
    BY <1>2, <1>4 DEF FetchEnded, SamePath, SameRegisters
  <2> QED
    BY <2>1, <2>2, <2>3, Zenon DEF Paid
<1>11. n + r <= P
  <2>1. P \in Int
    BY <1>1, PaidIsNumber
  <2>2. r \in 0 .. 6 /\ f \in 0 .. 11 /\ m \in {0, 5} /\ n \in Nat
    BY <1>1, <1>8, DrawingIsNumbers DEF Numbers, Counts
  <2>3. n + o <= P
    BY Zenon DEF Begun
  <2>4. o = (r + f) + m \/ o = (r + f) + 0
    BY Zenon DEF Owed
  <2> HIDE DEF n, r, f, m, o, P
  <2> QED
    BY <2>1, <2>2, <2>3, <2>4
<1> QED
  BY <1>3, <1>9, <1>10, <1>11 DEF u

\* Where the line is after a pixel.
PixelInOrder(d, u, t) ==
  /\ InPlace(u, t) /\ Pops(u) = Pops(d) + 1 /\ u.screen_x \in 0 .. Width
  /\ u.screen_x > 0 => u.pixel_position = d.pixel_position + 1 /\ d.pixel_position >= 0
  /\ Position(d) >= 0 =>
       /\ d.pixel_position >= 0 /\ d.screen_x = d.pixel_position - t
       /\ u.screen_x = d.screen_x + 1
  /\ Position(d) < 0 => u.screen_x = d.screen_x /\ d.screen_x = 0
  /\ d.pixel_position >= -7 => u.pixel_position = d.pixel_position + 1
  /\ d.pixel_position < -8 => u.pixel_position >= -16

\* A pixel leaves the members well formed.
LEMMA PixelStaysInPlace ==
  ASSUME NEW d, NEW t \in Nat, NEW u, Wellformed(d, t), PixelMoved(d, u), Width \in Nat,
         d.screen_x < Width
  PROVE  PixelInOrder(d, u, t)
<1> DEFINE p == d.pixel_position
           l == d.scx_low
           x == d.screen_x
           p2 == u.pixel_position
           x2 == u.screen_x
           q == Position(d)
<1>1. p \in Int /\ l \in 0 .. 7 /\ x \in 0 .. Width /\ x < Width
  BY DrawingIsNumbers DEF Numbers, Wellformed
<1>2. u.scx_low = l /\ p2 = q + 1 /\ x2 = (IF q < 0 THEN x ELSE x + 1)
  BY DEF PixelMoved, SameRegisters
<1>3. InPlace(d, t)
  BY DEF Wellformed
<1>4. CASE p < -8
  <2>1. p \in -16 .. -9 /\ p + 16 <= l /\ x = 0 /\ t = 0
    <3> HIDE DEF p, x, l
    <3>1. \/ p \in -16 .. -9 /\ p + 16 <= l /\ x = 0 /\ t = 0
          \/ p \in -7 .. -1 /\ x = 0 /\ t = 0
          \/ p >= 0 /\ x + t = p
      BY <1>3, Zenon DEF InPlace, p, x, l
    <3> QED
      BY <1>1, <1>4, <3>1
  <2>2. p % 8 = p + 16
    <3> HIDE DEF p
    <3>1. p \in {-16, -15, -14, -13, -12, -11, -10, -9}
      BY <2>1
    <3> QED
      BY <3>1
  <2>3. MaySkip(d) <=> p + 16 = l
    BY <1>4, <2>2, Zenon DEF MaySkip
  <2>4. Pops(d) = p + 16
    BY <1>4 DEF Pops
  <2>5. CASE p + 16 = l
    <3>1. q = -8
      BY <2>3, <2>5 DEF Position
    <3>2. p2 = -7 /\ x2 = 0
      <4> HIDE DEF q, p2, x2, x, p
      <4> QED BY <1>2, <2>1, <3>1
    <3>3. Pops(u) = (l + p2) + 8
      BY <1>2, <3>2 DEF Pops
    <3>4. (l + p2) + 8 = (p + 16) + 1
      <4> HIDE DEF l, p2, p
      <4> QED BY <1>1, <2>5, <3>2
    <3>5. InPlace(u, t)
      <4>1. p2 \in -7 .. -1
        <5> HIDE DEF p2
        <5> QED BY <3>2
      <4> QED
        BY <2>1, <3>2, <4>1, Zenon DEF InPlace
    <3>6. Pops(u) = Pops(d) + 1
      BY <2>4, <3>3, <3>4, Zenon
    <3> QED
      <4>1. 0 \in 0 .. Width /\ ~(0 > 0) /\ -8 < 0 /\ ~(-8 >= 0) /\ -7 >= -16
        OBVIOUS
      <4>2. ~(p >= -7)
        <5> HIDE DEF p
        <5> QED BY <1>1, <1>4
      <4> QED
        BY <2>1, <3>1, <3>2, <3>5, <3>6, <4>1, <4>2, Zenon DEF PixelInOrder
  <2>6. CASE p + 16 # l
    <3>1. q = p
      BY <2>3, <2>6 DEF Position
    <3>2. p2 = p + 1 /\ x2 = 0 /\ p2 \in -16 .. -9 /\ p2 + 16 <= l /\ p2 < -8 /\ q < 0
          /\ p2 + 16 = (p + 16) + 1 /\ ~(p >= -7) /\ p2 >= -16 /\ ~(q >= 0)
      <4> HIDE DEF q, p2, x2, x, p, l
      <4> QED BY <1>1, <1>2, <1>4, <2>1, <2>6, <3>1
    <3>3. Pops(u) = p2 + 16
      BY <3>2, Zenon DEF Pops
    <3>4. InPlace(u, t)
      BY <1>2, <2>1, <3>2, Zenon DEF InPlace
    <3>5. Pops(u) = Pops(d) + 1
      BY <2>4, <3>2, <3>3, Zenon
    <3>6. 0 \in 0 .. Width /\ ~(0 > 0)
      OBVIOUS
    <3> QED
      BY <2>1, <3>2, <3>4, <3>5, <3>6, Zenon DEF PixelInOrder
  <2> QED
    BY <2>5, <2>6
<1>5. CASE ~(p < -8)
  <2>1. (p \in -7 .. -1 /\ x = 0 /\ t = 0) \/ (p >= 0 /\ x + t = p)
    <3> HIDE DEF p, x, l
    <3>1. \/ p \in -16 .. -9 /\ p + 16 <= l /\ x = 0 /\ t = 0
          \/ p \in -7 .. -1 /\ x = 0 /\ t = 0
          \/ p >= 0 /\ x + t = p
      BY <1>3, Zenon DEF InPlace, p, x, l
    <3> QED
      BY <1>1, <1>5, <3>1
  <2>2. q = p
    <3>1. ~MaySkip(d)
      BY <1>5 DEF MaySkip
    <3> QED
      BY <3>1 DEF Position
  <2>3. p2 = p + 1 /\ ~(p2 < -8) /\ (l + p2) + 8 = ((l + p) + 8) + 1
    <3> HIDE DEF p, q, p2, l
    <3> QED BY <1>1, <1>2, <2>1, <2>2
  <2>4. Pops(u) = Pops(d) + 1
    <3>1. Pops(d) = (l + p) + 8 /\ Pops(u) = (l + p2) + 8
      BY <1>2, <1>5, <2>3, Zenon DEF Pops
    <3> QED
      BY <2>3, <3>1, Zenon
  <2>5. /\ (p2 \in -7 .. -1 /\ x2 = 0 /\ t = 0) \/ (p2 >= 0 /\ x2 + t = p2)
        /\ x2 \in 0 .. Width /\ (x2 > 0 => p >= 0)
        /\ (q >= 0 => p >= 0 /\ x = p - t /\ x2 = x + 1)
        /\ (q < 0 => x2 = x /\ x = 0)
    <3> HIDE DEF p, q, p2, l, x, x2
    <3>1. CASE q < 0
      <4>1. x2 = x /\ x = 0 /\ t = 0 /\ p \in -7 .. -1
        BY <1>1, <1>2, <2>1, <2>2, <3>1
      <4> QED
        BY <1>1, <2>2, <2>3, <3>1, <4>1
    <3>2. CASE ~(q < 0)
      <4>1. x2 = x + 1 /\ p >= 0 /\ x + t = p
        BY <1>1, <1>2, <2>1, <2>2, <3>2
      <4> QED
        BY <1>1, <2>2, <2>3, <3>2, <4>1
    <3> QED
      BY <3>1, <3>2
  <2>6. InPlace(u, t)
    BY <2>5, Zenon DEF InPlace
  <2> QED
    BY <1>5, <2>3, <2>4, <2>5, <2>6, Zenon DEF PixelInOrder
<1> QED
  BY <1>4, <1>5

\* The object FIFO moves with the line.
LEMMA FifoMovesInPlace ==
  ASSUME NEW d, NEW t \in Nat, NEW u, Wellformed(d, t), PixelMoved(d, u), FifoInPlace(d),
         PixelInOrder(d, u, t)
  PROVE  FifoInPlace(u)
<1> DEFINE s == d.obj_fifo
           s2 == u.obj_fifo
           p == d.pixel_position
           p2 == u.pixel_position
<1>0. d \in Drawing
  BY DEF Wellformed
<1>1. s \in Seq(ObjectPixel)
  BY <1>0 DEF Drawing
<1>2. s2 = (IF s = <<>> THEN s ELSE Tail(s))
  BY DEF PixelMoved
<1>3. p \in Int /\ (p >= -7 => p2 = p + 1)
  BY <1>0, DrawingIsNumbers DEF Numbers, PixelInOrder
<1> SUFFICES ASSUME NEW i \in 1 .. Len(s2) PROVE PixelInPlace(p2, i, s2[i])
  BY DEF FifoInPlace
<1> HIDE DEF s, s2, p, p2
<1>4. s # <<>> /\ i \in Nat /\ i + 1 \in 1 .. Len(s) /\ s2[i] = s[i + 1]
  <2>1. CASE s = <<>>
    <3>1. Len(s2) = 0
      BY <1>2, <2>1
    <3> QED
      BY <3>1
  <2>2. CASE s # <<>>
    <3>1. s2 = Tail(s)
      BY <1>2, <2>2
    <3>2. Len(s2) = Len(s) - 1
      BY <1>1, <2>2, <3>1
    <3>3. i \in Nat /\ i + 1 \in 1 .. Len(s)
      BY <1>1, <3>2
    <3>4. s2[i] = s[i + 1]
      BY <1>1, <2>2, <3>1, <3>2
    <3> QED
      BY <2>2, <3>3, <3>4
  <2> QED
    BY <2>1, <2>2
<1> DEFINE e == s[i + 1]
           x == line.oam[e.oam].x
<1>5. PixelInPlace(p, i + 1, e)
  BY <1>4 DEF FifoInPlace, s, p
<1>6. CASE e = Clear
  BY <1>4, <1>6 DEF PixelInPlace
<1>7. CASE e.oam \in 1 .. Len(line.oam) /\ e.oam \in AtZero
  BY <1>4, <1>7 DEF PixelInPlace
<1>8. CASE /\ e.oam \in 1 .. Len(line.oam) /\ p >= -7
           /\ e.pixel = ((p + (i + 1)) - 1) - (x - 8)
  <2>1. p2 >= -7 /\ (p + (i + 1)) - 1 = (p2 + i) - 1
    BY <1>3, <1>4, <1>8
  <2>2. e.pixel = ((p2 + i) - 1) - (x - 8)
    BY <1>8, <2>1, Zenon
  <2> QED
    BY <1>4, <1>8, <2>1, <2>2, Zenon DEF PixelInPlace
<1>9. \/ e = Clear
      \/ e.oam \in 1 .. Len(line.oam) /\ e.oam \in AtZero
      \/ /\ e.oam \in 1 .. Len(line.oam) /\ p >= -7
         /\ e.pixel = ((p + (i + 1)) - 1) - (x - 8)
  BY <1>5, Zenon DEF PixelInPlace
<1> QED
  BY <1>6, <1>7, <1>8, <1>9

\* A dot in which the line draws a pixel or waits for one.
LEMMA PixelDotIsDone ==
  ASSUME NEW d, NEW t, Counts, line \in ScanLines, GoesOn(d, t),
         d.object_fetch_step = "None", (dots + t) + Refill(d) <= Paid(d, writes.count)
  PROVE  Done(DrawPixel(d), t)
<1> DEFINE u == DrawPixel(d)
           n == dots
           r == Refill(d)
           r2 == Refill(u)
           P == Paid(d, writes.count)
           P2 == Paid(u, writes.count)
           b == Pops(d)
           b2 == Pops(u)
<1>1. Wellformed(d, t) /\ d \in Drawing /\ t \in Nat /\ FetcherIsInTime(d) /\ d.finished = FALSE
  BY DEF GoesOn, Wellformed
<1>2. Numbers(d) /\ P \in Int /\ n \in Nat /\ Width \in Nat
  BY <1>1, DrawingIsNumbers, PaidIsNumber, LineIsState DEF Counts
<1>3. d.screen_x \in 0 .. Width /\ d.screen_x # Width /\ d.screen_x < Width
  <2>1. d.screen_x \in 0 .. Width /\ d.screen_x # Width
    BY <1>1 DEF Wellformed
  <2> QED
    BY <1>2, <2>1
<1>4. b + 4 <= n /\ b \in Int /\ r \in 0 .. 6
  BY <1>2 DEF GoesOn, Numbers
<1>5. t <= writes.count /\ (t = writes.count => ~MayTrigger(d))
  BY DEF GoesOn
<1>6. d.wx_just_changed = FALSE /\ d.mode3_startup_dots = 0
  BY DEF GoesOn
<1>7. CASE d.bg_fifo = <<>>
  <2>1. PixelWaits(d, u)
    BY <1>1, <1>3, <1>7, PixelStaysAway
  <2> HIDE DEF u
  <2>2. SameRegisters(d, u) /\ SameColumn(d, u) /\ SameObjects(d, u) /\ SameWindow(d, u)
        /\ u \in Drawing /\ FetcherIsInTime(u) /\ r2 + 1 = r
    BY <2>1 DEF PixelWaits
  <2>3. SamePath(d, u)
    BY <2>2, PathIsSame
  <2>4. (MayBegin(u) <=> MayBegin(d)) /\ Windows(u, writes.count) = Windows(d, writes.count)
    <3>1. WindowEnabled(u) <=> WindowEnabled(d)
      BY <2>3 DEF SamePath
    <3>2. WindowEnabled(d) => u.window_active = d.window_active
      BY <2>1 DEF PixelWaits
    <3> QED
      BY <3>1, <3>2, WindowIsSame
  <2>5. P2 = P
    BY <2>2, <2>3, <2>4, Zenon DEF Paid, SameRegisters, SameObjects, SamePath
  <2>6. u.object_fetch_step = "None" /\ u.wx_just_changed = FALSE /\ u.mode3_startup_dots = 0
    BY <1>6, <2>2 DEF SameObjects, SameWindow, SameRegisters
  <2>7. Owed(u) = (r2 + 0) + 0
    BY <2>6 DEF Owed, FetchDots
  <2>8. ((n + 1) + t) + Owed(u) <= P2
    <3>1. (n + t) + r <= P
      OBVIOUS
    <3>2. r2 \in 0 .. 6
      BY <2>2, DrawingIsNumbers DEF Numbers
    <3> HIDE DEF n, r, r2, P, P2
    <3>3. ((n + 1) + t) + ((r2 + 0) + 0) <= P2
      BY <1>1, <1>2, <1>4, <2>2, <2>5, <3>1, <3>2
    <3> QED
      BY <2>7, <3>3, Zenon
  <2>9. (4 - u.mode3_startup_dots) + b2 <= n + 1
    <3>1. b2 = b
      BY <2>3 DEF SamePath
    <3> HIDE DEF b, b2, n
    <3>2. (4 - 0) + b2 <= n + 1
      BY <1>2, <1>4, <3>1
    <3> QED
      BY <2>6, <3>2
  <2>10. TakenIsWritten(u, writes.count, t)
    BY <1>5, <2>3, <2>4, <2>6, Zenon DEF TakenIsWritten, MayTrigger, SamePath
  <2>11. Wellformed(u, t)
    <3>1. InPlace(u, t)
      BY <1>1, <2>2, Zenon DEF Wellformed, InPlace, SameColumn, SameRegisters
    <3>2. /\ u.scx_low = line.scx % 8 /\ u.line_objects = ScannedObjects(line)
          /\ u.fetched \subseteq u.line_objects
      BY <1>1, <2>2, Zenon DEF Wellformed, SameRegisters, SameObjects
    <3>3. /\ u.mode3_startup_dots > 0 => u.pixel_position = -16
          /\ u.screen_x \in 0 .. Width /\ u.finished = (u.screen_x = Width)
      BY <1>1, <2>2, Zenon DEF Wellformed, SameColumn, SameRegisters
    <3> QED
      BY <2>2, <2>6, <3>1, <3>2, <3>3, Zenon DEF Wellformed
  <2>12. FifoInPlace(u)
    <3>1. FifoInPlace(d) /\ u.pixel_position = d.pixel_position /\ u.obj_fifo = d.obj_fifo
      BY <2>2 DEF GoesOn, SameColumn, SameObjects
    <3> QED
      BY <3>1, FifoStaysInPlace
  <2>13. Done(u, t)
    BY <1>1, <2>8, <2>9, <2>10, <2>11, <2>12, Zenon DEF Done, InBudget
  <2> QED
    BY <2>13 DEF u
<1>8. CASE d.bg_fifo # <<>>
  <2>1. PixelMoved(d, u)
    BY <1>1, <1>3, <1>8, PixelMoves
  <2> HIDE DEF u
  <2>2. SameRegisters(d, u) /\ SameFetch(d, u) /\ SameWindow(d, u) /\ u \in Drawing
        /\ FetcherIsInTime(u) /\ u.bg_fifo # <<>> /\ u.finished = (u.screen_x = Width)
    BY <2>1 DEF PixelMoved
  <2>3. PixelInOrder(d, u, t)
    BY <1>1, <1>2, <1>3, <2>1, PixelStaysInPlace
  <2>4. (MayBegin(u) <=> MayBegin(d)) /\ Windows(u, writes.count) = Windows(d, writes.count)
    <3>1. WindowEnabled(u) <=> WindowEnabled(d)
      BY <2>2, Zenon DEF SameRegisters, WindowEnabled
    <3>2. WindowEnabled(d) => u.window_active = d.window_active
      BY <2>1 DEF PixelMoved
    <3> QED
      BY <3>1, <3>2, WindowIsSame
  <2>5. u.object_fetch_step = "None" /\ u.wx_just_changed = FALSE /\ u.mode3_startup_dots = 0
        /\ u.fetched = d.fetched
    BY <1>6, <2>2 DEF SameFetch, SameWindow, SameRegisters
  <2>6. b2 = b + 1
    BY <2>3 DEF PixelInOrder
  <2>7. P2 = P + 1
    <3> DEFINE a == 4 - d.mode3_startup_dots
               w == Windows(d, writes.count)
               c == Cardinality(d.fetched)
    <3>1. P = ((a + b) + 7 * w) + 11 * c
      BY Zenon DEF Paid
    <3>2. P2 = ((a + b2) + 7 * w) + 11 * c
      BY <1>6, <2>4, <2>5, Zenon DEF Paid
    <3>3. a \in Int /\ w \in Nat
      BY <1>2 DEF Numbers, Counts, Windows
    <3>4. c \in Nat
      BY <1>1, LineIsState, FetchesAreFinite DEF Wellformed
    <3> HIDE DEF a, b, b2, w, c, P, P2
    <3> QED
      BY <1>4, <2>6, <3>1, <3>2, <3>3, <3>4
  <2>8. Owed(u) = (0 + 0) + 0
    BY <2>2, <2>5 DEF Owed, FetchDots, Refill
  <2>9. ((n + 1) + t) + Owed(u) <= P2
    <3>1. (n + t) + r <= P
      OBVIOUS
    <3> HIDE DEF n, r, P, P2
    <3>2. ((n + 1) + t) + ((0 + 0) + 0) <= P2
      BY <1>1, <1>2, <1>4, <2>7, <3>1
    <3> QED
      BY <2>8, <3>2, Zenon
  <2>10. (4 - u.mode3_startup_dots) + b2 <= n + 1
    <3> HIDE DEF b, b2, n
    <3>1. (4 - 0) + b2 <= n + 1
      BY <1>2, <1>4, <2>6
    <3> QED
      BY <2>5, <3>1
  <2>11. TakenIsWritten(u, writes.count, t)
    <3>1. ASSUME t = writes.count, MayBegin(u), Trails(u) PROVE FALSE
      <4>1. MayBegin(d) /\ ~MayTrigger(d)
        BY <1>5, <2>4, <3>1
      <4>2. u.wx = d.wx
        BY <2>2 DEF SameRegisters
      <4> DEFINE p == d.pixel_position
                 p2 == u.pixel_position
                 wx == d.wx
      <4>3. wx \in 1 .. Width + 5 /\ wx = p2 + 6 /\ p2 = p + 1
        BY <2>3, <3>1, <4>2 DEF Trails, PixelInOrder
      <4>4. p \in Int
        BY <1>2 DEF Numbers
      <4>5. wx # 0 /\ wx < Width + 6 /\ wx = p + 7
        <5> HIDE DEF p, p2, wx
        <5> QED BY <1>2, <4>3, <4>4
      <4>6. WindowReached(d)
        BY <4>5, Zenon DEF WindowReached
      <4> QED
        BY <4>1, <4>6 DEF MayTrigger
    <3> QED
      BY <1>5, <2>5, <3>1, Zenon DEF TakenIsWritten
  <2>12. Wellformed(u, t)
    <3>1. InPlace(u, t) /\ u.screen_x \in 0 .. Width
      BY <2>3 DEF PixelInOrder
    <3>2. /\ u.scx_low = line.scx % 8 /\ u.line_objects = ScannedObjects(line)
          /\ u.fetched \subseteq u.line_objects
      BY <1>1, <2>2, Zenon DEF Wellformed, SameRegisters, SameFetch
    <3>3. ~(u.mode3_startup_dots > 0)
      BY <2>5
    <3> QED
      BY <2>2, <2>5, <3>1, <3>2, <3>3, Zenon DEF Wellformed
  <2>13. FifoInPlace(u)
    BY <1>1, <2>1, <2>3, FifoMovesInPlace DEF GoesOn
  <2>14. Done(u, t)
    BY <1>1, <2>9, <2>10, <2>11, <2>12, <2>13, Zenon DEF Done, InBudget
  <2> QED
    BY <2>14 DEF u
<1> QED
  BY <1>7, <1>8

\* What a pixel adds to the line is in its place.
LEMMA PictureStaysInPlace ==
  ASSUME NEW d, NEW t, Counts, line \in ScanLines, GoesOn(d, t),
         ShownInPlace(picture, d.screen_x, t), DOMAIN picture = 0 .. Width - 1
  PROVE  /\ ShownInPlace(Pushed(d), DrawPixel(d).screen_x, t)
         /\ DOMAIN Pushed(d) = 0 .. Width - 1
<1> DEFINE u == DrawPixel(d)
           x == d.screen_x
           x2 == u.screen_x
           p == d.pixel_position
           pic == Pushed(d)
<1>1. Wellformed(d, t) /\ d \in Drawing /\ t \in Nat /\ FetcherIsInTime(d) /\ d.finished = FALSE
  BY DEF GoesOn, Wellformed
<1>2. Numbers(d) /\ Width \in Nat
  BY <1>1, DrawingIsNumbers, LineIsState
<1>3. x \in 0 .. Width /\ x # Width /\ x < Width
  <2>1. d.screen_x \in 0 .. Width /\ d.screen_x # Width
    BY <1>1 DEF Wellformed
  <2> QED
    BY <1>2, <2>1
<1>4. CASE d.bg_fifo = <<>>
  <2>1. PixelWaits(d, u)
    BY <1>1, <1>3, <1>4, PixelStaysAway
  <2>2. x2 = x
    BY <2>1 DEF PixelWaits, SameColumn
  <2>3. pic = picture
    BY <1>4 DEF Pushed, Mixes
  <2> QED
    BY <2>2, <2>3
<1>5. CASE d.bg_fifo # <<>>
  <2>1. PixelMoved(d, u)
    BY <1>1, <1>3, <1>5, PixelMoves
  <2>2. PixelInOrder(d, u, t)
    BY <1>1, <1>2, <1>3, <2>1, PixelStaysInPlace
  <2> HIDE DEF u
  <2>3. Position(d) \in Int
    BY <1>2 DEF Position, Numbers
  <2>4. CASE ~(Position(d) >= 0)
    <3>1. Position(d) < 0
      BY <2>3, <2>4
    <3>2. x2 = x
      BY <2>2, <3>1 DEF PixelInOrder
    <3>3. pic = picture
      BY <2>4 DEF Pushed
    <3> QED
      BY <3>2, <3>3 DEF u
  <2>5. CASE Position(d) >= 0
    <3> DEFINE bg == Head(d.bg_fifo)
               e == IF d.obj_fifo = <<>> THEN Clear ELSE Head(d.obj_fifo)
               new == Mix(d, bg, e)
    <3>1. p >= 0 /\ x = p - t /\ x2 = x + 1 /\ p \in Int
      BY <1>2, <2>2, <2>5 DEF PixelInOrder, Numbers
    <3>2. Mixes(d)
      BY <1>3, <1>5 DEF Mixes
    <3>3. pic = [picture EXCEPT ![x] = new]
      BY <2>5, <3>2 DEF Pushed
    <3>4. x \in 0 .. Width - 1
      <4> HIDE DEF x
      <4> QED BY <1>2, <1>3
    <3> HIDE DEF pic
    <3>5. DOMAIN pic = 0 .. Width - 1 /\ pic[x] = new
          /\ \A i \in 0 .. Width - 1 : i # x => pic[i] = picture[i]
      <4> HIDE DEF new, x
      <4> QED BY <3>3, <3>4
    <3>6. bg.layer # "object" /\ Blank.layer # "object"
      <4>1. d.bg_fifo \in Seq(BgPixel)
        BY <1>2 DEF Numbers
      <4>2. bg \in BgPixel
        BY <1>5, <4>1
      <4> HIDE DEF bg
      <4>3. bg.layer \in {"blank", "bg", "window"}
        BY <4>2 DEF BgPixel
      <4> QED
        BY <4>3 DEF Blank
    <3>7. PixelInPlace(p, 1, e)
      <4>1. CASE d.obj_fifo = <<>>
        <5>1. e = Clear
          BY <4>1
        <5> QED
          BY <5>1, Zenon DEF PixelInPlace
      <4>2. CASE d.obj_fifo # <<>>
        <5>1. d.obj_fifo \in Seq(ObjectPixel)
          BY <1>1 DEF Drawing
        <5>2. e = d.obj_fifo[1] /\ 1 \in 1 .. Len(d.obj_fifo)
          BY <4>2, <5>1
        <5>3. FifoInPlace(d)
          BY DEF GoesOn
        <5> HIDE DEF e
        <5> QED
          BY <5>2, <5>3 DEF FifoInPlace
      <4> QED
        BY <4>1, <4>2
    <3> HIDE DEF bg, e
    <3> DEFINE At(n, c) == n.layer = "object" /\ n.oam \notin AtZero
                 => (c - n.column) - (line.oam[n.oam].x - 8) \in -t .. 0
    <3>8. ASSUME new.layer = "object", new.oam \notin AtZero
          PROVE  (x - new.column) - (line.oam[new.oam].x - 8) \in -t .. 0
      <4>1. e # Clear /\ new = [layer |-> "object", oam |-> e.oam, column |-> e.pixel]
        BY <3>6, <3>8 DEF Mix
      <4> HIDE DEF new
      <4>2. new.oam = e.oam /\ new.column = e.pixel
        BY <4>1
      <4> DEFINE X == line.oam[e.oam].x
                 y == e.pixel
      <4>3. y = ((p + 1) - 1) - (X - 8) /\ e.oam \in 1 .. Len(line.oam)
        BY <3>7, <3>8, <4>1, <4>2, Zenon DEF PixelInPlace
      <4>4. X \in Int
        <5>1. line.oam \in Seq(ObjectEntry)
          BY LineIsState DEF LineState
        <5> DEFINE o == line.oam[e.oam]
        <5>2. o \in ObjectEntry
          BY <4>3, <5>1
        <5> HIDE DEF o
        <5>3. o.x \in 0 .. 255
          BY <5>2 DEF ObjectEntry
        <5> DEFINE v == o.x
        <5>4. v \in Int
          <6>1. v \in 0 .. 255
            BY <5>3
          <6> HIDE DEF v
          <6> QED
            BY <6>1
        <5> QED
          BY <5>4 DEF o
      <4>5. (x - y) - (X - 8) \in -t .. 0
        <5> HIDE DEF x, y, X, p
        <5> QED BY <1>1, <3>1, <4>3, <4>4
      <4> QED
        BY <4>2, <4>5
    <3>9. ASSUME NEW i \in 0 .. x2 - 1
          PROVE  At(pic[i], i)
      <4>1. i \in 0 .. x - 1 \/ i = x
        <5> HIDE DEF x, x2
        <5> QED BY <1>2, <1>3, <3>1
      <4>2. CASE i \in 0 .. x - 1
        <5>1. i \in 0 .. Width - 1 /\ i # x
          <6> HIDE DEF x
          <6> QED BY <1>2, <1>3, <4>2
        <5>2. pic[i] = picture[i]
          BY <3>5, <5>1
        <5>3. At(picture[i], i)
          BY <4>2, Zenon DEF ShownInPlace
        <5> HIDE DEF At
        <5> QED
          BY <5>2, <5>3
      <4>3. CASE i = x
        <5>1. pic[i] = new
          BY <3>5, <4>3
        <5>2. At(new, x)
          BY <3>8
        <5> HIDE DEF At, new, x
        <5> QED
          BY <4>3, <5>1, <5>2
      <4> QED
        BY <4>1, <4>2, <4>3
    <3>10. ShownInPlace(pic, x2, t)
      BY <3>9, Zenon DEF ShownInPlace
    <3> QED
      BY <3>5, <3>10 DEF u, pic
  <2> QED
    BY <2>4, <2>5
<1> QED
  BY <1>4, <1>5

-----------------------------------------------------------------------------
(* The first state. *)

\* begin_mode3 leaves a line that is well formed and owes nothing.
LEMMA LineBegins ==
  ASSUME DrawInit
  PROVE  DrawInv
<1> DEFINE d == BeginDrawing(line)
           b == [i \in 1 .. 8 |-> Blank]
           low == line.scx % 8
           objects == ScannedObjects(line)
<1>1. line \in ScanLines /\ draw = d /\ dots = 0 /\ writes = [count |-> 0, taken |-> 0]
      /\ picture = [n \in 0 .. Width - 1 |-> Blank]
  BY DEF DrawInit
<1>2. line \in LineState /\ Width \in Nat /\ Width > 8
  BY <1>1, LineIsState
<1>3. line.lcdc \in SUBSET Layers /\ line.wx \in 0 .. 255 /\ line.scx \in 0 .. 255
  BY <1>2 DEF LineState
<1>4. low \in 0 .. 7
  <2> DEFINE s == line.scx
  <2>1. s \in Int
    <3>1. s \in 0 .. 255
      BY <1>3
    <3> HIDE DEF s
    <3> QED
      BY <3>1
  <2> HIDE DEF s
  <2>2. s % 8 \in 0 .. 7
    BY <2>1
  <2> QED
    BY <2>2 DEF s
<1>5. objects \in SUBSET Nat
  BY ObjectsAreInOam
<1>6. b \in Seq(BgPixel) /\ Len(b) = 8 /\ b # <<>>
  <2>1. Blank \in BgPixel
    BY DEF Blank, BgPixel
  <2>2. b \in [1 .. 8 -> BgPixel] /\ 8 \in Nat
    BY <2>1
  <2> HIDE DEF b
  <2>3. b \in Seq(BgPixel) /\ Len(b) = 8
    BY <2>2, RunOfPixels
  <2>4. Len(<<>>) = 0 /\ 8 # 0
    OBVIOUS
  <2>5. b # <<>>
    BY <2>3, <2>4, Zenon
  <2> QED
    BY <2>3, <2>5
<1>7. FreshFetcher \in Fetcher /\ FreshFetcher.step = 0
  BY DEF FreshFetcher, Fetcher
<1>8. d = [ lcdc |-> line.lcdc, wx |-> line.wx, scx |-> line.scx, scx_low |-> low,
    mode3_startup_dots |-> 4, pixel_position |-> -16, screen_x |-> 0,
    bg_fifo |-> b, obj_fifo |-> <<>>, fetcher |-> FreshFetcher,
    line_objects |-> objects, fetched |-> {},
    object_fetch_step |-> "None", object_fetch_index |-> 0, object_fetch_aborted |-> FALSE,
    window_triggered |-> FALSE, window_active |-> FALSE, wx_just_changed |-> FALSE,
    window_line |-> 0, finished |-> FALSE ]
  BY DEF BeginDrawing
<1> HIDE DEF d, b, low, objects
<1>9. d \in Drawing
  <2>1. "None" \in FetchSteps
    BY DEF FetchSteps
  <2>2. <<>> \in Seq(ObjectPixel)
    OBVIOUS
  <2> QED
    BY <1>3, <1>4, <1>5, <1>6, <1>7, <1>8, <2>1, <2>2 DEF Drawing
<1>10. /\ d.wx_just_changed = FALSE /\ d.window_active = FALSE /\ d.object_fetch_step = "None"
       /\ d.bg_fifo = b /\ d.fetcher = FreshFetcher /\ d.obj_fifo = <<>> /\ d.fetched = {}
       /\ d.screen_x = 0 /\ d.pixel_position = -16 /\ d.mode3_startup_dots = 4
       /\ d.finished = FALSE /\ d.scx_low = low /\ d.line_objects = objects
  BY <1>8
<1>11. FetcherIsInTime(d)
  <2>1. d.bg_fifo # <<>> /\ Len(d.bg_fifo) = 8 /\ d.fetcher.step = 0
    BY <1>6, <1>7, <1>10
  <2>2. 0 + 8 >= 6
    OBVIOUS
  <2> QED
    BY <2>1, <2>2, Zenon DEF FetcherIsInTime
<1>12. Wellformed(d, 0)
  <2>1. InPlace(d, 0)
    BY <1>4, <1>10 DEF InPlace
  <2>2. d.screen_x \in 0 .. Width /\ d.finished = (d.screen_x = Width)
    <3>1. 0 \in 0 .. Width /\ 0 # Width
      BY <1>2
    <3> QED
      BY <1>10, <3>1, Zenon
  <2>3. d.scx_low = line.scx % 8 /\ d.line_objects = ScannedObjects(line)
    BY <1>10 DEF low, objects
  <2> QED
    BY <1>9, <1>10, <1>11, <2>1, <2>2, <2>3 DEF Wellformed
<1>13. InBudget(d, 0, 0, 0)
  <2>1. Refill(d) = 0 /\ FetchDots(d) = 0 /\ Owed(d) = (0 + 0) + 0
    BY <1>6, <1>10 DEF Refill, FetchDots, Owed
  <2>2. Pops(d) = 0
    BY <1>10 DEF Pops
  <2>3. Windows(d, 0) = 0 /\ Cardinality(d.fetched) = 0
    BY <1>10, FS_EmptySet DEF Windows
  <2>4. Paid(d, 0) = (((4 - 4) + 0) + 7 * 0) + 11 * 0
    BY <1>10, <2>2, <2>3, Zenon DEF Paid
  <2>5. (0 + 0) + Owed(d) <= Paid(d, 0)
    <3>1. (0 + 0) + ((0 + 0) + 0) <= (((4 - 4) + 0) + 7 * 0) + 11 * 0
      OBVIOUS
    <3> QED
      BY <2>1, <2>4, <3>1, Zenon
  <2>6. (4 - d.mode3_startup_dots) + Pops(d) <= 0
    BY <1>10, <2>2
  <2> QED
    BY <2>5, <2>6 DEF InBudget
<1>14. TakenIsWritten(d, 0, 0)
  BY <1>10 DEF TakenIsWritten, Trails
<1>15. FifoInPlace(d)
  <2>1. Len(d.obj_fifo) = 0
    BY <1>10
  <2> QED
    BY <2>1 DEF FifoInPlace
<1>16. ShownInPlace(picture, d.screen_x, 0)
  <2>1. ~\E n \in 0 .. 0 - 1 : TRUE
    OBVIOUS
  <2> QED
    BY <1>10, <2>1, Zenon DEF ShownInPlace
<1>17. /\ writes.count = 0 /\ writes.taken = 0 /\ writes \in [count : Nat, taken : Nat]
       /\ DOMAIN picture = 0 .. Width - 1
  BY <1>1
<1> QED
  BY <1>1, <1>12, <1>13, <1>14, <1>15, <1>16, <1>17 DEF DrawInv

-----------------------------------------------------------------------------
(* The actions. *)

\* The members after a step, named u.
LEMMA NextIsInvariant ==
  ASSUME NEW u, draw' = u, line' = line, line \in ScanLines, dots' \in Nat,
         writes' \in [count : Nat, taken : Nat], DOMAIN picture' = 0 .. Width - 1,
         Wellformed(u, writes'.taken), InBudget(u, writes'.count, writes'.taken, dots'),
         TakenIsWritten(u, writes'.count, writes'.taken), FifoInPlace(u),
         ShownInPlace(picture', u.screen_x, writes'.taken)
  PROVE  DrawInv'
<1>1. /\ (line \in ScanLines)' /\ (dots \in Nat)' /\ (writes \in [count : Nat, taken : Nat])'
      /\ (DOMAIN picture = 0 .. Width - 1)'
  OBVIOUS
<1>2. Wellformed(draw, writes.taken)'
  BY DEF Wellformed, FetcherIsInTime, InPlace, ObjectMatch, ScannedObjects
<1>3. InBudget(draw, writes.count, writes.taken, dots)'
  BY DEF InBudget, Owed, Paid, Refill, FetchDots, Misaligned, MayTrigger, MayBegin,
         WindowEnabled, WindowReached, Trails, Pops, Windows
<1>4. TakenIsWritten(draw, writes.count, writes.taken)'
  BY DEF TakenIsWritten, MayBegin, WindowEnabled, Trails
<1>5. FifoInPlace(draw)'
  BY DEF FifoInPlace, PixelInPlace, AtZero
<1>6. ShownInPlace(picture, draw.screen_x, writes.taken)'
  BY DEF ShownInPlace, AtZero
<1> QED
  BY <1>1, <1>2, <1>3, <1>4, <1>5, <1>6, Zenon DEF DrawInv

\* A dot before the first pixel keeps the invariant.
LEMMA StartupDotDraws ==
  ASSUME DrawInv, Startup
  PROVE  DrawInv'
<1> DEFINE d == draw
           u == [draw EXCEPT !.mode3_startup_dots = @ - 1]
           n == dots
           t == writes.taken
           k == draw.mode3_startup_dots
<1>1. draw' = u /\ dots' = dots + 1 /\ line' = line /\ writes' = writes /\ picture' = picture
      /\ k > 0
  BY DEF Startup, Count
<1>2. d \in Drawing /\ Wellformed(d, t) /\ InBudget(d, writes.count, t, n)
  BY DEF DrawInv, Wellformed
<1>3. k \in 1 .. 4 /\ k - 1 \in 0 .. 4
  <2>1. k \in 0 .. 4
    BY <1>2 DEF Drawing
  <2> HIDE DEF k
  <2> QED
    BY <1>1, <2>1
<1>4. u \in Drawing /\ u.mode3_startup_dots = k - 1
  <2> DEFINE j == k - 1
             v == [draw EXCEPT !.mode3_startup_dots = j]
  <2>1. u = v
    OBVIOUS
  <2>2. j \in 0 .. 4
    BY <1>3
  <2> HIDE DEF j, u, k
  <2>5. v \in Drawing
    <3>1. draw \in Drawing
      BY <1>2
    <3> QED
      BY <2>2, <3>1, ZenonT(60) DEF Drawing
  <2>3. u \in Drawing
    BY <2>1, <2>5
  <2>6. v.mode3_startup_dots = j
    BY <1>2 DEF Drawing
  <2>4. u.mode3_startup_dots = j
    BY <2>1, <2>6
  <2> QED
    BY <2>3, <2>4 DEF j
<1>5. /\ SameColumn(d, u) /\ SameObjects(d, u) /\ SameGround(d, u) /\ SameWindow(d, u)
      /\ u.lcdc = d.lcdc /\ u.wx = d.wx /\ u.scx_low = d.scx_low
      /\ u.line_objects = d.line_objects
  BY <1>2 DEF Drawing, SameColumn, SameObjects, SameGround, SameWindow
<1> HIDE DEF u
<1>6. /\ WindowEnabled(u) <=> WindowEnabled(d)
      /\ WindowReached(u) <=> WindowReached(d)
      /\ Trails(u) <=> Trails(d)
      /\ Pops(u) = Pops(d) /\ ObjectMatch(u) = ObjectMatch(d)
  <2>1. u.pixel_position = d.pixel_position /\ u.screen_x = d.screen_x
    BY <1>5 DEF SameColumn
  <2>2. (WindowEnabled(u) <=> WindowEnabled(d)) /\ (WindowReached(u) <=> WindowReached(d))
    BY <1>5, <2>1, Zenon DEF WindowEnabled, WindowReached
  <2>3. Trails(u) <=> Trails(d)
    BY <1>5, <2>1, Zenon DEF Trails
  <2>4. Pops(u) = Pops(d) /\ ObjectMatch(u) = ObjectMatch(d)
    BY <1>5, <2>1, Zenon DEF Pops, ObjectMatch
  <2> QED
    BY <2>2, <2>3, <2>4
<1>7. Wellformed(u, t)
  <2>1. FetcherIsInTime(u)
    BY <1>2, <1>5, Zenon DEF Wellformed, FetcherIsInTime, SameGround
  <2>2. InPlace(u, t)
    BY <1>2, <1>5, Zenon DEF Wellformed, InPlace, SameColumn
  <2>3. u.pixel_position = -16
    BY <1>1, <1>2, <1>5 DEF Wellformed, SameColumn
  <2>4. /\ u.scx_low = line.scx % 8 /\ u.line_objects = ScannedObjects(line)
        /\ u.fetched \subseteq u.line_objects
    BY <1>2, <1>5, Zenon DEF Wellformed, SameObjects
  <2>5. u.object_fetch_step # "None" =>
          /\ u.object_fetch_index \in u.line_objects
          /\ line.oam[u.object_fetch_index].x = ObjectMatch(u)
    BY <1>2, <1>5, <1>6, Zenon DEF Wellformed, SameObjects
  <2>6. u.screen_x \in 0 .. Width /\ u.finished = (u.screen_x = Width)
    BY <1>2, <1>5, Zenon DEF Wellformed, SameColumn
  <2> QED
    BY <1>4, <2>1, <2>2, <2>3, <2>4, <2>5, <2>6, Zenon DEF Wellformed
<1>8. InBudget(u, writes.count, t, n + 1)
  <2> DEFINE o == Owed(d)
             b == Pops(d)
             w == Windows(d, writes.count)
             c == Cardinality(d.fetched)
  <2>1. Owed(u) = o
    <3>1. Refill(u) = Refill(d) /\ FetchDots(u) = FetchDots(d)
      BY <1>5, Zenon DEF Refill, FetchDots, SameGround, SameObjects
    <3>2. Misaligned(u) = Misaligned(d)
      BY <1>5, <1>6, Zenon DEF Misaligned, MayTrigger, MayBegin, SameGround
    <3> QED
      BY <1>5, <3>1, <3>2, Zenon DEF Owed, SameWindow, SameObjects
  <2>2. Windows(u, writes.count) = w /\ Pops(u) = b /\ u.fetched = d.fetched
    BY <1>5, <1>6, Zenon DEF Windows, SameGround, SameObjects
  <2>3. /\ (n + t) + o <= (((4 - k) + b) + 7 * w) + 11 * c
        /\ (4 - k) + b <= n
    BY <1>2, Zenon DEF InBudget, Paid
  <2>4. b \in Int /\ n \in Nat /\ t \in Nat /\ w \in Nat
    BY <1>2, DrawingIsNumbers DEF Numbers, DrawInv, Windows
  <2>5. c \in Nat
    BY <1>2, LineIsState, FetchesAreFinite DEF Wellformed, DrawInv
  <2>6. o \in Int
    <3> DEFINE r == Refill(d)
               f == FetchDots(d)
               m == Misaligned(d)
    <3>1. r \in 0 .. 6 /\ f \in 0 .. 11 /\ m \in {0, 5}
      BY <1>2, DrawingIsNumbers DEF Numbers
    <3>2. o = (r + f) + m \/ o = (r + f) + 0
      BY Zenon DEF Owed
    <3> HIDE DEF r, f, m, o
    <3>3. o \in Int
      BY <3>1, <3>2
    <3> QED
      BY <3>3
  <2>7. Paid(u, writes.count) = (((4 - (k - 1)) + b) + 7 * w) + 11 * c
    BY <1>4, <2>2, Zenon DEF Paid
  <2> HIDE DEF k, o, b, w, c, n, t
  <2>8. /\ ((n + 1) + t) + o <= (((4 - (k - 1)) + b) + 7 * w) + 11 * c
        /\ (4 - (k - 1)) + b <= n + 1
    BY <1>3, <2>3, <2>4, <2>5, <2>6
  <2> QED
    BY <1>4, <2>1, <2>2, <2>7, <2>8, Zenon DEF InBudget
<1>9. TakenIsWritten(u, writes.count, t)
  <2>1. TakenIsWritten(d, writes.count, t)
    BY DEF DrawInv
  <2> QED
    BY <1>5, <1>6, <2>1, Zenon DEF TakenIsWritten, SameWindow, SameGround, MayBegin
<1>10. FifoInPlace(u)
  <2>1. FifoInPlace(d) /\ u.obj_fifo = d.obj_fifo /\ u.pixel_position = d.pixel_position
    BY <1>5 DEF DrawInv, SameObjects, SameColumn
  <2> QED
    BY <2>1, FifoStaysInPlace
<1>11. u.screen_x = d.screen_x
  BY <1>5 DEF SameColumn
<1>12. dots + 1 \in Nat
  BY DEF DrawInv
<1>13. ShownInPlace(picture, u.screen_x, t) /\ DOMAIN picture = 0 .. Width - 1
  BY <1>11 DEF DrawInv
<1> QED
  BY <1>1, <1>7, <1>8, <1>9, <1>10, <1>12, <1>13, NextIsInvariant, Zenon DEF DrawInv

\* The invariant counts.
LEMMA DrawInvCounts ==
  ASSUME DrawInv
  PROVE  /\ Counts /\ line \in ScanLines /\ writes.taken \in Nat
         /\ Wellformed(draw, writes.taken) /\ draw \in Drawing
         /\ FifoInPlace(draw) /\ InBudget(draw, writes.count, writes.taken, dots)
         /\ TakenIsWritten(draw, writes.count, writes.taken)
<1>1. writes.count \in Nat /\ writes.taken \in Nat
  BY DEF DrawInv
<1>2. draw \in Drawing
  BY DEF DrawInv, Wellformed
<1> QED
  BY <1>1, <1>2, Zenon DEF DrawInv, Counts

\* What is shown stays in place when the window begins.
LEMMA WindowKeepsPicture ==
  ASSUME NEW d \in Drawing, NEW t \in Nat, ShownInPlace(picture, d.screen_x, t)
  PROVE  ShownInPlace(picture, TickWindow(d).screen_x, Taken(d, t))
<1> DEFINE x == d.screen_x
           x2 == TickWindow(d).screen_x
           t2 == Taken(d, t)
<1>1. x \in Int
  BY DrawingIsNumbers DEF Numbers
<1>2. (x2 = x /\ t2 = t) \/ (x2 = x - 1 /\ t2 = t + 1)
  <2> DEFINE u == TickWindow(d)
  <2>1. WindowTicked(d, u)
    BY WindowTicks
  <2>2. u.screen_x = d.screen_x \/ u.screen_x = d.screen_x - 1
    BY <2>1 DEF WindowTicked
  <2>3. Triggers(d) /\ WindowPassed(d) => u.screen_x = d.screen_x - 1
    BY <2>1 DEF WindowTicked
  <2>4. ~(Triggers(d) /\ WindowPassed(d)) => u.screen_x = d.screen_x
    BY <2>1 DEF WindowTicked
  <2> HIDE DEF u
  <2> QED
    BY <2>3, <2>4 DEF Taken, u
<1> HIDE DEF x, x2, t2
<1>3. ASSUME NEW n \in 0 .. x2 - 1
      PROVE  n \in 0 .. x - 1
  BY <1>1, <1>2
<1>4. -t .. 0 \subseteq -t2 .. 0
  BY <1>2
<1>5. ASSUME NEW n \in 0 .. x2 - 1, picture[n].layer = "object", picture[n].oam \notin AtZero
      PROVE  (n - picture[n].column) - (line.oam[picture[n].oam].x - 8) \in -t2 .. 0
  <2> DEFINE y == (n - picture[n].column) - (line.oam[picture[n].oam].x - 8)
  <2>1. y \in -t .. 0
    BY <1>3, <1>5, Zenon DEF ShownInPlace, x
  <2> HIDE DEF y
  <2>2. y \in -t2 .. 0
    BY <1>4, <2>1
  <2> QED
    BY <2>2 DEF y
<1>6. ShownInPlace(picture, x2, t2)
  BY <1>5, Zenon DEF ShownInPlace
<1> QED
  BY <1>6 DEF x2, t2

\* The dot of a window with WX = 0 keeps the invariant.
LEMMA WindowDotDraws ==
  ASSUME DrawInv, WindowDot
  PROVE  DrawInv'
<1> DEFINE d == draw
           u == TickWindow(draw)
           n == dots
           t == writes.taken
<1>1. /\ draw' = u /\ dots' = dots + 1 /\ line' = line /\ writes' = writes /\ picture' = picture
      /\ ~d.finished /\ d.mode3_startup_dots = 0 /\ Triggers(d) /\ d.wx = 0
  BY DEF WindowDot, Count
<1>2. /\ Counts /\ line \in ScanLines /\ t \in Nat /\ Wellformed(d, t) /\ d \in Drawing
      /\ FifoInPlace(d) /\ InBudget(d, writes.count, t, n) /\ TakenIsWritten(d, writes.count, t)
  BY DrawInvCounts
<1>3. d.finished = FALSE
  BY <1>1, <1>2, DrawingIsNumbers DEF Numbers
<1>4. ~WindowPassed(d) /\ Taken(d, t) = t
  BY <1>1 DEF WindowPassed, Taken
<1>5. WindowTicked(d, u)
  BY <1>2, WindowTicks
<1>6. Wellformed(u, t)
  BY <1>2, <1>3, <1>4, WindowKeepsForm
<1>7. ((n + 1) + t) + Owed(u) <= Paid(u, writes.count)
  BY <1>1, <1>2, <1>4, WindowIsPaid
<1>8. ShownInPlace(picture, u.screen_x, t)
  BY <1>2, <1>4, WindowKeepsPicture DEF DrawInv
<1> HIDE DEF u
<1>9. /\ u.pixel_position = d.pixel_position /\ u.scx_low = d.scx_low
      /\ u.mode3_startup_dots = 0 /\ u.wx_just_changed = FALSE /\ u.obj_fifo = d.obj_fifo
      /\ u.window_active = TRUE
  BY <1>1, <1>5 DEF WindowTicked, SameRegisters, SameObjects
<1>10. (4 - u.mode3_startup_dots) + Pops(u) <= n + 1
  <2> DEFINE b == Pops(d)
  <2>1. Pops(u) = b
    BY <1>9, Zenon DEF Pops
  <2>2. (4 - 0) + b <= n
    BY <1>1, <1>2, Zenon DEF InBudget
  <2>3. b \in Int /\ n \in Nat
    BY <1>2, DrawingIsNumbers DEF Numbers, Counts
  <2> HIDE DEF b, n
  <2>4. (4 - 0) + b <= n + 1
    BY <2>2, <2>3
  <2> QED
    BY <1>9, <2>1, <2>4
<1>11. InBudget(u, writes.count, t, n + 1)
  BY <1>7, <1>10, Zenon DEF InBudget
<1>12. TakenIsWritten(u, writes.count, t)
  BY <1>2, <1>9, Zenon DEF TakenIsWritten, MayBegin
<1>13. FifoInPlace(u)
  BY <1>2, <1>9, FifoStaysInPlace
<1>14. n + 1 \in Nat /\ writes \in [count : Nat, taken : Nat] /\ DOMAIN picture = 0 .. Width - 1
  BY DEF DrawInv
<1> QED
  BY <1>1, <1>2, <1>6, <1>8, <1>11, <1>12, <1>13, <1>14, NextIsInvariant, Zenon

\* The rest of tick_mode3.
LEMMA DrawDotDraws ==
  ASSUME DrawInv, DrawDot
  PROVE  DrawInv'
<1> DEFINE d == draw
           n == dots
           t == Taken(draw, writes.taken)
           ticked == TickWindow(draw)
           begun == IF ticked.object_fetch_step = "None" THEN StartObjectFetch(ticked) ELSE ticked
           fetching == begun.object_fetch_step # "None" /\ ~begun.object_fetch_aborted
           w == [writes EXCEPT !.taken = IF Triggers(draw) /\ WindowPassed(draw)
                                         THEN @ + 1 ELSE @]
<1>1. /\ ~d.finished /\ d.mode3_startup_dots = 0 /\ dots' = dots + 1 /\ line' = line
      /\ writes' = w
      /\ fetching => draw' = TickObjectFetch(begun) /\ picture' = picture
      /\ ~fetching => draw' = DrawPixel(EndObjectFetch(begun)) /\ picture' = Pushed(begun)
  BY DEF DrawDot
<1>2. /\ Counts /\ line \in ScanLines /\ writes.taken \in Nat /\ Wellformed(d, writes.taken)
      /\ d \in Drawing /\ FifoInPlace(d) /\ InBudget(d, writes.count, writes.taken, n)
      /\ TakenIsWritten(d, writes.count, writes.taken)
  BY DrawInvCounts
<1>3. writes \in [count : Nat, taken : Nat] /\ DOMAIN picture = 0 .. Width - 1
      /\ ShownInPlace(picture, d.screen_x, writes.taken) /\ n + 1 \in Nat
  BY DEF DrawInv
<1>4. d.finished = FALSE
  BY <1>1, <1>2, DrawingIsNumbers DEF Numbers
<1>5. w = [writes EXCEPT !.taken = t] /\ t \in Nat
  BY <1>2 DEF Taken
<1>6. Ready(ticked, t)
  BY <1>1, <1>2, <1>4, WindowLeavesReady
<1>7. ShownInPlace(picture, ticked.screen_x, t)
  BY <1>2, <1>3, WindowKeepsPicture
<1> HIDE DEF ticked, t, w
<1>8. w \in [count : Nat, taken : Nat] /\ w.count = writes.count /\ w.taken = t
  BY <1>3, <1>5
<1>9. Begun(begun, t) /\ begun.screen_x = ticked.screen_x
  <2>1. CASE ticked.object_fetch_step = "None"
    <3>1. Begun(StartObjectFetch(ticked), t)
      BY <1>2, <1>6, <2>1, FetchIsPaid
    <3>2. Started(ticked, StartObjectFetch(ticked))
      BY <1>6, FetchStarts DEF Ready, GoesOn, Wellformed
    <3>3. StartObjectFetch(ticked).screen_x = ticked.screen_x
      BY <3>2 DEF Started, SameColumn
    <3> QED
      BY <2>1, <3>1, <3>3
  <2>2. CASE ticked.object_fetch_step # "None"
    BY <1>2, <1>6, <2>2, ReadyBegins
  <2> QED
    BY <2>1, <2>2
<1>10. ShownInPlace(picture, begun.screen_x, t)
  BY <1>7, <1>9
<1> HIDE DEF begun
<1>11. ASSUME NEW u, Done(u, t), draw' = u, ShownInPlace(picture', u.screen_x, t),
              DOMAIN picture' = 0 .. Width - 1
       PROVE  DrawInv'
  <2>1. /\ Wellformed(u, writes'.taken) /\ InBudget(u, writes'.count, writes'.taken, dots')
        /\ TakenIsWritten(u, writes'.count, writes'.taken) /\ FifoInPlace(u)
        /\ ShownInPlace(picture', u.screen_x, writes'.taken)
    BY <1>1, <1>8, <1>11, Zenon DEF Done
  <2>2. writes' \in [count : Nat, taken : Nat] /\ dots' \in Nat
    BY <1>1, <1>3, <1>8
  <2> QED
    BY <1>1, <1>2, <1>11, <2>1, <2>2, NextIsInvariant, Zenon
<1>12. CASE fetching
  <2> DEFINE u == TickObjectFetch(begun)
  <2>1. Done(u, t)
    BY <1>2, <1>9, <1>12, FetchDotIsDone
  <2>2. u.screen_x = begun.screen_x
    <3>1. /\ begun \in Drawing /\ FifoInPlace(begun) /\ Wellformed(begun, t)
          /\ line \in LineState
      BY <1>2, <1>9, LineIsState DEF Begun, GoesOn, Wellformed
    <3>2. ObjectIsMet(begun)
      BY <1>12, <3>1, ObjectIsInOam
    <3>3. FetchTicked(begun, u)
      BY <1>12, <3>1, <3>2, FetchTicks
    <3> QED
      BY <3>3 DEF FetchTicked, SameColumn
  <2>3. draw' = u /\ picture' = picture
    BY <1>1, <1>12
  <2> HIDE DEF u
  <2> QED
    BY <1>3, <1>10, <1>11, <2>1, <2>2, <2>3
<1>13. CASE ~fetching
  <2> DEFINE e == EndObjectFetch(begun)
             u == DrawPixel(e)
  <2>1. draw' = u /\ picture' = Pushed(begun)
    BY <1>1, <1>13
  <2>2. /\ GoesOn(e, t) /\ e.object_fetch_step = "None"
        /\ (dots + t) + Refill(e) <= Paid(e, writes.count)
    BY <1>2, <1>9, FetchIsGivenUp
  <2>3. Done(u, t)
    <3> HIDE DEF e
    <3> QED BY <1>2, <2>2, PixelDotIsDone
  <2>4. FetchEnded(begun, e)
    BY <1>9, FetchEnds DEF Begun, GoesOn, Wellformed
  <2> HIDE DEF e
  <2>5. /\ e.screen_x = begun.screen_x /\ e.pixel_position = begun.pixel_position
        /\ e.bg_fifo = begun.bg_fifo /\ e.obj_fifo = begun.obj_fifo /\ e.lcdc = begun.lcdc
        /\ e.scx_low = begun.scx_low
    BY <2>4 DEF FetchEnded, SameColumn, SameGround, SameRegisters
  <2>6. Pushed(e) = Pushed(begun)
    BY <2>5, Zenon DEF Pushed, Mixes, Position, MaySkip, Mix, Colour
  <2>7. ShownInPlace(picture, e.screen_x, t)
    BY <1>10, <2>5
  <2>8. ShownInPlace(Pushed(e), u.screen_x, t) /\ DOMAIN Pushed(e) = 0 .. Width - 1
    BY <1>2, <1>3, <2>2, <2>7, PictureStaysInPlace
  <2> HIDE DEF u
  <2>9. ShownInPlace(picture', u.screen_x, t) /\ DOMAIN picture' = 0 .. Width - 1
    BY <2>1, <2>6, <2>8, Zenon
  <2> QED
    BY <1>11, <2>1, <2>3, <2>9
<1> QED
  BY <1>12, <1>13

\* A write of a register leaves everything else.
Written(d, u) ==
  /\ u \in Drawing /\ SameColumn(d, u) /\ SameGround(d, u)
  /\ u.scx_low = d.scx_low /\ u.mode3_startup_dots = d.mode3_startup_dots
  /\ u.line_objects = d.line_objects /\ u.obj_fifo = d.obj_fifo /\ u.fetched = d.fetched
  /\ u.object_fetch_step = d.object_fetch_step
  /\ u.object_fetch_index = d.object_fetch_index

\* The members after a write.
RegistersWritten(d, w) ==
  CASE w.register = "lcdc" ->
         [d EXCEPT !.lcdc = w.value,
                   !.object_fetch_aborted = @ \/ /\ "objects" \in d.lcdc \ w.value
                                                 /\ d.object_fetch_step # "None"]
    [] w.register = "wx" -> [d EXCEPT !.wx = w.value, !.wx_just_changed = TRUE]
    [] OTHER -> [d EXCEPT !.scx = w.value]

\* A write does that.
LEMMA WriteIsWritten ==
  ASSUME NEW d \in Drawing, NEW w \in Writes
  PROVE  Written(d, RegistersWritten(d, w))
<1> DEFINE u == RegistersWritten(d, w)
           val == w.value
<1>1. \/ w.register = "lcdc" /\ val \in SUBSET Layers
      \/ w.register \in {"wx", "scx"} /\ val \in 0 .. 255
  BY LineAssumption DEF LinesAreBytes
<1>2. CASE w.register = "lcdc"
  <2> DEFINE aborted == d.object_fetch_aborted \/ /\ "objects" \in d.lcdc \ val
                                                  /\ d.object_fetch_step # "None"
             y == [d EXCEPT !.lcdc = val]
             z == [y EXCEPT !.object_fetch_aborted = aborted]
  <2>1. u = [d EXCEPT !.lcdc = val, !.object_fetch_aborted = aborted]
    BY <1>2 DEF RegistersWritten
  <2>2. val \in SUBSET Layers
    BY <1>1, <1>2
  <2>3. aborted \in BOOLEAN
    <3>1. d.object_fetch_aborted \in BOOLEAN
      BY DEF Drawing
    <3> QED
      BY <3>1, Zenon
  <2> HIDE DEF u, val, aborted
  <2>4. u = z
    BY <2>1 DEF Drawing
  <2>5. y \in Drawing
    BY <2>2, ZenonT(60) DEF Drawing
  <2>6. z \in Drawing
    <3> HIDE DEF y
    <3> QED BY <2>3, <2>5, ZenonT(60) DEF Drawing
  <2>7. /\ SameColumn(d, u) /\ SameGround(d, u)
        /\ u.scx_low = d.scx_low /\ u.mode3_startup_dots = d.mode3_startup_dots
        /\ u.line_objects = d.line_objects /\ u.obj_fifo = d.obj_fifo /\ u.fetched = d.fetched
        /\ u.object_fetch_step = d.object_fetch_step
        /\ u.object_fetch_index = d.object_fetch_index
    BY <2>1 DEF Drawing, SameColumn, SameGround
  <2> HIDE DEF z
  <2>8. Written(d, u)
    BY <2>4, <2>6, <2>7, Zenon DEF Written
  <2> QED
    BY <2>8 DEF u
<1>3. CASE w.register = "wx"
  <2> DEFINE yes == TRUE
             y == [d EXCEPT !.wx = val]
             z == [y EXCEPT !.wx_just_changed = yes]
  <2>1. u = [d EXCEPT !.wx = val, !.wx_just_changed = yes]
    BY <1>3 DEF RegistersWritten
  <2>2. val \in 0 .. 255
    BY <1>1, <1>3
  <2>3. yes \in BOOLEAN
    OBVIOUS
  <2> HIDE DEF u, val, yes
  <2>4. u = z
    BY <2>1 DEF Drawing
  <2>5. y \in Drawing
    BY <2>2, ZenonT(60) DEF Drawing
  <2>6. z \in Drawing
    <3> HIDE DEF y
    <3> QED BY <2>3, <2>5, ZenonT(60) DEF Drawing
  <2>7. /\ SameColumn(d, u) /\ SameGround(d, u)
        /\ u.scx_low = d.scx_low /\ u.mode3_startup_dots = d.mode3_startup_dots
        /\ u.line_objects = d.line_objects /\ u.obj_fifo = d.obj_fifo /\ u.fetched = d.fetched
        /\ u.object_fetch_step = d.object_fetch_step
        /\ u.object_fetch_index = d.object_fetch_index
    BY <2>1 DEF Drawing, SameColumn, SameGround
  <2> HIDE DEF z
  <2>8. Written(d, u)
    BY <2>4, <2>6, <2>7, Zenon DEF Written
  <2> QED
    BY <2>8 DEF u
<1>4. CASE w.register \notin {"lcdc", "wx"}
  <2> DEFINE z == [d EXCEPT !.scx = val]
  <2>1. u = z
    BY <1>4 DEF RegistersWritten
  <2>2. val \in 0 .. 255
    BY <1>1, <1>4
  <2> HIDE DEF u, val
  <2>3. z \in Drawing
    BY <2>2, ZenonT(60) DEF Drawing
  <2>4. /\ SameColumn(d, u) /\ SameGround(d, u)
        /\ u.scx_low = d.scx_low /\ u.mode3_startup_dots = d.mode3_startup_dots
        /\ u.line_objects = d.line_objects /\ u.obj_fifo = d.obj_fifo /\ u.fetched = d.fetched
        /\ u.object_fetch_step = d.object_fetch_step
        /\ u.object_fetch_index = d.object_fetch_index
    BY <2>1 DEF Drawing, SameColumn, SameGround
  <2> HIDE DEF z
  <2>5. Written(d, u)
    BY <2>1, <2>3, <2>4, Zenon DEF Written
  <2> QED
    BY <2>5 DEF u
<1> QED
  BY <1>2, <1>3, <1>4

\* A write pays for the window that it may start again.
LEMMA WriteIsPaid ==
  ASSUME NEW d, NEW t \in Nat, NEW u, Counts, line \in ScanLines, Wellformed(d, t),
         Written(d, u), InBudget(d, writes.count, t, dots)
  PROVE  InBudget(u, writes.count + 1, t, dots)
<1> DEFINE n == dots
           q == Refill(d) + FetchDots(d)
           m == Misaligned(d)
           m2 == Misaligned(u)
           o == Owed(d)
           o2 == Owed(u)
           w == Windows(d, writes.count)
           w2 == Windows(u, writes.count + 1)
           c == Cardinality(d.fetched)
           b == Pops(d)
           a == 4 - d.mode3_startup_dots
           k == writes.count
<1>1. d \in Drawing /\ u \in Drawing
  BY DEF Wellformed, Written
<1>2. Numbers(d) /\ Numbers(u)
  BY <1>1, DrawingIsNumbers
<1>3. /\ u.pixel_position = d.pixel_position /\ u.screen_x = d.screen_x
      /\ u.bg_fifo = d.bg_fifo /\ u.fetcher = d.fetcher /\ u.window_active = d.window_active
      /\ u.scx_low = d.scx_low /\ u.mode3_startup_dots = d.mode3_startup_dots
      /\ u.fetched = d.fetched /\ u.object_fetch_step = d.object_fetch_step
  BY DEF Written, SameColumn, SameGround
<1>4. Refill(u) + FetchDots(u) = q /\ Pops(u) = b
  <2>1. Refill(u) = Refill(d) /\ FetchDots(u) = FetchDots(d) /\ Pops(u) = Pops(d)
    BY <1>3, Zenon DEF Refill, FetchDots, Pops
  <2> QED
    BY <2>1, Zenon
<1>5. q \in Nat /\ m \in {0, 5} /\ m2 \in {0, 5} /\ a \in Int /\ b \in Int /\ n \in Nat /\ k \in Nat
  <2>1. m \in {0, 5} /\ m2 \in {0, 5} /\ b \in Int
    BY <1>2 DEF Numbers
  <2>2. a \in Int
    <3>1. a \in 0 .. 4
      BY <1>2 DEF Numbers
    <3> HIDE DEF a
    <3> QED BY <3>1
  <2>3. q \in Nat
    <3> DEFINE r == Refill(d)
               f == FetchDots(d)
    <3>1. r \in 0 .. 6 /\ f \in 0 .. 11
      BY <1>2 DEF Numbers
    <3> HIDE DEF r, f
    <3>2. r + f \in Nat
      BY <3>1
    <3> QED
      BY <3>2 DEF r, f
  <2>4. n \in Nat /\ k \in Nat
    BY DEF Counts
  <2> QED
    BY <2>1, <2>2, <2>3, <2>4
<1>6. c \in Nat
  BY LineIsState, FetchesAreFinite DEF Wellformed
<1>7. o = q + m \/ o = q + 0
  BY Zenon DEF Owed
<1>8. o2 = q + m2 \/ o2 = q + 0
  BY <1>4, Zenon DEF Owed
<1>9. w2 \in Nat /\ w \in Nat /\ w2 >= w /\ (m2 = 5 => w2 >= w + 1)
  <2>1. w \in {k, k + 1} /\ w2 \in {k + 1, (k + 1) + 1}
    BY DEF Windows
  <2>2. ASSUME m2 = 5 PROVE w = k
    <3>1. MayBegin(u)
      BY <2>2 DEF Misaligned, MayTrigger
    <3>2. ~d.window_active
      BY <1>3, <3>1 DEF MayBegin
    <3> QED
      BY <3>2 DEF Windows
  <2> HIDE DEF w, w2, k, m2
  <2> QED
    BY <1>5, <2>1, <2>2
<1>10. Paid(d, k) = ((a + b) + 7 * w) + 11 * c
  BY Zenon DEF Paid
<1>11. Paid(u, k + 1) = ((a + b) + 7 * w2) + 11 * c
  BY <1>3, <1>4, Zenon DEF Paid
<1>12. (n + t) + o <= ((a + b) + 7 * w) + 11 * c /\ a + b <= n
  BY <1>10, Zenon DEF InBudget
<1>13. a + b <= n /\ (4 - u.mode3_startup_dots) + Pops(u) = a + b
  BY <1>3, <1>4, <1>12, Zenon
<1> HIDE DEF n, q, m, m2, o, o2, w, w2, c, b, a
<1>14. (n + t) + o2 <= ((a + b) + 7 * w2) + 11 * c
  BY <1>5, <1>6, <1>7, <1>8, <1>9, <1>12
<1>15. (n + t) + o2 <= Paid(u, k + 1)
  BY <1>11, <1>14, Zenon
<1> QED
  BY <1>13, <1>15, Zenon DEF InBudget, n, o2

\* A write keeps the invariant.
LEMMA WriteDraws ==
  ASSUME DrawInv, NEW w \in Writes, Write(w)
  PROVE  DrawInv'
<1> DEFINE d == draw
           u == RegistersWritten(draw, w)
           t == writes.taken
           k == writes.count
<1>1. /\ draw' = u /\ dots' = dots /\ line' = line /\ picture' = picture
      /\ writes' = [writes EXCEPT !.count = k + 1]
  BY DEF Write, RegistersWritten
<1>2. /\ Counts /\ line \in ScanLines /\ t \in Nat /\ Wellformed(d, t) /\ d \in Drawing
      /\ FifoInPlace(d) /\ InBudget(d, k, t, dots) /\ TakenIsWritten(d, k, t)
  BY DrawInvCounts
<1>3. writes \in [count : Nat, taken : Nat] /\ DOMAIN picture = 0 .. Width - 1
      /\ ShownInPlace(picture, d.screen_x, t) /\ dots \in Nat
  BY DEF DrawInv
<1>4. Written(d, u)
  BY <1>2, WriteIsWritten
<1> HIDE DEF u
<1>5. writes'.count = k + 1 /\ writes'.taken = t /\ writes' \in [count : Nat, taken : Nat]
  BY <1>1, <1>3
<1>6. InBudget(u, k + 1, t, dots)
  BY <1>2, <1>4, WriteIsPaid
<1>7. TakenIsWritten(u, k + 1, t)
  <2>1. t <= k /\ k \in Nat
    BY <1>2 DEF TakenIsWritten, Counts
  <2>2. t <= k + 1 /\ t # k + 1
    <3> HIDE DEF t, k
    <3> QED BY <1>2, <2>1
  <2> QED
    BY <2>2, Zenon DEF TakenIsWritten
<1>8. /\ SameColumn(d, u) /\ SameGround(d, u) /\ u \in Drawing
      /\ u.scx_low = d.scx_low /\ u.mode3_startup_dots = d.mode3_startup_dots
      /\ u.line_objects = d.line_objects /\ u.obj_fifo = d.obj_fifo /\ u.fetched = d.fetched
      /\ u.object_fetch_step = d.object_fetch_step
      /\ u.object_fetch_index = d.object_fetch_index
  BY <1>4 DEF Written
<1>9. u.pixel_position = d.pixel_position /\ u.screen_x = d.screen_x /\ u.finished = d.finished
  BY <1>8 DEF SameColumn
<1>10. FifoInPlace(u)
  BY <1>2, <1>8, <1>9, FifoStaysInPlace
<1>11. Wellformed(u, t)
  <2>1. FetcherIsInTime(u)
    BY <1>2, <1>8, Zenon DEF Wellformed, FetcherIsInTime, SameGround
  <2>2. InPlace(u, t)
    BY <1>2, <1>8, <1>9, Zenon DEF Wellformed, InPlace
  <2>3. /\ u.scx_low = line.scx % 8 /\ u.line_objects = ScannedObjects(line)
        /\ u.fetched \subseteq u.line_objects
    BY <1>2, <1>8, Zenon DEF Wellformed
  <2>4. ObjectMatch(u) = ObjectMatch(d)
    BY <1>9, Zenon DEF ObjectMatch
  <2>5. u.object_fetch_step # "None" =>
          /\ u.object_fetch_index \in u.line_objects
          /\ line.oam[u.object_fetch_index].x = ObjectMatch(u)
    BY <1>2, <1>8, <2>4, Zenon DEF Wellformed
  <2>6. /\ u.mode3_startup_dots > 0 => u.pixel_position = -16
        /\ u.screen_x \in 0 .. Width /\ u.finished = (u.screen_x = Width)
    BY <1>2, <1>8, <1>9, Zenon DEF Wellformed
  <2> QED
    BY <1>8, <2>1, <2>2, <2>3, <2>5, <2>6, Zenon DEF Wellformed
<1>12. ShownInPlace(picture, u.screen_x, t)
  BY <1>3, <1>9
<1>13. /\ Wellformed(u, writes'.taken) /\ InBudget(u, writes'.count, writes'.taken, dots')
       /\ TakenIsWritten(u, writes'.count, writes'.taken)
       /\ ShownInPlace(picture', u.screen_x, writes'.taken) /\ DOMAIN picture' = 0 .. Width - 1
       /\ dots' \in Nat
  BY <1>1, <1>3, <1>5, <1>6, <1>7, <1>11, <1>12, Zenon
<1> QED
  BY <1>1, <1>2, <1>5, <1>10, <1>13, NextIsInvariant, Zenon

\* The inductive invariant of the line that is drawn.
THEOREM LineIsWellformed == DrawSpec => []DrawInv
<1>1. DrawInit => DrawInv
  BY LineBegins
<1>2. DrawInv /\ [DrawNext]_draw_vars => DrawInv'
  <2> SUFFICES ASSUME DrawInv, [DrawNext]_draw_vars PROVE DrawInv'
    OBVIOUS
  <2>1. CASE Startup
    BY <2>1, StartupDotDraws
  <2>2. CASE WindowDot
    BY <2>2, WindowDotDraws
  <2>3. CASE DrawDot
    BY <2>3, DrawDotDraws
  <2>4. CASE \E w \in Writes : Write(w)
    BY <2>4, WriteDraws
  <2>5. CASE UNCHANGED draw_vars
    <3>1. /\ draw' = draw /\ dots' = dots /\ line' = line /\ picture' = picture
          /\ writes' = writes
      BY <2>5 DEF draw_vars
    <3> QED
      BY <3>1, NextIsInvariant, Zenon DEF DrawInv
  <2> QED
    BY <2>1, <2>2, <2>3, <2>4, <2>5 DEF DrawNext
<1> QED
  BY <1>1, <1>2, PTL DEF DrawSpec

\* Mode 3 lasts 12 dots more than the line is wide at least, and at most one more
\* for each dropped pixel, 7 for the window and for each write and 11 for each
\* object of the line.
THEOREM LineEndsInTime == DrawSpec => []DrawingIsBounded
<1> SUFFICES ASSUME DrawInv PROVE DrawingIsBounded
  BY LineIsWellformed, PTL
<1> DEFINE d == draw
           n == dots
           t == writes.taken
           k == writes.count
           o == Owed(d)
           w == Windows(d, writes.count)
           c == Cardinality(d.fetched)
           C == Cardinality(d.line_objects)
           a == 4 - d.mode3_startup_dots
           b == Pops(d)
           l == d.scx_low
           p == d.pixel_position
           x == d.screen_x
<1>1. /\ Counts /\ line \in ScanLines /\ t \in Nat /\ Wellformed(d, t) /\ d \in Drawing
      /\ InBudget(d, k, t, n) /\ TakenIsWritten(d, k, t)
  BY DrawInvCounts
<1>2. Numbers(d) /\ Width \in Nat /\ Width > 8 /\ line \in LineState
  BY <1>1, DrawingIsNumbers, LineIsState
<1>3. a \in 0 .. 4 /\ b \in Int /\ l \in 0 .. 7 /\ p \in Int /\ x \in 0 .. Width
      /\ n \in Nat /\ k \in Nat
  BY <1>1, <1>2 DEF Numbers, Wellformed, Counts
<1>4. o \in Nat
  <2> DEFINE r == Refill(d)
             f == FetchDots(d)
             m == Misaligned(d)
  <2>1. r \in 0 .. 6 /\ f \in 0 .. 11 /\ m \in {0, 5}
    BY <1>2 DEF Numbers
  <2>2. o = (r + f) + m \/ o = (r + f) + 0
    BY Zenon DEF Owed
  <2> HIDE DEF r, f, m, o
  <2>3. o \in Nat
    BY <2>1, <2>2
  <2> QED
    BY <2>3
<1>5. c \in Nat /\ C \in Nat /\ C >= c
  <2>1. IsFiniteSet(d.line_objects)
    BY <1>1, <1>2, ObjectsAreFinite DEF Wellformed
  <2>2. d.fetched \subseteq d.line_objects
    BY <1>1 DEF Wellformed
  <2>3. C >= c
    BY <2>1, <2>2, NoLess
  <2>4. c \in Nat
    BY <1>1, <1>2, FetchesAreFinite DEF Wellformed
  <2>5. C \in Nat
    BY <2>1, FS_CardinalityType
  <2> QED
    BY <2>3, <2>4, <2>5
<1>6. w \in {k, k + 1}
  BY DEF Windows
<1>7. (n + t) + o <= ((a + b) + 7 * w) + 11 * c /\ a + b <= n
  BY <1>1, Zenon DEF InBudget, Paid
<1>8. b = (IF p < -8 THEN p + 16 ELSE (l + p) + 8)
  BY DEF Pops
<1>9. \/ p \in -16 .. -9 /\ p + 16 <= l /\ x = 0 /\ t = 0
      \/ p \in -7 .. -1 /\ x = 0 /\ t = 0
      \/ p >= 0 /\ x + t = p
  BY <1>1, Zenon DEF Wellformed, InPlace
<1>10. (x = Width <=> d.finished) /\ (d.mode3_startup_dots > 0 => p = -16)
  BY <1>1 DEF Wellformed
<1>11. d.mode3_startup_dots \in 0 .. 4 /\ (p # -16 => a = 4)
  <2>1. d.mode3_startup_dots \in 0 .. 4
    BY <1>1 DEF Drawing
  <2> DEFINE s == d.mode3_startup_dots
  <2>2. s = 0 => a = 4
    OBVIOUS
  <2>3. s \in 0 .. 4 /\ (s > 0 => p = -16)
    BY <1>10, <2>1
  <2> HIDE DEF s, p, a
  <2>4. p # -16 => s = 0
    BY <2>3
  <2> QED
    BY <2>1, <2>2, <2>4
<1>12. t <= k
  BY <1>1 DEF TakenIsWritten
<1>13. n <= 12 + Width + l + 7 * (1 + k) + 11 * C
  <2> HIDE DEF n, t, k, o, w, c, C, a, b, l, p, x
  <2>1. b <= ((l + Width) + t) + 8
    BY <1>1, <1>2, <1>3, <1>8, <1>9
  <2>2. n <= (((4 + ((l + Width) + 8)) + 7 * (k + 1)) + 11 * C)
    BY <1>1, <1>2, <1>3, <1>4, <1>5, <1>6, <1>7, <2>1
  <2> QED
    BY <1>2, <1>3, <1>5, <2>2
<1>14. ASSUME d.finished PROVE n >= 12 + Width
  <2>1. x = Width
    BY <1>10, <1>14
  <2> HIDE DEF n, t, k, o, w, c, C, a, b, l, p, x
  <2>2. p >= 0 /\ x + t = p /\ a = 4
    BY <1>1, <1>2, <1>9, <1>11, <2>1
  <2>3. b = (l + p) + 8
    BY <1>3, <1>8, <2>2
  <2> QED
    BY <1>1, <1>2, <1>3, <1>7, <2>1, <2>2, <2>3
<1> QED
  BY <1>12, <1>13, <1>14 DEF DrawingIsBounded

\* Whatever is written during the line, the pixels of an object stay in its columns.
THEOREM ObjectsKeepTheirPlaces == DrawSpec => []ObjectsStayInPlace
<1> SUFFICES ASSUME DrawInv PROVE ObjectsStayInPlace
  BY LineIsWellformed, PTL
<1>1. ShownInPlace(picture, draw.screen_x, writes.taken)
  BY DEF DrawInv
<1> QED
  BY <1>1, Zenon DEF ShownInPlace, ObjectsStayInPlace

-----------------------------------------------------------------------------
(* The picture of a line that the program leaves alone. *)

\* Every member that the program writes is as when the line began.
Untouched(d) ==
  /\ d.lcdc = line.lcdc /\ d.wx = line.wx /\ d.scx = line.scx /\ d.scx_low = Below
  /\ d.object_fetch_aborted = FALSE /\ d.wx_just_changed = FALSE

\* Pixels that have left when the window begins.
WindowStart == IF line.wx = 0 /\ Below # 0 THEN 0 ELSE (Below + line.wx) + 1

\* Pixels of tiles that have left: the blank pixel of a window that is off does
\* not count.
Past(d) == IF d.pixel_position > BlankColumn THEN Pops(d) - 1 ELSE Pops(d)

\* Pixels of tiles in the FIFO.
Stock(d) == IF d.pixel_position = BlankColumn THEN 0 ELSE Len(d.bg_fifo)

\* The column of the map that the pixel would have that left first.
Origin(d) == IF d.window_active THEN -WindowStart ELSE (line.scx - Below) - 8

\* The column of the first pixel that is not yet in the FIFO.
Coming(d) == (Past(d) + Stock(d)) + Origin(d)

\* The pixel that leaves after k others.
TilePixel(d, k) ==
  IF ~d.window_active /\ k < 8 THEN Blank
  ELSE [layer |-> IF d.window_active THEN "window" ELSE "bg", column |-> (k + Origin(d)) % 256]

\* What the FIFO holds: a part of a tile, or the blank pixel.
GroundFifo(d) ==
  IF d.pixel_position = BlankColumn
  THEN d.bg_fifo = <<>> \/ (d.bg_fifo = <<Blank>> /\ d.fetcher.step = 6)
  ELSE /\ Len(d.bg_fifo) <= 8
       /\ \A i \in 1 .. Len(d.bg_fifo) : d.bg_fifo[i] = TilePixel(d, (Past(d) + i) - 1)

\* What the fetcher has found: the tile that comes next.
GroundFetcher(d) ==
  /\ Coming(d) % 8 = 0 /\ (~d.window_active => Past(d) + Stock(d) >= 8)
  /\ d.fetcher.step >= 1 => 8 * d.fetcher.tile = Coming(d) % 256
  /\ d.fetcher.window = d.window_active
  /\ d.window_active =>
       8 * d.fetcher.x = (IF d.fetcher.step = 6 THEN Coming(d) + 8 ELSE Coming(d)) % 256

\* A tile is looked for in the dot after the one before came, or after the window
\* began.
Looks(d, fewest) ==
  d.fetcher.step = 0 => Stock(d) \in fewest .. 8 \/ (d.window_active /\ Stock(d) = 0)

\* A window that is not there has not been passed.
WindowToCome(d) ==
  ~d.window_active /\ Enabled /\ line.wx < Width + 6 =>
    IF line.wx # 0 THEN d.pixel_position <= line.wx - 7
    ELSE d.pixel_position = -16 \/ (Below = 0 /\ d.pixel_position = -7)

\* The rows of the window that are counted.
RowsFollow(d) ==
  /\ d.window_active => /\ Enabled /\ line.wx < Width + 6 /\ Pops(d) >= WindowStart
                        /\ d.window_triggered /\ d.window_line = 0
  /\ ~d.window_active =>
       \/ ~d.window_triggered /\ d.window_line = 0
       \/ /\ d.window_triggered /\ d.window_line = 1
          /\ Enabled /\ line.wx = Width + 6 /\ d.pixel_position = Width - 1

\* Fetcher, FIFO and window of a line that goes on.
GroundFollows(d, fewest) ==
  /\ GroundFifo(d) /\ GroundFetcher(d) /\ Looks(d, fewest)
  /\ RowsFollow(d) /\ WindowToCome(d)

\* The window that a column belongs to is there, and counted.
Decided(d) ==
  /\ ~d.window_active /\ Enabled /\ line.wx < Width + 6 => ~WindowReached(d)
  /\ Enabled /\ line.wx = Width + 6 /\ d.pixel_position = Width - 1 => d.window_triggered

\* The object in front of a column, of those in a set.
Opaque(i, n) == n - (line.oam[i].x - 8) \in line.oam[i].opaque

Before(i, j) ==
  line.oam[i].x < line.oam[j].x \/ (line.oam[i].x = line.oam[j].x /\ i <= j)

Front(E, n, e) ==
  \/ e = Clear /\ \A i \in E : ~Opaque(i, n)
  \/ /\ e.oam \in E /\ Opaque(e.oam, n) /\ e.pixel = n - (line.oam[e.oam].x - 8)
     /\ \A j \in E : Opaque(j, n) => Before(e.oam, j)

\* The objects whose pixels are in the FIFO or have left it.
Laid(d) ==
  IF d.object_fetch_step = "None" THEN d.fetched ELSE d.fetched \ {d.object_fetch_index}

ObjectAt(d, i) == IF i <= Len(d.obj_fifo) THEN d.obj_fifo[i] ELSE Clear

\* Every pixel of the object FIFO is the one in front, and none is missing.
FifoFollows(d) ==
  /\ Len(d.obj_fifo) <= 16
  /\ \A i \in Nat : i >= 1 => Front(Laid(d), (d.pixel_position + i) - 1, ObjectAt(d, i))

\* The objects that the line has passed are fetched, and no others.
FetchesFollow(d) ==
  /\ "objects" \notin d.lcdc \/ d.pixel_position < -8 =>
       d.fetched = {} /\ d.obj_fifo = <<>> /\ d.object_fetch_step = "None"
  /\ "objects" \in d.lcdc =>
       \A i \in d.line_objects :
         line.oam[i].x < Width + 8 /\ line.oam[i].x < ObjectMatch(d) => i \in d.fetched
  /\ \A i \in d.fetched : line.oam[i].x <= ObjectMatch(d)
  /\ d.object_fetch_step # "None" => d.object_fetch_index \in d.fetched

ObjectsFollow(d) == FifoFollows(d) /\ FetchesFollow(d)

PictureFollows(p, x) == \A n \in 0 .. x - 1 : p[n] = Reference(n)

Follows(d) ==
  IF d.finished THEN d.window_line = RowsOfWindow ELSE GroundFollows(d, 8) /\ ObjectsFollow(d)

\* The inductive invariant, beside DrawInv.
PictureInv ==
  writes.count = 0 /\ AtZero = {} =>
    Untouched(draw) /\ PictureFollows(picture, draw.screen_x) /\ Follows(draw)

-----------------------------------------------------------------------------
(* The rest of what the member functions do. *)

\* The rows that the window has counted.
SameRows(d, u) == u.window_triggered = d.window_triggered /\ u.window_line = d.window_line

\* try_push_bg_pixels, member by member.
PixelsTold(d, u) ==
  /\ SameRows(d, u) /\ u.window_active = d.window_active
  /\ u.fetcher.window = d.fetcher.window /\ u.fetcher.x = d.fetcher.x
  /\ u.fetcher.tile = d.fetcher.tile
  /\ d.bg_fifo # <<>> => u.bg_fifo = d.bg_fifo /\ u.fetcher.step = d.fetcher.step
  /\ d.bg_fifo = <<>> /\ LeavesBlankPixel(d) =>
       u.bg_fifo = <<Blank>> /\ u.fetcher.step = d.fetcher.step
  /\ d.bg_fifo = <<>> /\ ~LeavesBlankPixel(d) =>
       u.bg_fifo = FetchedPixels(d.fetcher) /\ u.fetcher.step = 0

\* It does that.
LEMMA PixelsAreTold ==
  ASSUME NEW d \in Drawing
  PROVE  PixelsTold(d, TryPushBgPixels(d))
<1> DEFINE u == TryPushBgPixels(d)
<1>1. CASE d.bg_fifo # <<>>
  <2>1. u = d
    BY <1>1 DEF TryPushBgPixels
  <2> QED
    BY <1>1, <2>1 DEF PixelsTold, SameRows
<1>2. CASE d.bg_fifo = <<>> /\ LeavesBlankPixel(d)
  <2>1. u = [d EXCEPT !.bg_fifo = <<Blank>>]
    BY <1>2 DEF TryPushBgPixels
  <2> DEFINE b == <<Blank>>
  <2>2. u = [d EXCEPT !.bg_fifo = b]
    BY <2>1
  <2> HIDE DEF b, u
  <2>3. /\ u.bg_fifo = b /\ u.fetcher = d.fetcher /\ u.window_active = d.window_active
        /\ u.window_triggered = d.window_triggered /\ u.window_line = d.window_line
    BY <2>2 DEF Drawing
  <2>4. u.bg_fifo = <<Blank>>
    BY <2>3 DEF b
  <2>5. PixelsTold(d, u)
    BY <1>2, <2>3, <2>4, Zenon DEF PixelsTold, SameRows
  <2> QED
    BY <2>5 DEF u
<1>3. CASE d.bg_fifo = <<>> /\ ~LeavesBlankPixel(d)
  <2> DEFINE b == FetchedPixels(d.fetcher)
             f == [d.fetcher EXCEPT !.step = 0]
  <2>1. u = [d EXCEPT !.bg_fifo = b, !.fetcher = f]
    BY <1>3 DEF TryPushBgPixels
  <2>2. /\ f.step = 0 /\ f.window = d.fetcher.window /\ f.x = d.fetcher.x
        /\ f.tile = d.fetcher.tile
    BY DEF Drawing, Fetcher
  <2> HIDE DEF b, f, u
  <2>3. /\ u.bg_fifo = b /\ u.fetcher = f /\ u.window_active = d.window_active
        /\ u.window_triggered = d.window_triggered /\ u.window_line = d.window_line
    BY <2>1 DEF Drawing
  <2>4. u.bg_fifo = FetchedPixels(d.fetcher)
    BY <2>3 DEF b
  <2>5. PixelsTold(d, u)
    BY <1>3, <2>2, <2>3, <2>4, Zenon DEF PixelsTold, SameRows
  <2> QED
    BY <2>5 DEF u
<1> QED
  BY <1>1, <1>2, <1>3

\* The fetcher fetches for the window as long as the window is there.
Steady(d) ==
  d.fetcher.window = d.window_active /\ (d.window_active => WindowEnabled(d))

\* advance_pixel_fetcher, member by member.
FetcherTold(d, u) ==
  /\ SameRows(d, u) /\ u.window_active = d.window_active
  /\ u.fetcher.window = d.fetcher.window
  /\ u.fetcher.tile = IF d.fetcher.step # 0 THEN d.fetcher.tile
                      ELSE IF d.window_active THEN d.fetcher.x ELSE TileOfBackground(d)
  /\ u.fetcher.x = IF d.fetcher.step = 5 /\ d.window_active
                   THEN (d.fetcher.x + 1) % MapTiles ELSE d.fetcher.x
  /\ d.fetcher.step < 5 => u.bg_fifo = d.bg_fifo /\ u.fetcher.step = d.fetcher.step + 1
  /\ d.fetcher.step >= 5 /\ d.bg_fifo # <<>> => u.bg_fifo = d.bg_fifo /\ u.fetcher.step = 6
  /\ d.fetcher.step >= 5 /\ d.bg_fifo = <<>> /\ LeavesBlankPixel(d) =>
       u.bg_fifo = <<Blank>> /\ u.fetcher.step = 6
  /\ d.fetcher.step >= 5 /\ d.bg_fifo = <<>> /\ ~LeavesBlankPixel(d) =>
       u.bg_fifo = FetchedPixels(d.fetcher) /\ u.fetcher.step = 0

\* It does that.
LEMMA FetcherIsTold ==
  ASSUME NEW d \in Drawing, Steady(d)
  PROVE  FetcherTold(d, AdvancePixelFetcher(d))
<1> DEFINE u == AdvancePixelFetcher(d)
<1>0. d.fetcher \in Fetcher
  BY DEF Drawing
<1>1. /\ d.fetcher \in Fetcher /\ d.fetcher.step \in 0 .. 6 /\ d.fetcher.window \in BOOLEAN
      /\ d.fetcher.x \in Int /\ d.window_active \in BOOLEAN
      /\ d.fetcher.window = d.window_active
  BY DEF Drawing, Fetcher, Steady
<1>2. CASE d.fetcher.step = 0
  <2> DEFINE window == d.fetcher.window /\ WindowEnabled(d)
             tile == IF window THEN d.fetcher.x ELSE TileOfBackground(d)
             active == d.window_active /\ (d.fetcher.window => window)
             f == [d.fetcher EXCEPT !.step = 1, !.window = window, !.tile = tile]
  <2>1. u = [d EXCEPT !.window_active = active, !.fetcher = f]
    BY <1>2 DEF AdvancePixelFetcher
  <2>2. window = d.window_active
    BY <1>1 DEF Steady
  <2>3. active = d.window_active
    BY <1>1, <2>2
  <2>4. tile = IF d.window_active THEN d.fetcher.x ELSE TileOfBackground(d)
    BY <2>2
  <2> HIDE DEF window, tile, active
  <2>5. f.step = 1 /\ f.window = window /\ f.tile = tile /\ f.x = d.fetcher.x
    BY <1>1 DEF Fetcher
  <2> HIDE DEF f, u
  <2>6. /\ u.bg_fifo = d.bg_fifo /\ u.fetcher = f /\ u.window_active = active
        /\ u.window_triggered = d.window_triggered /\ u.window_line = d.window_line
    BY <2>1 DEF Drawing
  <2>7. FetcherTold(d, u)
    BY <1>1, <1>2, <2>2, <2>3, <2>4, <2>5, <2>6 DEF FetcherTold, SameRows
  <2> QED
    BY <2>7 DEF u
<1>3. CASE d.fetcher.step \in 1 .. 4
  <2> DEFINE s == d.fetcher.step + 1
             f == [d.fetcher EXCEPT !.step = s]
  <2>1. u = [d EXCEPT !.fetcher = f]
    BY <1>3 DEF AdvancePixelFetcher, Drawing
  <2>2. f.step = s /\ f.window = d.fetcher.window /\ f.tile = d.fetcher.tile /\ f.x = d.fetcher.x
    BY <1>1 DEF Fetcher
  <2> HIDE DEF f, u
  <2>3. /\ u.bg_fifo = d.bg_fifo /\ u.fetcher = f /\ u.window_active = d.window_active
        /\ u.window_triggered = d.window_triggered /\ u.window_line = d.window_line
    BY <2>1 DEF Drawing
  <2>4. FetcherTold(d, u)
    BY <1>1, <1>3, <2>2, <2>3 DEF FetcherTold, SameRows
  <2> QED
    BY <2>4 DEF u
<1>4. CASE d.fetcher.step = 5
  <2> DEFINE x == IF d.fetcher.window THEN (d.fetcher.x + 1) % MapTiles ELSE d.fetcher.x
             f == [d.fetcher EXCEPT !.step = 6, !.x = x]
             v == [d EXCEPT !.fetcher = f]
  <2>1. u = TryPushBgPixels(v)
    <3>1. u = TryPushBgPixels([d EXCEPT !.fetcher.step = 6, !.fetcher.x = x])
      BY <1>4 DEF AdvancePixelFetcher
    <3>2. [d EXCEPT !.fetcher.step = 6, !.fetcher.x = x] = v
      BY <1>1 DEF Drawing, Fetcher
    <3> QED
      BY <3>1, <3>2
  <2>2. x \in Int
    BY <1>1 DEF MapTiles
  <2>3. x = IF d.window_active THEN (d.fetcher.x + 1) % MapTiles ELSE d.fetcher.x
    BY <1>1
  <2> HIDE DEF x
  <2>4. f \in Fetcher
    <3> DEFINE f1 == [d.fetcher EXCEPT !.step = 6]
               f2 == [f1 EXCEPT !.x = x]
    <3>1. f1 \in Fetcher
      BY <1>0 DEF Fetcher
    <3>2. f = f2
      BY <1>0 DEF Fetcher
    <3> HIDE DEF f1
    <3>3. f2 \in Fetcher
      BY <3>1, <2>2 DEF Fetcher
    <3> QED
      BY <3>2, <3>3
  <2>5. f.step = 6 /\ f.window = d.fetcher.window /\ f.tile = d.fetcher.tile /\ f.x = x
    BY <1>1 DEF Fetcher
  <2> HIDE DEF f
  <2>6. v \in Drawing
    BY <2>4, ZenonT(60) DEF Drawing
  <2>7. /\ v.bg_fifo = d.bg_fifo /\ v.fetcher = f /\ v.window_active = d.window_active
        /\ v.window_triggered = d.window_triggered /\ v.window_line = d.window_line
        /\ v.pixel_position = d.pixel_position /\ v.lcdc = d.lcdc /\ v.wx = d.wx
    BY DEF Drawing
  <2> HIDE DEF v, u
  <2>8. LeavesBlankPixel(v) <=> LeavesBlankPixel(d)
    BY <2>7 DEF LeavesBlankPixel
  <2>9. FetchedPixels(v.fetcher) = FetchedPixels(d.fetcher)
    BY <2>5, <2>7 DEF FetchedPixels
  <2>10. PixelsTold(v, u)
    BY <2>1, <2>6, PixelsAreTold
  <2>11. /\ SameRows(d, u) /\ u.window_active = d.window_active
         /\ u.fetcher.window = d.fetcher.window /\ u.fetcher.tile = d.fetcher.tile
         /\ u.fetcher.x = x
    BY <2>5, <2>7, <2>10, Zenon DEF PixelsTold, SameRows
  <2>12. /\ d.bg_fifo # <<>> => u.bg_fifo = d.bg_fifo /\ u.fetcher.step = 6
         /\ d.bg_fifo = <<>> /\ LeavesBlankPixel(d) => u.bg_fifo = <<Blank>> /\ u.fetcher.step = 6
         /\ d.bg_fifo = <<>> /\ ~LeavesBlankPixel(d) =>
              u.bg_fifo = FetchedPixels(d.fetcher) /\ u.fetcher.step = 0
    BY <2>5, <2>7, <2>8, <2>9, <2>10, Zenon DEF PixelsTold
  <2>13. FetcherTold(d, u)
    BY <1>4, <2>3, <2>11, <2>12 DEF FetcherTold
  <2> QED
    BY <2>13 DEF u
<1>5. CASE d.fetcher.step = 6
  <2>1. u = TryPushBgPixels(d)
    BY <1>5 DEF AdvancePixelFetcher
  <2> HIDE DEF u
  <2>2. PixelsTold(d, u)
    BY <2>1, PixelsAreTold
  <2>3. /\ SameRows(d, u) /\ u.window_active = d.window_active
        /\ u.fetcher.window = d.fetcher.window /\ u.fetcher.tile = d.fetcher.tile
        /\ u.fetcher.x = d.fetcher.x
    BY <2>2 DEF PixelsTold
  <2>4. /\ d.bg_fifo # <<>> => u.bg_fifo = d.bg_fifo /\ u.fetcher.step = 6
        /\ d.bg_fifo = <<>> /\ LeavesBlankPixel(d) => u.bg_fifo = <<Blank>> /\ u.fetcher.step = 6
        /\ d.bg_fifo = <<>> /\ ~LeavesBlankPixel(d) =>
             u.bg_fifo = FetchedPixels(d.fetcher) /\ u.fetcher.step = 0
    BY <1>5, <2>2, Zenon DEF PixelsTold
  <2>5. FetcherTold(d, u)
    BY <1>5, <2>3, <2>4 DEF FetcherTold
  <2> QED
    BY <2>5 DEF u
<1> QED
  BY <1>1, <1>2, <1>3, <1>4, <1>5

\* A window that lies behind the last column.
WindowUnseen(d) ==
  /\ ~d.window_triggered /\ WindowEnabled(d)
  /\ d.wx = Width + 6 /\ d.pixel_position = Width - 1

\* What the window's part of a dot does to the fetcher and to the rows.
WindowTold(d, u) ==
  /\ Triggers(d) =>
       /\ u.fetcher.window = TRUE /\ u.fetcher.x = 0
       /\ u.window_triggered = TRUE
       /\ u.window_line = IF d.window_triggered THEN d.window_line + 1 ELSE d.window_line
  /\ ~Triggers(d) /\ WindowUnseen(d) =>
       u.window_triggered = TRUE /\ u.window_line = d.window_line + 1
  /\ ~Triggers(d) /\ ~WindowUnseen(d) => SameRows(d, u)

\* It does that.
LEMMA WindowIsTold ==
  ASSUME NEW d \in Drawing
  PROVE  WindowTold(d, TickWindow(d))
<1> DEFINE begun == IF Triggers(d) THEN TriggerWindow(TakenBack(d)) ELSE d
           unseen == /\ ~begun.window_triggered /\ WindowEnabled(begun)
                     /\ begun.wx = Width + 6 /\ begun.pixel_position = Width - 1
           seen == begun.window_triggered \/ unseen
           rows == IF unseen THEN begun.window_line + 1 ELSE begun.window_line
           u == TickWindow(d)
<1>1. u = [begun EXCEPT !.window_triggered = seen, !.window_line = rows, !.wx_just_changed = FALSE]
  BY DEF TickWindow, TakenBack
<1>2. begun \in Drawing
  BY WindowBegins DEF WindowBegun
<1>3. d.window_triggered \in BOOLEAN
  BY DEF Drawing
<1>4. CASE Triggers(d)
  <2> DEFINE b == TakenBack(d)
             f == [FreshFetcher EXCEPT !.window = TRUE]
             n == IF b.window_triggered THEN b.window_line + 1 ELSE b.window_line
             empty == <<>>
  <2>1. /\ b.window_triggered = d.window_triggered /\ b.window_line = d.window_line
    BY DEF TakenBack, Drawing
  <2>2. n = IF d.window_triggered THEN d.window_line + 1 ELSE d.window_line
    BY <2>1
  <2>3. begun = TriggerWindow(b)
    BY <1>4
  <2>4. DOMAIN b = DOMAIN d
    BY DEF TakenBack
  <2>5. begun = [b EXCEPT !.window_line = n, !.window_triggered = TRUE,
                          !.window_active = TRUE, !.bg_fifo = empty, !.fetcher = f]
    BY <2>3 DEF TriggerWindow
  <2>6. f.window = TRUE /\ f.x = 0
    BY DEF FreshFetcher
  <2> HIDE DEF n, b, f, empty, begun
  <2>7. /\ begun.window_triggered = TRUE /\ begun.window_line = n /\ begun.fetcher = f
    BY <2>4, <2>5 DEF Drawing
  <2>8. ~unseen
    BY <2>7
  <2>9. seen = TRUE /\ rows = n
    BY <2>7, <2>8
  <2> HIDE DEF seen, rows, unseen, u
  <2>10. /\ u.window_triggered = TRUE /\ u.window_line = n /\ u.fetcher = f
    BY <1>1, <1>2, <2>7, <2>9 DEF Drawing
  <2>11. WindowTold(d, u)
    BY <1>4, <2>2, <2>6, <2>10, Zenon DEF WindowTold
  <2> QED
    BY <2>11 DEF u
<1>5. CASE ~Triggers(d)
  <2>1. begun = d
    BY <1>5
  <2>2. unseen <=> WindowUnseen(d)
    BY <2>1 DEF WindowUnseen
  <2>3. (WindowUnseen(d) => seen = TRUE) /\ (~WindowUnseen(d) => seen = d.window_triggered)
    BY <1>3, <2>1, <2>2
  <2>4. rows = IF WindowUnseen(d) THEN d.window_line + 1 ELSE d.window_line
    BY <2>1, <2>2
  <2> HIDE DEF seen, rows, unseen, u, begun
  <2>5. u.window_triggered = seen /\ u.window_line = rows
    BY <1>1, <1>2 DEF Drawing
  <2>6. WindowTold(d, u)
    BY <1>5, <2>3, <2>4, <2>5, Zenon DEF WindowTold, SameRows
  <2> QED
    BY <2>6 DEF u
<1> QED
  BY <1>4, <1>5

\* Rows are counted by the window's part and at the end of the line only.
LEMMA PixelCountsNoRow ==
  ASSUME NEW d \in Drawing
  PROVE  SameRows(d, MixAndPushPixel(d))
<1> DEFINE p == Position(d) + 1
           x == IF Position(d) < 0 THEN d.screen_x ELSE d.screen_x + 1
           b == Tail(d.bg_fifo)
           o == IF d.obj_fifo = <<>> THEN d.obj_fifo ELSE Tail(d.obj_fifo)
           u == MixAndPushPixel(d)
<1>1. CASE ~Mixes(d)
  BY <1>1 DEF MixAndPushPixel, SameRows
<1>2. CASE Mixes(d)
  <2>1. u = [d EXCEPT !.bg_fifo = b, !.obj_fifo = o, !.pixel_position = p, !.screen_x = x]
    BY <1>2 DEF MixAndPushPixel
  <2> HIDE DEF p, x, b, o, u
  <2>2. SameRows(d, u)
    BY <2>1 DEF Drawing, SameRows
  <2> QED
    BY <2>2 DEF u
<1> QED
  BY <1>1, <1>2

\* The end of the line.
LEMMA EndCountsRow ==
  ASSUME NEW d \in Drawing
  PROVE  /\ d.screen_x # Width => SameRows(d, FinishDrawing(d))
         /\ d.screen_x = Width =>
              FinishDrawing(d).window_line
                = IF d.window_triggered THEN d.window_line + 1 ELSE d.window_line
<1> DEFINE n == IF d.window_triggered THEN d.window_line + 1 ELSE d.window_line
           u == FinishDrawing(d)
<1>1. CASE d.screen_x # Width
  BY <1>1 DEF FinishDrawing, SameRows
<1>2. CASE d.screen_x = Width
  <2>1. u = [d EXCEPT !.window_line = n, !.finished = TRUE]
    BY <1>2 DEF FinishDrawing
  <2> HIDE DEF u, n
  <2>2. u.window_line = n
    BY <2>1 DEF Drawing
  <2> QED
    BY <1>2, <2>2 DEF u, n
<1> QED
  BY <1>1, <1>2

\* What overlay_object_pixels makes of the FIFO.
OverlayPixel(d, i) == d.pixel_position + i - 1 - (line.oam[d.object_fetch_index].x - 8)

OverlaidFifo(d) ==
  [i \in 1 .. 16 |->
     IF /\ OverlayPixel(d, i) \in line.oam[d.object_fetch_index].opaque
        /\ Covers(d.object_fetch_index, ObjectAt(d, i))
     THEN [oam |-> d.object_fetch_index, pixel |-> OverlayPixel(d, i)]
     ELSE ObjectAt(d, i)]

\* It does that.
LEMMA OverlayIsTold ==
  ASSUME NEW d \in Drawing
  PROVE  SameRows(d, Overlay(d)) /\ Overlay(d).obj_fifo = OverlaidFifo(d)
<1> DEFINE f == OverlaidFifo(d)
           u == Overlay(d)
<1>1. u = [d EXCEPT !.obj_fifo = f]
  <2> DEFINE oam == d.object_fetch_index
             object == line.oam[oam]
             old == [i \in 1 .. 16 |-> IF i <= Len(d.obj_fifo) THEN d.obj_fifo[i] ELSE Clear]
             pixel == [i \in 1 .. 16 |-> d.pixel_position + i - 1 - (object.x - 8)]
             g == [i \in 1 .. 16 |->
                     IF pixel[i] \in object.opaque /\ Covers(oam, old[i])
                     THEN [oam |-> oam, pixel |-> pixel[i]] ELSE old[i]]
  <2>1. u = [d EXCEPT !.obj_fifo = g]
    BY DEF Overlay
  <2>2. ASSUME NEW i \in 1 .. 16
        PROVE  g[i] = f[i]
    <3>1. pixel[i] = OverlayPixel(d, i)
      BY DEF OverlayPixel
    <3>2. old[i] = ObjectAt(d, i)
      BY SMTT(30) DEF ObjectAt
    <3>3. g[i] = IF pixel[i] \in object.opaque /\ Covers(oam, old[i])
                 THEN [oam |-> oam, pixel |-> pixel[i]] ELSE old[i]
      OBVIOUS
    <3>4. f[i] = IF OverlayPixel(d, i) \in object.opaque /\ Covers(oam, ObjectAt(d, i))
                 THEN [oam |-> oam, pixel |-> OverlayPixel(d, i)] ELSE ObjectAt(d, i)
      BY DEF OverlaidFifo
    <3> HIDE DEF g, f, pixel, old
    <3> QED
      BY <3>1, <3>2, <3>3, <3>4
  <2>3. g = f
    <3>1. g = [i \in 1 .. 16 |-> g[i]] /\ f = [i \in 1 .. 16 |-> f[i]]
      BY Zenon DEF OverlaidFifo
    <3> HIDE DEF g, f
    <3> QED
      BY <2>2, <3>1
  <2> QED
    BY <2>1, <2>3
<1> HIDE DEF f, u
<1>2. u.obj_fifo = f /\ SameRows(d, u)
  BY <1>1 DEF Drawing, SameRows
<1> QED
  BY <1>2, SMTT(30) DEF u, f

\* The end of a fetch, and that of a fetch that is no longer aborted.
LEMMA FetchEndIsTold ==
  ASSUME NEW d \in Drawing
  PROVE  SameRows(d, EndObjectFetch(d)) /\ EndObjectFetch(d).object_fetch_aborted = FALSE
<1> DEFINE u == EndObjectFetch(d)
<1>1. u = [d EXCEPT !.object_fetch_step = "None", !.object_fetch_index = 0,
                    !.object_fetch_aborted = FALSE]
  BY DEF EndObjectFetch
<1> HIDE DEF u
<1>2. SameRows(d, u) /\ u.object_fetch_aborted = FALSE
  BY <1>1 DEF Drawing, SameRows
<1> QED
  BY <1>2 DEF u

\* Objects that could still be fetched, those that the line has passed, and those
\* that begin here.
Waiting(d) == {i \in d.line_objects \ d.fetched : line.oam[i].x < Width + 8}
Missed(d) == {i \in Waiting(d) : line.oam[i].x < ObjectMatch(d)}
Met(d) == {i \in Waiting(d) : line.oam[i].x = ObjectMatch(d)}
Fetching(d) == "objects" \in d.lcdc /\ d.pixel_position < Width

\* What start_object_fetch does to the fetches.
StartTold(d, u) ==
  /\ SameRows(d, u)
  /\ ~Fetching(d) => u.fetched = d.fetched /\ u.object_fetch_step = d.object_fetch_step
  /\ Fetching(d) /\ Met(d) = {} =>
       /\ u.fetched = d.fetched \union Missed(d)
       /\ u.object_fetch_step = d.object_fetch_step
  /\ Fetching(d) /\ Met(d) # {} =>
       /\ u.object_fetch_index \in Met(d) /\ u.object_fetch_step = "Align"
       /\ u.fetched = (d.fetched \union Missed(d)) \union {u.object_fetch_index}

\* The fetch counts no row.
LEMMA FetchCountsNoRow ==
  ASSUME NEW d \in Drawing, NEW F, NEW i, NEW s
  PROVE  SameRows(d, Fetches(d, F, i, s))
<1> DEFINE u == Fetches(d, F, i, s)
<1>1. u = [d EXCEPT !.fetched = F, !.object_fetch_index = i, !.object_fetch_step = s]
  BY DEF Fetches
<1> HIDE DEF u
<1>2. SameRows(d, u)
  BY <1>1 DEF Drawing, SameRows
<1> QED
  BY <1>2 DEF u

\* It does that.
LEMMA StartIsTold ==
  ASSUME NEW d \in Drawing
  PROVE  StartTold(d, StartObjectFetch(d))
<1> DEFINE waiting == {i \in d.line_objects \ d.fetched : line.oam[i].x < Width + 8}
           missed == {i \in waiting : line.oam[i].x < ObjectMatch(d)}
           met == {i \in waiting : line.oam[i].x = ObjectMatch(d)}
           begun == [d EXCEPT !.fetched = @ \union missed]
           off == "objects" \notin d.lcdc \/ d.pixel_position >= Width
           on == "objects" \in d.lcdc /\ d.pixel_position < Width
           u == StartObjectFetch(d)
<1>1. /\ d.fetched \in SUBSET Nat /\ d.line_objects \in SUBSET Nat
      /\ d.object_fetch_index \in Nat /\ d.object_fetch_step \in FetchSteps
  BY DEF Drawing
<1>2. missed \subseteq d.line_objects /\ met \subseteq d.line_objects \ d.fetched
  OBVIOUS
<1>3. missed = Missed(d) /\ met = Met(d)
  BY DEF Missed, Met, Waiting
<1>4. d.pixel_position \in Int /\ Width \in Int
  BY LineAssumption DEF Drawing, LinesAreBytes
<1>5. (on <=> Fetching(d)) /\ (off <=> ~Fetching(d))
  BY <1>4 DEF Fetching
<1>6. CASE off
  <2>1. u = d
    <3>1. ~(on /\ met # {})
      BY <1>5, <1>6
    <3> HIDE DEF off, on
    <3> QED
      BY <1>6, <3>1, Zenon DEF StartObjectFetch, off, on
  <2>2. StartTold(d, d)
    BY <1>5, <1>6 DEF StartTold, SameRows
  <2> QED
    BY <2>1, <2>2
<1>7. CASE on /\ met # {}
  <2> DEFINE m == Min(met)
             F == (d.fetched \union missed) \union {m}
  <2>1. m \in met
    <3> HIDE DEF met
    <3>1. met \subseteq Nat /\ met # {}
      BY <1>1, <1>2, <1>7
    <3> QED
      BY <3>1, MinIsMember
  <2>2. u = [begun EXCEPT !.fetched = @ \union {m}, !.object_fetch_index = m,
                          !.object_fetch_step = "Align"]
    <3>1. ~off
      BY <1>5, <1>7
    <3> HIDE DEF off
    <3> QED BY <1>7, <3>1 DEF StartObjectFetch, off
  <2>3. u = Fetches(d, F, m, "Align")
    BY <2>2 DEF Fetches, Drawing
  <2>4. m \in Met(d) /\ m \in d.line_objects
    BY <1>3, <2>1
  <2>5. F = (d.fetched \union Missed(d)) \union {m}
    BY <1>3
  <2>6. Fetching(d)
    BY <1>5, <1>7
  <2> HIDE DEF missed, met, u
  <2>7. m \in Nat /\ F \in SUBSET Nat
    BY <1>1, <1>2, <2>4
  <2> HIDE DEF F, m
  <2>8. "Align" \in FetchSteps
    BY DEF FetchSteps
  <2>9. FetchOf(d, u, F, m, "Align") /\ SameRows(d, u)
    BY <2>3, <2>7, <2>8, FetchIsSet, FetchCountsNoRow
  <2>10. Met(d) # {}
    BY <2>4
  <2>11. /\ u.object_fetch_index \in Met(d) /\ u.object_fetch_step = "Align"
         /\ u.fetched = (d.fetched \union Missed(d)) \union {u.object_fetch_index}
    BY <2>4, <2>5, <2>9 DEF FetchOf
  <2>12. StartTold(d, u)
    BY <2>6, <2>9, <2>10, <2>11, Zenon DEF StartTold
  <2> QED
    BY <2>12 DEF u
<1>8. CASE on /\ met = {}
  <2> DEFINE F == d.fetched \union missed
  <2>1. u = [d EXCEPT !.fetched = F]
    <3>1. ~off /\ ~(on /\ met # {})
      BY <1>5, <1>8
    <3> HIDE DEF off
    <3> QED BY <1>8, <3>1 DEF StartObjectFetch, off
  <2>2. u = Fetches(d, F, d.object_fetch_index, d.object_fetch_step)
    BY <2>1 DEF Fetches, Drawing
  <2>3. F = d.fetched \union Missed(d) /\ Met(d) = {} /\ Fetching(d)
    BY <1>3, <1>5, <1>8
  <2> HIDE DEF missed, u
  <2>4. F \in SUBSET Nat
    BY <1>1, <1>2
  <2> HIDE DEF F
  <2>5. FetchOf(d, u, F, d.object_fetch_index, d.object_fetch_step) /\ SameRows(d, u)
    BY <1>1, <2>2, <2>4, FetchIsSet, FetchCountsNoRow
  <2>6. StartTold(d, u)
    BY <2>3, <2>5, Zenon DEF FetchOf, StartTold
  <2> QED
    BY <2>6 DEF u
<1> QED
  BY <1>5, <1>6, <1>7, <1>8

\* What a dot of tick_object_fetch does to the fetcher, the FIFO and the rows.
FetchTold(d, u) ==
  /\ SameRows(d, u) /\ u.object_fetch_aborted = FALSE
  /\ d.object_fetch_step = "Align" => FetcherTold(d, u)
  /\ u.object_fetch_step # "None" => u.obj_fifo = d.obj_fifo
  /\ u.object_fetch_step = "None" => u.obj_fifo = OverlaidFifo(d)

\* It does that.
LEMMA FetchIsTold ==
  ASSUME NEW d \in Drawing, Steady(d), line \in LineState, FifoInPlace(d), ObjectIsMet(d),
         d.object_fetch_step # "None",
         d.object_fetch_aborted = FALSE
  PROVE  FetchTold(d, TickObjectFetch(d))
<1> DEFINE u == TickObjectFetch(d)
           step == d.object_fetch_step
           next == NextFetchStep(step)
<1>1. step \in FetchSteps \ {"None"}
  BY DEF Drawing
<1>2. next # "None"
  BY <1>1 DEF NextFetchStep, FetchSteps
<1> HIDE DEF next
<1> DEFINE v == AdvancePixelFetcher(d)
<1>3. Advanced(d, v) /\ FetcherTold(d, v)
  BY FetcherAdvances, FetcherIsTold
<1>4. CASE Aligns(d)
  <2>1. u = v
    BY <1>4 DEF TickObjectFetch, Aligns
  <2>2. step = "Align"
    BY <1>4 DEF Aligns
  <2> HIDE DEF u, v
  <2>3. u.obj_fifo = d.obj_fifo /\ u.object_fetch_step = step /\ u.object_fetch_aborted = FALSE
    BY <1>3, <2>1 DEF Advanced, SameObjects
  <2>4. SameRows(d, u) /\ FetcherTold(d, u)
    BY <1>3, <2>1 DEF FetcherTold
  <2>5. u.object_fetch_step # "None"
    BY <2>2, <2>3
  <2>6. FetchTold(d, u)
    BY <2>3, <2>4, <2>5, Zenon DEF FetchTold
  <2> QED
    BY <2>6 DEF u
<1>5. CASE step = "Align" /\ ~Aligns(d)
  <2> DEFINE w == [v EXCEPT !.object_fetch_step = next]
  <2>1. u = w
    BY <1>5 DEF TickObjectFetch, Aligns, next
  <2> HIDE DEF v, u
  <2>2. v \in Drawing
    BY <1>3 DEF Advanced
  <2>3. /\ w.object_fetch_step = next /\ w.obj_fifo = v.obj_fifo /\ w.fetcher = v.fetcher
        /\ w.bg_fifo = v.bg_fifo /\ w.window_active = v.window_active
        /\ w.object_fetch_aborted = v.object_fetch_aborted
        /\ w.window_triggered = v.window_triggered /\ w.window_line = v.window_line
    BY <2>2 DEF Drawing
  <2> HIDE DEF w
  <2>4. FetcherTold(d, w)
    BY <1>3, <2>3, Zenon DEF FetcherTold, SameRows
  <2>5. w.obj_fifo = d.obj_fifo /\ w.object_fetch_aborted = FALSE
    BY <1>3, <2>3 DEF Advanced, SameObjects
  <2>6. w.object_fetch_step # "None"
    BY <1>2, <2>3
  <2>7. SameRows(d, w)
    BY <2>4 DEF FetcherTold
  <2>8. FetchTold(d, w)
    BY <2>4, <2>5, <2>6, <2>7, Zenon DEF FetchTold
  <2> QED
    BY <2>1, <2>8 DEF u
<1>6. CASE step = "DataHighSecond"
  <2> DEFINE o == Overlay(d)
  <2>1. u = EndObjectFetch(o)
    BY <1>6 DEF TickObjectFetch
  <2>2. o \in Drawing
    BY ObjectIsOverlaid DEF Overlaid
  <2>3. SameRows(d, o) /\ o.obj_fifo = OverlaidFifo(d)
    BY OverlayIsTold
  <2> HIDE DEF o, u
  <2>4. FetchEnded(o, u) /\ SameRows(o, u) /\ u.object_fetch_aborted = FALSE
    BY <2>1, <2>2, FetchEnds, FetchEndIsTold
  <2>5. u.obj_fifo = OverlaidFifo(d) /\ u.object_fetch_step = "None" /\ SameRows(d, u)
    BY <2>3, <2>4 DEF FetchEnded, SameRows
  <2>6. FetchTold(d, u)
    BY <1>6, <2>4, <2>5 DEF FetchTold
  <2> QED
    BY <2>6 DEF u
<1>7. CASE step \notin {"Align", "DataHighSecond"}
  <2> DEFINE w == [d EXCEPT !.object_fetch_step = next]
  <2>1. u = w
    BY <1>7 DEF TickObjectFetch, next
  <2>2. /\ w.object_fetch_step = next /\ w.obj_fifo = d.obj_fifo
        /\ w.object_fetch_aborted = FALSE /\ SameRows(d, w)
    BY DEF Drawing, SameRows
  <2> HIDE DEF w, u
  <2>3. FetchTold(d, w)
    BY <1>2, <1>7, <2>2 DEF FetchTold
  <2> QED
    BY <2>1, <2>3 DEF u
<1> QED
  BY <1>4, <1>5, <1>6, <1>7 DEF Aligns

-----------------------------------------------------------------------------
(* The background and the window. *)

\* The window of a line that the program leaves alone, and its blank pixel.
LineNumbers ==
  /\ Below \in 0 .. 7 /\ line.scx \in 0 .. 255 /\ line.wx \in 0 .. 255
  /\ (line.scx - Below) % 8 = 0 /\ line.scx >= Below
  /\ Width \in Nat /\ Width > 8 /\ WindowStart \in Int /\ BlankColumn \in Int
  /\ BlankColumn >= -7
  /\ BlankColumn # Width =>
       /\ line.window_y_triggered /\ "window" \notin line.lcdc
       /\ BlankColumn = line.wx - 7 /\ (BlankColumn + Below) % 8 = 0 /\ ~Enabled
       /\ BlankColumn + Below >= 0

\* A line has such numbers.
LEMMA LineIsNumbers ==
  ASSUME line \in LineState
  PROVE  LineNumbers
<1>1. line.scx \in 0 .. 255 /\ line.wx \in 0 .. 255
  BY DEF LineState
<1>2. Below \in 0 .. 7 /\ (line.scx - Below) % 8 = 0 /\ line.scx >= Below
  <2> DEFINE s == line.scx
  <2>1. s \in 0 .. 255 /\ Below = s % 8
    BY <1>1 DEF Below
  <2> HIDE DEF s
  <2>2. s % 8 \in 0 .. 7 /\ (s - (s % 8)) % 8 = 0 /\ s >= s % 8
    BY <2>1
  <2> QED
    BY <2>1, <2>2 DEF s
<1>3. Width \in Nat /\ Width > 8
  BY LineAssumption DEF LinesAreBytes
<1>4. WindowStart \in Int
  BY <1>1, <1>2 DEF WindowStart
<1> DEFINE blank == /\ line.window_y_triggered /\ "window" \notin line.lcdc
                    /\ line.wx >= 7 - Below /\ (line.wx - 7 + Below) % 8 = 0
<1>5. BlankColumn = IF blank THEN line.wx - 7 ELSE Width
  BY DEF BlankColumn
<1>6. blank => line.window_y_triggered /\ "window" \notin line.lcdc /\ ~Enabled
  BY DEF Enabled
<1>7. blank => /\ (line.wx - 7) + Below >= 0 /\ ((line.wx - 7) + Below) % 8 = 0
               /\ line.wx - 7 >= -7
  <2>1. (line.wx - 7 + Below) = (line.wx - 7) + Below
    BY <1>1, <1>2
  <2> QED
    BY <1>1, <1>2, <2>1
<1> HIDE DEF blank
<1>8. BlankColumn \in Int /\ BlankColumn >= -7
  BY <1>1, <1>3, <1>5, <1>7
<1>9. BlankColumn # Width =>
       /\ line.window_y_triggered /\ "window" \notin line.lcdc
       /\ BlankColumn = line.wx - 7 /\ (BlankColumn + Below) % 8 = 0 /\ ~Enabled
       /\ BlankColumn + Below >= 0
  BY <1>5, <1>6, <1>7
<1> QED
  BY <1>1, <1>2, <1>3, <1>4, <1>8, <1>9, Zenon DEF LineNumbers

\* A column of the line, before or after the jump to -8.
Column(d) ==
  \/ d.pixel_position \in -16 .. -9 /\ d.pixel_position + 16 <= Below
  \/ d.pixel_position \in Int /\ d.pixel_position >= -7

\* The numbers of the background.
GroundNumbers(d) ==
  /\ Column(d) /\ d.pixel_position \in Int /\ Pops(d) \in Nat
  /\ Pops(d) = (IF d.pixel_position < -8 THEN d.pixel_position + 16
                ELSE (Below + d.pixel_position) + 8)
  /\ Past(d) \in Int /\ Len(d.bg_fifo) \in Nat /\ Stock(d) \in Nat /\ Origin(d) \in Int
  /\ Coming(d) \in Int /\ d.window_active \in BOOLEAN
  /\ d.fetcher.step \in 0 .. 6 /\ d.fetcher.x \in Int /\ d.fetcher.tile \in Int
  /\ d.screen_x \in Int

\* They are numbers.
LEMMA GroundIsNumbers ==
  ASSUME NEW d \in Drawing, line \in LineState, Column(d), d.scx_low = Below
  PROVE  GroundNumbers(d)
<1>1. LineNumbers
  BY LineIsNumbers
<1>2. /\ d.pixel_position \in Int /\ d.bg_fifo \in Seq(BgPixel) /\ d.window_active \in BOOLEAN
      /\ d.fetcher \in Fetcher /\ d.screen_x \in Int
  BY DEF Drawing
<1>3. Len(d.bg_fifo) \in Nat
  BY <1>2
<1>5. Pops(d) = (IF d.pixel_position < -8 THEN d.pixel_position + 16
                 ELSE (Below + d.pixel_position) + 8)
  BY DEF Pops
<1>6. Pops(d) \in Nat
  <2> DEFINE p == d.pixel_position
             b == Below
             n == Pops(d)
  <2>1. b \in 0 .. 7 /\ p \in Int
    BY <1>1, <1>2 DEF LineNumbers
  <2>2. (p \in -16 .. -9 /\ p + 16 <= b) \/ p >= -7
    BY DEF Column
  <2>3. n = (IF p < -8 THEN p + 16 ELSE (b + p) + 8)
    BY <1>5
  <2> HIDE DEF p, b, n
  <2>4. n \in Nat
    BY <2>1, <2>2, <2>3
  <2> QED
    BY <2>4 DEF n
<1>7. d.fetcher.step \in 0 .. 6 /\ d.fetcher.x \in Int /\ d.fetcher.tile \in Int
  BY <1>2 DEF Fetcher
<1>8. Past(d) \in Int /\ Stock(d) \in Nat
  BY <1>3, <1>6 DEF Past, Stock
<1>9. Origin(d) \in Int
  <2> DEFINE s == line.scx
             b == Below
             w == WindowStart
  <2>1. s \in 0 .. 255 /\ b \in 0 .. 7 /\ w \in Int
    BY <1>1 DEF LineNumbers
  <2>2. Origin(d) = IF d.window_active THEN -w ELSE (s - b) - 8
    BY DEF Origin
  <2> HIDE DEF s, b, w
  <2>3. -w \in Int /\ (s - b) - 8 \in Int
    BY <2>1
  <2> QED
    BY <2>2, <2>3
<1>10. Coming(d) \in Int
  BY <1>8, <1>9 DEF Coming
<1> QED
  BY <1>2, <1>3, <1>5, <1>6, <1>7, <1>8, <1>9, <1>10, Zenon DEF GroundNumbers

\* The pixels of a tile are the columns after its first one.
LEMMA ColumnsOfTile ==
  ASSUME NEW t \in Int, NEW c \in Int, c % 8 = 0, 8 * t = c % 256, NEW i \in 1 .. 8
  PROVE  (8 * t + i) - 1 = ((c + i) - 1) % 256
  OBVIOUS

\* The tile after one is eight columns on.
LEMMA TileAfter ==
  ASSUME NEW t \in Int, NEW c \in Int, c % 8 = 0, 8 * t = c % 256
  PROVE  8 * ((t + 1) % 32) = (c + 8) % 256
  OBVIOUS

\* A tile is found from any column of the eight before it.
LEMMA TileOfColumn ==
  ASSUME NEW c \in Int, NEW n \in Int, c % 8 = 0, n \in c .. c + 7
  PROVE  8 * ((n \div 8) % 32) = c % 256
  OBVIOUS

\* A line that the program leaves alone.
Alone(d) == line \in LineState /\ Wellformed(d, 0) /\ Untouched(d)

\* What it knows of itself.
AloneNumbers(d) ==
  /\ LineNumbers /\ GroundNumbers(d) /\ d \in Drawing /\ d.wx = line.wx /\ d.scx = line.scx
  /\ d.lcdc = line.lcdc /\ d.scx_low = Below
  /\ WindowEnabled(d) <=> Enabled /\ line.wx <= Width + 6

\* It has these numbers.
LEMMA AloneIsNumbers ==
  ASSUME NEW d, Alone(d)
  PROVE  AloneNumbers(d)
<1>2. d \in Drawing
  BY DEF Alone, Wellformed
<1>0. Column(d)
  <2>1. InPlace(d, 0) /\ d.scx_low = Below /\ d.pixel_position \in Int
    BY <1>2 DEF Alone, Untouched, Wellformed, Drawing
  <2>2. CASE d.pixel_position \in -16 .. -9 /\ d.pixel_position + 16 <= d.scx_low
    BY <2>1, <2>2 DEF Column
  <2>3. CASE d.pixel_position \in -7 .. -1
    BY <2>3 DEF Column
  <2>4. CASE d.pixel_position >= 0
    BY <2>1, <2>4 DEF Column
  <2> QED
    BY <2>1, <2>2, <2>3, <2>4, Zenon DEF InPlace
<1>1. LineNumbers /\ GroundNumbers(d)
  BY <1>0, <1>2, LineIsNumbers, GroundIsNumbers DEF Alone, Untouched
<1>3. d.wx = line.wx /\ d.scx = line.scx /\ d.lcdc = line.lcdc /\ d.scx_low = Below
  BY DEF Alone, Untouched
<1>4. WindowEnabled(d) <=> Enabled /\ line.wx <= Width + 6
  BY <1>3 DEF WindowEnabled, Enabled
<1> QED
  BY <1>1, <1>2, <1>3, <1>4, Zenon DEF AloneNumbers

\* Members that the fetcher's invariant reads.
SameView(d, u) ==
  /\ u.pixel_position = d.pixel_position /\ u.scx_low = d.scx_low
  /\ u.bg_fifo = d.bg_fifo /\ u.fetcher = d.fetcher /\ u.window_active = d.window_active

\* It is the same for the same members.
LEMMA ViewIsSame ==
  ASSUME NEW d, NEW u, SameView(d, u)
  PROVE  /\ Pops(u) = Pops(d) /\ Past(u) = Past(d) /\ Stock(u) = Stock(d)
         /\ Origin(u) = Origin(d) /\ Coming(u) = Coming(d)
         /\ GroundFifo(d) => GroundFifo(u)
         /\ GroundFetcher(d) => GroundFetcher(u)
         /\ WindowToCome(d) => WindowToCome(u)
         /\ \A k : Looks(d, k) => Looks(u, k)
         /\ RowsFollow(d) /\ SameRows(d, u) => RowsFollow(u)
<1>1. Pops(u) = Pops(d)
  BY DEF SameView, Pops
<1>2. Past(u) = Past(d)
  BY <1>1, Zenon DEF SameView, Past
<1>3. Stock(u) = Stock(d)
  BY DEF SameView, Stock
<1>4. Origin(u) = Origin(d)
  BY DEF SameView, Origin
<1>5. Coming(u) = Coming(d)
  BY <1>2, <1>3, <1>4 DEF Coming
<1>6. \A k : TilePixel(u, k) = TilePixel(d, k)
  BY <1>4, Zenon DEF SameView, TilePixel
<1>7. GroundFifo(d) => GroundFifo(u)
  BY <1>2, <1>6, Zenon DEF SameView, GroundFifo
<1>8. GroundFetcher(d) => GroundFetcher(u)
  BY <1>2, <1>3, <1>5, ZenonT(60) DEF SameView, GroundFetcher
<1>9. WindowToCome(d) => WindowToCome(u)
  BY Zenon DEF SameView, WindowToCome
<1>10. \A k : Looks(d, k) => Looks(u, k)
  BY <1>3, Zenon DEF SameView, Looks
<1>11. RowsFollow(d) /\ SameRows(d, u) => RowsFollow(u)
  BY <1>1, Zenon DEF SameView, SameRows, RowsFollow
<1> QED
  BY <1>1, <1>2, <1>3, <1>4, <1>5, <1>7, <1>8, <1>9, <1>10, <1>11

\* The blank pixel of a window that is off comes in its column.
LEMMA BlankPixelComes ==
  ASSUME NEW d, AloneNumbers(d), d.bg_fifo = <<>>, d.pixel_position < Width,
         GroundFifo(d), GroundFetcher(d), RowsFollow(d)
  PROVE  LeavesBlankPixel(d) <=> d.pixel_position = BlankColumn
<1> DEFINE p == d.pixel_position
           c == BlankColumn
           b == Below
           x == line.wx
           s == line.scx
<1>1. /\ p \in Int /\ c \in Int /\ c >= -7 /\ b \in 0 .. 7 /\ x \in 0 .. 255 /\ s \in 0 .. 255
      /\ (s - b) % 8 = 0
  BY DEF AloneNumbers, LineNumbers, GroundNumbers
<1>2. Width \in Nat /\ d.wx = x /\ p < Width
  BY DEF AloneNumbers, LineNumbers
<1>3. ASSUME p = c
      PROVE  LeavesBlankPixel(d)
  <2>1. line.window_y_triggered /\ "window" \notin d.lcdc /\ c = x - 7
    BY <1>1, <1>2, <1>3 DEF AloneNumbers, LineNumbers
  <2> HIDE DEF p, c, x, b, s
  <2>2. d.wx = p + 7 /\ ~(p + 7 < 0 \/ p > Width)
    BY <1>1, <1>2, <1>3, <2>1
  <2> QED
    BY <2>1, <2>2 DEF LeavesBlankPixel, p
<1>4. ASSUME LeavesBlankPixel(d), p # c
      PROVE  FALSE
  <2>1. line.window_y_triggered /\ "window" \notin line.lcdc
    BY <1>4 DEF LeavesBlankPixel, AloneNumbers
  <2>2. ~d.window_active
    BY <2>1 DEF RowsFollow, Enabled
  <2>3. Stock(d) = 0
    BY <1>4 DEF Stock
  <2> DEFINE k == Past(d)
             n == Pops(d)
  <2>4. k \in Int /\ n \in Nat
    BY DEF AloneNumbers, GroundNumbers
  <2>5. Coming(d) = k + ((s - b) - 8)
    BY <1>1, <2>2, <2>3, <2>4 DEF Coming, Origin
  <2>6. (k + ((s - b) - 8)) % 8 = 0 /\ k >= 8
    BY <2>2, <2>3, <2>4, <2>5 DEF GroundFetcher
  <2>7. k % 8 = 0
    <3> DEFINE e == s - b
    <3>2. e % 8 = 0
      BY <1>1, Zenon
    <3>3. (k + (e - 8)) % 8 = 0
      BY <2>6, Zenon
    <3> HIDE DEF k, s, b
    <3>1. e \in Int
      BY <1>1
    <3> HIDE DEF e
    <3> QED
      BY <2>4, <3>1, <3>2, <3>3
  <2>8. k = (IF p > c THEN n - 1 ELSE n)
    BY DEF Past
  <2>9. n = (IF p < -8 THEN p + 16 ELSE (b + p) + 8)
    BY DEF AloneNumbers, GroundNumbers
  <2>10. (p \in -16 .. -9 /\ p + 16 <= b) \/ p >= -7
    BY DEF AloneNumbers, GroundNumbers, Column
  <2>11. x = IF p + 7 < 0 \/ p > Width THEN 0 ELSE p + 7
    BY <1>4 DEF LeavesBlankPixel, AloneNumbers
  <2>12. c = IF x >= 7 - b /\ (x - 7 + b) % 8 = 0 THEN x - 7 ELSE Width
    BY <2>1 DEF BlankColumn
  <2> HIDE DEF p, c, b, x, s, k, n
  <2>13. p >= -7
    BY <1>1, <2>4, <2>6, <2>8, <2>9, <2>10
  <2>14. x = p + 7
    BY <1>1, <1>2, <2>11, <2>13 DEF p
  <2>15. p < c
    BY <1>1, <1>2, <1>4, <2>12, <2>14, SMTT(30) DEF p
  <2>16. k = (b + p) + 8
    BY <1>1, <2>8, <2>9, <2>13, <2>15
  <2>17. b + p >= 0 /\ (b + p) % 8 = 0
    BY <1>1, <2>6, <2>7, <2>16
  <2>18. x >= 7 - b /\ (x - 7 + b) % 8 = 0
    <3>1. x >= 7 - b
      BY <1>1, <2>14, <2>17
    <3>2. (x - 7 + b) = b + p
      BY <1>1, <2>14
    <3> QED
      BY <2>17, <3>1, <3>2
  <2>19. c = p
    BY <1>1, <2>12, <2>14, <2>18
  <2> QED
    BY <2>19, <1>4
<1> QED
  BY <1>3, <1>4

\* Where a line that goes on is.
OnItsWay(d) ==
  /\ d.pixel_position < Width /\ d.screen_x < Width
  /\ d.screen_x = (IF d.pixel_position >= 0 THEN d.pixel_position ELSE 0)

\* It is there.
LEMMA LineIsOnItsWay ==
  ASSUME NEW d, AloneNumbers(d), Wellformed(d, 0), d.finished = FALSE
  PROVE  OnItsWay(d)
<1> DEFINE p == d.pixel_position
           x == d.screen_x
<1>1. p \in Int /\ x \in Int /\ Width \in Nat /\ Width > 8
  BY DEF AloneNumbers, GroundNumbers, LineNumbers
<1>2. x \in 0 .. Width /\ x # Width
  BY DEF Wellformed
<1>3. InPlace(d, 0)
  BY DEF Wellformed
<1>4. \/ p \in -16 .. -9 /\ x = 0
      \/ p \in -7 .. -1 /\ x = 0
      \/ p >= 0 /\ x + 0 = p
  BY <1>3, Zenon DEF InPlace
<1> HIDE DEF p, x
<1>5. p < Width /\ x < Width /\ x = (IF p >= 0 THEN p ELSE 0)
  BY <1>1, <1>2, <1>4
<1> QED
  BY <1>5, Zenon DEF OnItsWay, p, x

\* A window that begins is the one of the line.
LEMMA WindowIsReached ==
  ASSUME NEW d, AloneNumbers(d), Triggers(d), ~(MayBegin(d) /\ Trails(d)), WindowToCome(d)
  PROVE  /\ ~d.window_active /\ Enabled /\ line.wx < Width + 6 /\ WindowReached(d)
         /\ Pops(d) = WindowStart
<1> DEFINE p == d.pixel_position
           x == line.wx
           b == Below
           n == Pops(d)
           w == WindowStart
<1>1. /\ p \in Int /\ b \in 0 .. 7 /\ x \in 0 .. 255 /\ Width \in Nat /\ Width > 8
      /\ n = (IF p < -8 THEN p + 16 ELSE (b + p) + 8)
  BY DEF AloneNumbers, LineNumbers, GroundNumbers
<1>2. d \in Drawing
  BY DEF AloneNumbers
<1>3. ~d.window_active /\ Enabled /\ WindowReached(d)
  <2>1. MayBegin(d) /\ ~d.window_active /\ WindowEnabled(d)
    BY DEF MayBegin, Triggers
  <2>2. ~WindowPassed(d)
    BY <1>2, <2>1, TriggersIsMayTrigger
  <2> QED
    BY <2>1, <2>2 DEF Triggers, AloneNumbers
<1>4. IF x = 0 THEN \/ p = -7
                    \/ p = -16 /\ b # 0
                    \/ p \in -15 .. -8
               ELSE x < Width + 6 /\ x = p + 7
  BY <1>3 DEF WindowReached, AloneNumbers
<1>5. x < Width + 6 => IF x # 0 THEN p <= x - 7 ELSE p = -16 \/ (b = 0 /\ p = -7)
  BY <1>3 DEF WindowToCome
<1>6. w = IF x = 0 /\ b # 0 THEN 0 ELSE (b + x) + 1
  BY DEF WindowStart
<1> HIDE DEF p, x, b, n, w
<1>7. x < Width + 6
  BY <1>1, <1>4
<1>8. n = w
  BY <1>1, <1>4, <1>5, <1>6, <1>7
<1> QED
  BY <1>3, <1>7, <1>8 DEF x, n, w

\* The window's part keeps what the fetcher has found, or begins the window.
LEMMA GroundTicks ==
  ASSUME NEW d, line \in ScanLines, Alone(d), d.finished = FALSE,
         ~(MayBegin(d) /\ Trails(d)), GroundFollows(d, 8)
  PROVE  Alone(TickWindow(d)) /\ GroundFollows(TickWindow(d), 8) /\ Decided(TickWindow(d))
<1> DEFINE u == TickWindow(d)
<1>1. AloneNumbers(d) /\ line \in LineState /\ d \in Drawing
  BY AloneIsNumbers DEF Alone, Wellformed
<1>2. /\ GroundFifo(d) /\ GroundFetcher(d) /\ Looks(d, 8) /\ RowsFollow(d) /\ WindowToCome(d)
  BY DEF GroundFollows
<1>3. WindowTicked(d, u) /\ WindowTold(d, u)
  BY <1>1, WindowTicks, WindowIsTold
<1>4. Taken(d, 0) = 0
  BY <1>1, TriggersIsMayTrigger DEF Taken, Triggers, MayBegin
<1>5. Wellformed(u, 0)
  <2>1. 0 \in Nat /\ Wellformed(d, 0)
    BY DEF Alone
  <2> HIDE DEF u
  <2>2. Wellformed(TickWindow(d), Taken(d, 0))
    BY <2>1, WindowKeepsForm
  <2> QED
    BY <1>4, <2>2, Zenon DEF u
<1> HIDE DEF u
<1>6. Untouched(u)
  BY <1>3 DEF Alone, Untouched, WindowTicked, SameRegisters, SameObjects
<1>7. Alone(u)
  BY <1>1, <1>5, <1>6 DEF Alone
<1>8. AloneNumbers(u)
  BY <1>7, AloneIsNumbers
<1>9. u.pixel_position = d.pixel_position /\ u.scx_low = d.scx_low
  BY <1>3 DEF WindowTicked, SameRegisters
<1>10. OnItsWay(d)
  BY <1>1, LineIsOnItsWay DEF Alone
<1>11. WindowReached(u) <=> WindowReached(d)
  BY <1>3, <1>9 DEF WindowReached, WindowTicked, SameRegisters
<1>12. CASE Triggers(d)
  <2>1. /\ ~d.window_active /\ Enabled /\ line.wx < Width + 6 /\ WindowReached(d)
        /\ Pops(d) = WindowStart
    BY <1>1, <1>2, <1>12, WindowIsReached
  <2>2. /\ u.bg_fifo = <<>> /\ u.fetcher.step = 0 /\ u.window_active = TRUE
        /\ u.fetcher.window = TRUE /\ u.fetcher.x = 0 /\ u.window_triggered = TRUE
        /\ u.window_line = IF d.window_triggered THEN d.window_line + 1 ELSE d.window_line
    BY <1>3, <1>12, Zenon DEF WindowTicked, WindowTold
  <2>3. line.wx # Width + 6
    <3>1. line.wx \in 0 .. 255 /\ Width \in Nat
      BY <1>1 DEF AloneNumbers, LineNumbers
    <3> QED
      BY <2>1, <3>1
  <2>4. u.window_line = 0
    BY <1>2, <2>1, <2>2, <2>3 DEF RowsFollow
  <2>5. BlankColumn = Width
    BY <1>1, <2>1 DEF AloneNumbers, LineNumbers
  <2>6. /\ ~(u.pixel_position > BlankColumn) /\ u.pixel_position # BlankColumn
    <3> DEFINE p == u.pixel_position
    <3>1. p \in Int /\ p < Width /\ Width \in Nat
      BY <1>1, <1>9, <1>10 DEF OnItsWay, AloneNumbers, GroundNumbers, LineNumbers
    <3> HIDE DEF p
    <3>2. ~(p > Width) /\ p # Width
      BY <3>1
    <3> QED
      BY <2>5, <3>2 DEF p
  <2>7. Pops(u) = Pops(d) /\ Pops(d) \in Nat
    BY <1>1, <1>9 DEF Pops, AloneNumbers, GroundNumbers
  <2>8. Past(u) = Pops(d) /\ Stock(u) = 0 /\ Origin(u) = -WindowStart
    BY <2>2, <2>6, <2>7 DEF Past, Stock, Origin
  <2>9. Coming(u) = 0
    BY <2>1, <2>7, <2>8 DEF Coming
  <2>10. GroundFifo(u)
    <3>1. Len(u.bg_fifo) = 0
      BY <2>2
    <3> QED
      BY <2>6, <3>1 DEF GroundFifo
  <2>11. GroundFetcher(u)
    <3>1. 0 % 8 = 0 /\ 8 * 0 = 0 % 256
      OBVIOUS
    <3>2. Coming(u) % 8 = 0
      BY <2>9, <3>1
    <3>3. 8 * u.fetcher.x = Coming(u) % 256
      BY <2>2, <2>9, <3>1
    <3>4. 8 * u.fetcher.x = (IF u.fetcher.step = 6 THEN Coming(u) + 8 ELSE Coming(u)) % 256
      BY <2>2, <3>3
    <3>5. ~(u.fetcher.step >= 1)
      BY <2>2
    <3> QED
      BY <2>2, <3>2, <3>4, <3>5, Zenon DEF GroundFetcher
  <2>12. Looks(u, 8)
    BY <2>2, <2>8 DEF Looks
  <2>13. RowsFollow(u)
    <3>1. Pops(u) >= WindowStart
      BY <2>1, <2>7
    <3> QED
      BY <2>1, <2>2, <2>4, <3>1 DEF RowsFollow
  <2>14. WindowToCome(u)
    BY <2>2 DEF WindowToCome
  <2>15. Decided(u)
    BY <2>2, <2>3 DEF Decided
  <2> QED
    BY <1>7, <2>10, <2>11, <2>12, <2>13, <2>14, <2>15 DEF GroundFollows, u
<1>13. CASE ~Triggers(d)
  <2>1. SameGround(d, u)
    BY <1>3, <1>13 DEF WindowTicked
  <2>2. SameView(d, u)
    BY <1>9, <2>1 DEF SameGround, SameView
  <2>3. /\ GroundFifo(u) /\ GroundFetcher(u) /\ WindowToCome(u) /\ Looks(u, 8)
        /\ Pops(u) = Pops(d) /\ u.window_active = d.window_active
    BY <1>2, <2>2, ViewIsSame DEF SameView
  <2>4. MayBegin(d) => ~WindowReached(d)
    BY <1>13 DEF MayBegin, Triggers
  <2>5. ~u.window_active /\ Enabled /\ line.wx < Width + 6 => ~WindowReached(u)
    <3>0. line.wx \in 0 .. 255 /\ Width \in Nat
      BY <1>1 DEF AloneNumbers, LineNumbers
    <3>1. line.wx < Width + 6 => line.wx <= Width + 6
      BY <3>0
    <3> QED
      BY <1>1, <1>11, <2>3, <2>4, <3>1 DEF MayBegin, AloneNumbers
  <2>6. CASE WindowUnseen(d)
    <3>1. /\ ~d.window_triggered /\ Enabled /\ line.wx = Width + 6
          /\ d.pixel_position = Width - 1
      BY <1>1, <2>6 DEF WindowUnseen, AloneNumbers
    <3>2. u.window_triggered = TRUE /\ u.window_line = d.window_line + 1
      BY <1>3, <1>13, <2>6, Zenon DEF WindowTold
    <3>3. ~d.window_active
      BY <1>2, <3>1 DEF RowsFollow
    <3>4. d.window_line = 0
      BY <1>2, <3>1, <3>3 DEF RowsFollow
    <3>5. RowsFollow(u)
      BY <1>9, <2>3, <3>1, <3>2, <3>3, <3>4 DEF RowsFollow
    <3>6. Decided(u)
      BY <2>5, <3>2 DEF Decided
    <3> QED
      BY <1>2, <1>7, <2>3, <3>5, <3>6 DEF GroundFollows, u
  <2>7. CASE ~WindowUnseen(d)
    <3>1. SameRows(d, u)
      BY <1>3, <1>13, <2>7 DEF WindowTold
    <3>2. RowsFollow(u)
      BY <1>2, <2>2, <3>1, ViewIsSame
    <3>3. Enabled /\ line.wx = Width + 6 => WindowEnabled(d)
      <4>1. line.wx \in 0 .. 255 /\ Width \in Nat
        BY <1>1 DEF AloneNumbers, LineNumbers
      <4>2. line.wx = Width + 6 => line.wx <= Width + 6
        BY <4>1
      <4> QED
        BY <1>1, <4>2 DEF AloneNumbers
    <3>4. Enabled /\ line.wx = Width + 6 /\ u.pixel_position = Width - 1 => u.window_triggered
      BY <1>1, <1>9, <2>7, <3>1, <3>3 DEF WindowUnseen, SameRows, AloneNumbers
    <3>5. Decided(u)
      BY <2>5, <3>4 DEF Decided
    <3> QED
      BY <1>2, <1>7, <2>3, <3>2, <3>5 DEF GroundFollows, u
  <2> QED
    BY <2>6, <2>7
<1> QED
  BY <1>12, <1>13

\* How far a line moves by a pixel.
Moves(d, v) ==
  /\ v.pixel_position \in Int /\ Pops(v) = Pops(d) + 1
  /\ d.pixel_position >= -7 => v.pixel_position = d.pixel_position + 1
  /\ d.pixel_position < -7 =>
       \/ v.pixel_position = -7 /\ d.pixel_position + 16 = Below
       \/ /\ v.pixel_position = d.pixel_position + 1 /\ v.pixel_position < -8
          /\ d.pixel_position + 16 < Below

\* It moves so far.
LEMMA PixelMovesOn ==
  ASSUME NEW d, NEW v, AloneNumbers(d), v.pixel_position = Position(d) + 1,
         v.scx_low = d.scx_low
  PROVE  Moves(d, v)
<1> DEFINE p == d.pixel_position
           q == v.pixel_position
           b == Below
           n == Pops(d)
           m == Pops(v)
<1>1. /\ p \in Int /\ b \in 0 .. 7 /\ d.scx_low = b
      /\ n = (IF p < -8 THEN p + 16 ELSE (b + p) + 8)
      /\ (p \in -16 .. -9 /\ p + 16 <= b) \/ p >= -7
  BY DEF AloneNumbers, LineNumbers, GroundNumbers, Column
<1>2. q = (IF p < -8 /\ p % 8 = b THEN -8 ELSE p) + 1
  BY <1>1, Zenon DEF Position, MaySkip
<1>3. m = (IF q < -8 THEN q + 16 ELSE (b + q) + 8)
  BY <1>1 DEF Pops
<1> HIDE DEF p, q, b, n, m
<1>4. p \in -16 .. -9 => p % 8 = p + 16 \/ (p = -16 + 8)
  OBVIOUS
<1>5. q \in Int /\ m = n + 1
  BY <1>1, <1>2, <1>3, <1>4
<1>6. p >= -7 => q = p + 1
  BY <1>1, <1>2
<1>7. p < -7 => (q = -7 /\ p + 16 = b) \/ (q = p + 1 /\ q < -8 /\ p + 16 < b)
  BY <1>1, <1>2, <1>4
<1> QED
  BY <1>5, <1>6, <1>7, Zenon DEF Moves, p, q, b, n, m

\* What is left of the FIFO without a pixel.
Left(d, v) ==
  /\ Past(v) = (IF d.pixel_position = BlankColumn THEN Past(d) ELSE Past(d) + 1)
  /\ Stock(v) = (IF d.pixel_position = BlankColumn THEN 0 ELSE Stock(d) - 1)
  /\ v.bg_fifo # <<>> => v.pixel_position # BlankColumn /\ d.pixel_position # BlankColumn
  /\ Past(v) + Stock(v) = Past(d) + Stock(d) /\ Coming(v) = Coming(d)
  /\ Origin(v) = Origin(d) /\ d.bg_fifo \in Seq(BgPixel) /\ Len(d.bg_fifo) \in 1 .. 8
  /\ v.bg_fifo = Tail(d.bg_fifo)

\* The FIFO holds the whole of what is left of its tile where the blank pixel comes.
LEMMA PixelIsLeft ==
  ASSUME NEW d, NEW v, AloneNumbers(d), Moves(d, v), d.bg_fifo # <<>>,
         v.bg_fifo = Tail(d.bg_fifo), v.window_active = d.window_active,
         GroundFifo(d), GroundFetcher(d), RowsFollow(d), v.pixel_position < Width
  PROVE  Left(d, v)
<1> DEFINE p == d.pixel_position
           q == v.pixel_position
           c == BlankColumn
           b == Below
           s == line.scx
           k == Past(d)
           n == Pops(d)
           l == Len(d.bg_fifo)
           j == Len(v.bg_fifo)
<1>1. /\ p \in Int /\ c \in Int /\ c >= -7 /\ b \in 0 .. 7 /\ s \in 0 .. 255
      /\ (s - b) % 8 = 0 /\ Width \in Nat /\ n \in Nat /\ k \in Int
      /\ (p \in -16 .. -9 /\ p + 16 <= b) \/ p >= -7
      /\ n = (IF p < -8 THEN p + 16 ELSE (b + p) + 8)
  BY DEF AloneNumbers, LineNumbers, GroundNumbers, Column
<1>2. d.bg_fifo \in Seq(BgPixel)
  BY DEF AloneNumbers, Drawing
<1>3. l \in Nat /\ l >= 1 /\ j = l - 1 /\ (v.bg_fifo # <<>> => j # 0)
  <2> DEFINE f == d.bg_fifo
             g == v.bg_fifo
  <2>1. f \in Seq(BgPixel) /\ f # <<>> /\ g = Tail(f)
    BY <1>2
  <2> HIDE DEF f, g
  <2>2. Len(f) \in Nat /\ Len(f) >= 1 /\ Len(g) = Len(f) - 1
    BY <2>1
  <2>3. g \in Seq(BgPixel)
    BY <2>1, TailIsSeq
  <2>4. g # <<>> => Len(g) # 0
    BY <2>3
  <2> QED
    BY <2>2, <2>4 DEF f, g
<1>4. l \in 1 .. 8
  <2>1. CASE p = c
    <3>1. d.bg_fifo = <<Blank>>
      BY <2>1 DEF GroundFifo
    <3>2. l = 1
      BY <3>1
    <3> QED
      BY <3>2
  <2>2. CASE p # c
    <3>1. l <= 8
      BY <2>2 DEF GroundFifo
    <3> HIDE DEF l
    <3> QED
      BY <1>3, <3>1
  <2> QED
    BY <2>1, <2>2
<1>5. p = c => l = 1
  <2>1. p = c => d.bg_fifo = <<Blank>>
    BY DEF GroundFifo
  <2>2. Len(<<Blank>>) = 1
    OBVIOUS
  <2> QED
    BY <2>1, <2>2, Zenon
<1>6. q \in Int /\ q < Width /\ Pops(v) = n + 1
      /\ (p >= -7 => q = p + 1)
      /\ (p < -7 => (q = -7 /\ p + 16 = b) \/ (q = p + 1 /\ q < -8 /\ p + 16 < b))
  BY DEF Moves
<1>7. /\ k = (IF p > c THEN n - 1 ELSE n)
      /\ Past(v) = (IF q > c THEN Pops(v) - 1 ELSE Pops(v))
      /\ Stock(d) = (IF p = c THEN 0 ELSE l) /\ Stock(v) = (IF q = c THEN 0 ELSE j)
  BY DEF Past, Stock
<1>8. Origin(v) = Origin(d)
  BY DEF Origin
<1>9. c # Width => ~d.window_active /\ (c + b) % 8 = 0
  BY DEF AloneNumbers, LineNumbers, RowsFollow
<1>10. /\ ~d.window_active => Coming(d) = (k + Stock(d)) + ((s - b) - 8)
       /\ Coming(d) % 8 = 0
  BY DEF Coming, Origin, GroundFetcher
<1>11. Past(v) = (IF p = c THEN k ELSE k + 1)
  <2> HIDE DEF p, q, c, b, s, k, n, l, j
  <2> QED
    BY <1>1, <1>6, <1>7
<1>12. q = c => l = 1 /\ p # c
  <2> DEFINE r == Coming(d)
             e == s - b
  <2>1. e % 8 = 0
    BY <1>1, Zenon
  <2>2. ~d.window_active => r = (k + Stock(d)) + (e - 8)
    BY <1>10, Zenon
  <2>3. r % 8 = 0
    BY <1>10
  <2> HIDE DEF p, q, c, b, s, k, n, l, j, r
  <2>4. e \in Int
    BY <1>1
  <2> HIDE DEF e
  <2>5. ASSUME q = c
        PROVE  l = 1 /\ p # c
    <3>1. c # Width /\ p # c
      BY <1>1, <1>6, <2>5
    <3>2. ~d.window_active /\ (c + b) % 8 = 0
      BY <1>9, <3>1
    <3>3. k = n /\ n + 1 = (b + c) + 8
      BY <1>1, <1>6, <1>7, <2>5
    <3>4. Stock(d) = l
      BY <1>7, <3>1
    <3>5. r = (k + l) + (e - 8)
      BY <2>2, <3>2, <3>4
    <3>6. k = (b + c) + 7
      BY <1>1, <3>3
    <3>7. r = (((b + c) + 7) + l) + (e - 8)
      BY <3>5, <3>6
    <3>8. (b + c) % 8 = 0
      <4>1. b + c = c + b
        BY <1>1
      <4> QED
        BY <3>2, <4>1
    <3>9. l = 1
      <4> DEFINE y == b + c
      <4>1. y \in Int
        BY <1>1
      <4>2. y % 8 = 0 /\ r = ((y + 7) + l) + (e - 8)
        BY <3>7, <3>8
      <4> HIDE DEF y
      <4> QED
        BY <1>4, <2>1, <2>3, <2>4, <4>1, <4>2
    <3> QED
      BY <3>1, <3>9
  <2> QED
    BY <2>5
<1>13. /\ Stock(v) = (IF p = c THEN 0 ELSE Stock(d) - 1)
       /\ Past(v) + Stock(v) = k + Stock(d)
       /\ v.bg_fifo # <<>> => q # c /\ p # c
  <2> HIDE DEF p, q, c, b, s, k, n, l, j
  <2>1. Stock(v) = (IF p = c THEN 0 ELSE Stock(d) - 1)
    BY <1>1, <1>3, <1>4, <1>5, <1>6, <1>7, <1>12
  <2>2. Stock(d) \in Int /\ (p = c => Stock(d) = 0)
    BY <1>3, <1>7
  <2>3. Past(v) + Stock(v) = k + Stock(d)
    BY <1>1, <1>11, <2>1, <2>2
  <2>4. v.bg_fifo # <<>> => q # c /\ p # c
    BY <1>3, <1>5, <1>12
  <2> QED
    BY <2>1, <2>3, <2>4
<1>14. Coming(v) = Coming(d)
  BY <1>8, <1>13 DEF Coming
<1> QED
  BY <1>2, <1>4, <1>8, <1>11, <1>13, <1>14, Zenon DEF Left

\* The pixel that leaves does not change what the fetcher has found.
LEMMA GroundPops ==
  ASSUME NEW d, NEW v, AloneNumbers(d), Popped(d, v), SameRows(d, v), d.bg_fifo # <<>>,
         GroundFollows(d, 8), Decided(d), v.pixel_position < Width
  PROVE  GroundFollows(v, 7)
<1>1. /\ GroundFifo(d) /\ GroundFetcher(d) /\ Looks(d, 8) /\ RowsFollow(d) /\ WindowToCome(d)
  BY DEF GroundFollows
<1>2. /\ v.bg_fifo = Tail(d.bg_fifo) /\ v.window_active = d.window_active
      /\ v.fetcher = d.fetcher /\ v.pixel_position = Position(d) + 1 /\ v.scx_low = d.scx_low
  BY DEF Popped, SameRegisters
<1>3. Moves(d, v)
  BY <1>2, PixelMovesOn
<1>4. Left(d, v)
  BY <1>1, <1>2, <1>3, PixelIsLeft
<1>5. GroundFifo(v)
  <2> DEFINE g == v.bg_fifo
             f == d.bg_fifo
  <2>1. f \in Seq(BgPixel) /\ g = Tail(f) /\ Len(f) \in 1 .. 8 /\ f # <<>>
    BY <1>4 DEF Left
  <2>2. CASE g = <<>>
    <3>1. Len(g) = 0 /\ Len(g) <= 8
      BY <2>2
    <3> QED
      BY <2>2, <3>1 DEF GroundFifo
  <2>3. CASE g # <<>>
    <3>1. /\ v.pixel_position # BlankColumn /\ d.pixel_position # BlankColumn
          /\ Past(v) = Past(d) + 1 /\ Origin(v) = Origin(d)
      BY <1>4, <2>3 DEF Left
    <3>2. \A i \in 1 .. Len(f) : f[i] = TilePixel(d, (Past(d) + i) - 1)
      BY <1>1, <3>1 DEF GroundFifo
    <3>3. Past(d) \in Int
      BY DEF AloneNumbers, GroundNumbers
    <3>4. Len(g) = Len(f) - 1 /\ \A i \in 1 .. Len(g) : g[i] = f[i + 1] /\ i + 1 \in 1 .. Len(f)
      <4> HIDE DEF f, g
      <4>2. Len(Tail(f)) = Len(f) - 1 /\ \A i \in 1 .. Len(Tail(f)) : Tail(f)[i] = f[i + 1]
        BY <2>1, HeadTailProperties
      <4>1. Len(g) = Len(f) - 1
        BY <2>1, <4>2, Zenon
      <4>3. Len(f) \in Nat
        BY <2>1
      <4>4. \A i \in 1 .. Len(g) : i + 1 \in 1 .. Len(f)
        BY <4>1, <4>3
      <4>5. \A i \in 1 .. Len(g) : g[i] = f[i + 1]
        BY <2>1, <4>1, <4>2, Zenon
      <4> QED
        BY <4>1, <4>4, <4>5
    <3>5. ASSUME NEW i \in 1 .. Len(g)
          PROVE  g[i] = TilePixel(v, (Past(v) + i) - 1)
      <4> DEFINE k == Past(d)
      <4>1. (k + (i + 1)) - 1 = ((k + 1) + i) - 1
        <5> HIDE DEF k
        <5> QED
          BY <3>3, <3>5 DEF k
      <4>2. f[i + 1] = TilePixel(d, (k + (i + 1)) - 1)
        BY <3>2, <3>4
      <4>3. \A j : TilePixel(v, j) = TilePixel(d, j)
        BY <1>2, <3>1, Zenon DEF TilePixel
      <4>4. g[i] = TilePixel(d, ((k + 1) + i) - 1)
        BY <3>4, <4>1, <4>2
      <4> QED
        BY <3>1, <4>3, <4>4
    <3>6. Len(g) <= 8
      <4> DEFINE m == Len(f)
                 n == Len(g)
      <4>1. m \in 1 .. 8 /\ n = m - 1
        BY <2>1, <3>4, Zenon
      <4> HIDE DEF m, n
      <4>2. n <= 8
        BY <4>1
      <4> QED
        BY <4>2 DEF n
    <3> QED
      BY <3>1, <3>5, <3>6 DEF GroundFifo
  <2> QED
    BY <2>2, <2>3
<1>6. GroundFetcher(v)
  BY <1>1, <1>2, <1>4, ZenonT(60) DEF GroundFetcher, Left
<1>7. Looks(v, 7)
  <2> DEFINE m == Stock(d)
             n == Stock(v)
             s == d.fetcher.step
  <2>1. s = 0 => m \in 8 .. 8 \/ (d.window_active /\ m = 0)
    BY <1>1 DEF Looks
  <2>2. s = 0 => d.pixel_position # BlankColumn
    BY <1>1 DEF GroundFifo
  <2>3. d.pixel_position # BlankColumn => n = m - 1 /\ m = Len(d.bg_fifo) /\ m # 0
    BY <1>4 DEF Left, Stock
  <2> HIDE DEF m, n
  <2>4. s = 0 => n \in 7 .. 8
    BY <2>1, <2>2, <2>3
  <2> QED
    BY <1>2, <2>4 DEF Looks, n
<1> DEFINE p == d.pixel_position
           q == v.pixel_position
           x == line.wx
           b == Below
<1>8. /\ p \in Int /\ q \in Int /\ x \in 0 .. 255 /\ b \in 0 .. 7 /\ Width \in Nat /\ Width > 8
      /\ (p \in -16 .. -9 /\ p + 16 <= b) \/ p >= -7
      /\ q < Width
      /\ (p >= -7 => q = p + 1)
      /\ (p < -7 => (q = -7 /\ p + 16 = b) \/ (q = p + 1 /\ q < -8 /\ p + 16 < b))
      /\ Pops(v) = Pops(d) + 1 /\ Pops(d) \in Nat /\ WindowStart \in Int
  BY <1>3 DEF AloneNumbers, LineNumbers, GroundNumbers, Moves, Column
<1>9. RowsFollow(v)
  <2>1. Pops(d) >= WindowStart => Pops(v) >= WindowStart
    <3> DEFINE n == Pops(d)
               w == WindowStart
    <3>1. n \in Nat /\ w \in Int /\ Pops(v) = n + 1
      BY <1>8
    <3> HIDE DEF n, w
    <3>2. n >= w => n + 1 >= w
      BY <3>1
    <3> QED
      BY <3>1, <3>2 DEF n, w
  <2>2. p # Width - 1
    <3> HIDE DEF p, q, x, b
    <3> QED
      BY <1>8
  <2> QED
    BY <1>1, <1>2, <2>1, <2>2, Zenon DEF RowsFollow, SameRows
<1>10. WindowToCome(v)
  <2> SUFFICES ASSUME ~d.window_active, Enabled, x < Width + 6
               PROVE  IF x # 0 THEN q <= x - 7 ELSE q = -16 \/ (b = 0 /\ q = -7)
    BY <1>2 DEF WindowToCome
  <2>1. IF x # 0 THEN p <= x - 7 ELSE p = -16 \/ (b = 0 /\ p = -7)
    BY <1>1 DEF WindowToCome
  <2>2. ~WindowReached(d)
    BY DEF Decided
  <2>3. IF x = 0 THEN ~(\/ p = -7
                        \/ p = -16 /\ b # 0
                        \/ p \in -15 .. -8)
                 ELSE ~(x < Width + 6 /\ x = p + 7)
    BY <2>2, Zenon DEF WindowReached, AloneNumbers
  <2> HIDE DEF p, q, x, b
  <2> QED
    BY <1>8, <2>1, <2>3
<1> QED
  BY <1>5, <1>6, <1>7, <1>9, <1>10 DEF GroundFollows

\* The fetcher goes on as long as the window is there.
LEMMA FollowsIsSteady ==
  ASSUME NEW d, AloneNumbers(d), GroundFetcher(d), RowsFollow(d)
  PROVE  Steady(d)
<1>1. line.wx \in 0 .. 255 /\ Width \in Nat
  BY DEF AloneNumbers, LineNumbers
<1>2. line.wx < Width + 6 => line.wx <= Width + 6
  BY <1>1
<1> QED
  BY <1>2, Zenon DEF AloneNumbers, GroundFetcher, RowsFollow, Steady

\* The tile of the background that the fetcher finds comes next.
LEMMA TileComesNext ==
  ASSUME NEW d, AloneNumbers(d), ~d.window_active, GroundFetcher(d), Stock(d) \in 7 .. 8
  PROVE  8 * TileOfBackground(d) = Coming(d) % 256
<1> DEFINE p == d.pixel_position
           c == BlankColumn
           b == Below
           s == line.scx
           k == Past(d)
           n == Pops(d)
           m == Stock(d)
           r == Coming(d)
           t == TileOfBackground(d)
<1>1. /\ p \in Int /\ c \in Int /\ c >= -7 /\ b \in 0 .. 7 /\ s \in 0 .. 255
      /\ n \in Nat /\ k \in Int /\ r \in Int /\ s >= b
      /\ (p \in -16 .. -9 /\ p + 16 <= b) \/ p >= -7
      /\ n = (IF p < -8 THEN p + 16 ELSE (b + p) + 8)
  BY DEF AloneNumbers, LineNumbers, GroundNumbers, Column
<1>2. r = (k + m) + ((s - b) - 8)
  BY DEF Coming, Origin
<1>3. r % 8 = 0 /\ k + m >= 8
  BY DEF GroundFetcher
<1>4. k = (IF p > c THEN n - 1 ELSE n)
  BY DEF Past
<1>5. t = (IF p < -8 THEN s \div 8 ELSE ((s + p + 8) \div 8) % 32)
  BY DEF TileOfBackground, AloneNumbers, MapTiles
<1>6. m \in 7 .. 8
  OBVIOUS
<1>7. b = s % 8
  BY DEF Below
<1> HIDE DEF p, c, b, s, k, n, m, r, t
<1>8. CASE p < -8
  <2>1. k <= 7
    BY <1>1, <1>4, <1>8
  <2> DEFINE e == s - b
             w == k + m
  <2>2. e = 8 * (s \div 8) /\ e \in 0 .. 255
    BY <1>1, <1>7
  <2>3. w \in 8 .. 15 /\ r = w + (e - 8)
    BY <1>1, <1>2, <1>3, <1>6, <2>1
  <2>4. e % 8 = 0
    BY <1>1, <1>7
  <2> HIDE DEF e, w
  <2>5. w = 8
    BY <1>3, <2>2, <2>3, <2>4
  <2>6. r = e
    BY <2>2, <2>3, <2>5
  <2>7. r % 256 = r
    BY <2>2, <2>6
  <2>8. 8 * t = r % 256
    BY <1>5, <1>8, <2>2, <2>6, <2>7
  <2> QED
    BY <2>8 DEF t, r
<1>9. CASE p >= -8
  <2> DEFINE z == (s + p) + 8
  <2>1. z \in Int /\ z \in r .. r + 7
    BY <1>1, <1>2, <1>4, <1>6, <1>9
  <2>2. t = (z \div 8) % 32
    <3>1. (s + p + 8) = z
      BY <1>1
    <3> QED
      BY <1>1, <1>5, <1>9, <3>1
  <2> HIDE DEF z
  <2>3. 8 * ((z \div 8) % 32) = r % 256
    BY <1>1, <1>3, <2>1, TileOfColumn
  <2> QED
    BY <2>2, <2>3 DEF t, r
<1> QED
  BY <1>1, <1>8, <1>9 DEF t, r

\* The pixels of the tile that comes next follow those of the FIFO.
LEMMA PixelsFollow ==
  ASSUME NEW d, NEW u, AloneNumbers(d), GroundFetcher(d), d.fetcher.step >= 5,
         u.bg_fifo = FetchedPixels(d.fetcher), Stock(d) = 0,
         Past(u) = Past(d), u.window_active = d.window_active
  PROVE  /\ Len(u.bg_fifo) = 8
         /\ \A i \in 1 .. Len(u.bg_fifo) : u.bg_fifo[i] = TilePixel(u, (Past(u) + i) - 1)
<1> DEFINE t == d.fetcher.tile
           r == Coming(d)
           k == Past(d)
           o == Origin(d)
           f == FetchedPixels(d.fetcher)
<1>1. t \in Int /\ r \in Int /\ k \in Int /\ o \in Int
  BY DEF AloneNumbers, GroundNumbers
<1>2. r % 8 = 0 /\ (~d.window_active => k >= 8) /\ d.fetcher.window = d.window_active
  BY <1>1 DEF GroundFetcher
<1>3. 8 * t = r % 256
  <2>1. d.fetcher.step \in 0 .. 6
    BY DEF AloneNumbers, GroundNumbers
  <2> QED
    BY <2>1 DEF GroundFetcher
<1>4. r = k + o
  BY <1>1 DEF Coming
<1>5. Len(f) = 8
  <2>1. f \in [1 .. 8 -> {f[i] : i \in 1 .. 8}]
    BY DEF FetchedPixels
  <2> HIDE DEF f
  <2> QED
    BY <2>1, RunOfPixels
<1>6. ASSUME NEW i \in 1 .. 8
      PROVE  f[i] = TilePixel(u, (k + i) - 1)
  <2>1. f[i] = [layer |-> IF d.window_active THEN "window" ELSE "bg",
                column |-> (8 * t + i) - 1]
    BY <1>2 DEF FetchedPixels
  <2> DEFINE j == (k + i) - 1
  <2>2. Origin(u) = o
    BY DEF Origin
  <2>3. ~(~u.window_active /\ j < 8)
    <3>1. ~d.window_active => k >= 8
      BY <1>2
    <3> HIDE DEF k
    <3> QED
      BY <1>1, <3>1
  <2>4. TilePixel(u, j) = [layer |-> IF d.window_active THEN "window" ELSE "bg",
                           column |-> (j + o) % 256]
    BY <2>2, <2>3, Zenon DEF TilePixel
  <2>5. (8 * t + i) - 1 = (j + o) % 256
    <3> HIDE DEF t, r, k, o
    <3>1. j + o = (r + i) - 1
      BY <1>1, <1>4
    <3>2. (8 * t + i) - 1 = ((r + i) - 1) % 256
      BY <1>1, <1>2, <1>3, ColumnsOfTile
    <3> QED
      BY <3>1, <3>2
  <2> QED
    BY <2>1, <2>4, <2>5
<1> HIDE DEF f, k
<1> QED
  BY <1>5, <1>6 DEF f, k

\* A dot of the fetcher keeps what it has found.
LEMMA GroundAdvances ==
  ASSUME NEW d, NEW u, AloneNumbers(d), FetcherTold(d, u), GroundFollows(d, 7),
         u.pixel_position = d.pixel_position, u.scx_low = d.scx_low, d.pixel_position < Width
  PROVE  GroundFollows(u, 8)
<1>1. /\ GroundFifo(d) /\ GroundFetcher(d) /\ Looks(d, 7) /\ RowsFollow(d) /\ WindowToCome(d)
  BY DEF GroundFollows
<1>2. /\ d.fetcher.step \in 0 .. 6 /\ d.fetcher.x \in Int /\ Coming(d) \in Int
      /\ d.window_active \in BOOLEAN /\ Past(d) \in Int /\ Stock(d) \in Nat /\ Origin(d) \in Int
  BY DEF AloneNumbers, GroundNumbers
<1>3. /\ SameRows(d, u) /\ u.window_active = d.window_active
      /\ u.fetcher.window = d.fetcher.window
  BY DEF FetcherTold
<1>4. Pops(u) = Pops(d)
  BY DEF Pops
<1>5. Past(u) = Past(d) /\ Origin(u) = Origin(d)
  BY <1>3, <1>4, Zenon DEF Past, Origin
<1>6. RowsFollow(u) /\ WindowToCome(u)
  BY <1>1, <1>3, <1>4, Zenon DEF RowsFollow, WindowToCome, SameRows
<1>7. \A k : TilePixel(u, k) = TilePixel(d, k)
  BY <1>3, <1>5, Zenon DEF TilePixel
<1> DEFINE w == d.window_active
           r == Coming(d)
<1>8. d.bg_fifo = <<>> =>
        (LeavesBlankPixel(d) <=> d.pixel_position = BlankColumn)
  BY <1>1, BlankPixelComes
<1>9. ASSUME u.bg_fifo = d.bg_fifo
      PROVE  Stock(u) = Stock(d) /\ Coming(u) = Coming(d)
  BY <1>5, <1>9 DEF Stock, Coming
<1>10. u.fetcher.window = u.window_active
  BY <1>1, <1>3 DEF GroundFetcher
<1>11. CASE d.fetcher.step < 5
  <2>1. /\ u.bg_fifo = d.bg_fifo /\ u.fetcher.step = d.fetcher.step + 1
        /\ u.fetcher.x = d.fetcher.x
        /\ u.fetcher.tile = IF d.fetcher.step # 0 THEN d.fetcher.tile
                            ELSE IF w THEN d.fetcher.x ELSE TileOfBackground(d)
    BY <1>2, <1>11 DEF FetcherTold
  <2>2. Stock(u) = Stock(d) /\ Coming(u) = Coming(d)
    BY <1>9, <2>1
  <2>3. d.fetcher.step # 6 /\ u.fetcher.step # 6 /\ u.fetcher.step # 0
    BY <1>2, <1>11, <2>1
  <2>4. GroundFifo(u)
    BY <1>1, <1>5, <1>7, <2>1, <2>3, Zenon DEF GroundFifo
  <2>5. 8 * u.fetcher.tile = r % 256
    <3>1. CASE d.fetcher.step # 0
      <4>1. d.fetcher.step >= 1
        BY <1>2, <3>1
      <4> QED
        BY <1>1, <2>1, <3>1, <4>1, Zenon DEF GroundFetcher
    <3>2. CASE d.fetcher.step = 0 /\ w
      BY <1>1, <2>1, <2>3, <3>2, Zenon DEF GroundFetcher
    <3>3. CASE d.fetcher.step = 0 /\ ~w
      <4>1. Stock(d) \in 7 .. 8
        BY <1>1, <3>3 DEF Looks
      <4>2. 8 * TileOfBackground(d) = Coming(d) % 256
        BY <1>1, <3>3, <4>1, TileComesNext
      <4> QED
        BY <2>1, <3>3, <4>2, Zenon
    <3> QED
      BY <3>1, <3>2, <3>3
  <2>6. GroundFetcher(u)
    BY <1>1, <1>3, <1>5, <1>10, <2>1, <2>2, <2>3, <2>5, ZenonT(60) DEF GroundFetcher
  <2>7. Looks(u, 8)
    BY <2>3 DEF Looks
  <2> QED
    BY <1>6, <2>4, <2>6, <2>7 DEF GroundFollows
<1>12. ASSUME d.fetcher.step >= 5
       PROVE  w => /\ 8 * u.fetcher.x = (r + 8) % 256
                   /\ ~(d.fetcher.step < 5)
  <2>1. d.fetcher.step = 5 \/ d.fetcher.step = 6
    BY <1>2, <1>12
  <2>2. w => 8 * d.fetcher.x = (IF d.fetcher.step = 6 THEN r + 8 ELSE r) % 256
    BY <1>1 DEF GroundFetcher
  <2>3. u.fetcher.x = IF d.fetcher.step = 5 /\ w THEN (d.fetcher.x + 1) % 32 ELSE d.fetcher.x
    BY DEF FetcherTold, MapTiles
  <2>4. CASE d.fetcher.step = 6
    BY <2>2, <2>3, <2>4
  <2>5. CASE d.fetcher.step = 5
    <3> SUFFICES ASSUME w
                 PROVE  8 * u.fetcher.x = (r + 8) % 256
      BY <2>5
    <3> DEFINE x == d.fetcher.x
    <3>1. 8 * x = r % 256 /\ r % 8 = 0
      BY <1>1, <2>2, <2>5 DEF GroundFetcher
    <3>2. u.fetcher.x = (x + 1) % 32
      BY <2>3, <2>5
    <3>3. x \in Int /\ r \in Int
      BY <1>2
    <3> HIDE DEF x, r
    <3>4. 8 * ((x + 1) % 32) = (r + 8) % 256
      BY <3>1, <3>3, TileAfter
    <3> QED
      BY <3>2, <3>4
  <2> QED
    BY <2>1, <2>4, <2>5
<1>13. d.fetcher.step >= 5 =>
         u.fetcher.tile = d.fetcher.tile /\ 8 * d.fetcher.tile = r % 256 /\ d.fetcher.step # 0
  <2>1. d.fetcher.step >= 5 => d.fetcher.step >= 1 /\ d.fetcher.step # 0
    BY <1>2
  <2> QED
    BY <1>1, <2>1 DEF FetcherTold, GroundFetcher
<1>14. CASE d.fetcher.step >= 5 /\ d.bg_fifo # <<>>
  <2>1. u.bg_fifo = d.bg_fifo /\ u.fetcher.step = 6
    BY <1>14 DEF FetcherTold
  <2>2. Stock(u) = Stock(d) /\ Coming(u) = Coming(d)
    BY <1>9, <2>1
  <2>3. GroundFifo(u)
    BY <1>1, <1>5, <1>7, <2>1, Zenon DEF GroundFifo
  <2>4. GroundFetcher(u)
    <3>1. w => 8 * u.fetcher.x = (Coming(u) + 8) % 256
      BY <1>12, <1>14, <2>2
    <3>2. 8 * u.fetcher.tile = Coming(u) % 256
      BY <1>13, <1>14, <2>2
    <3> QED
      BY <1>1, <1>3, <1>5, <1>10, <2>1, <2>2, <3>1, <3>2, Zenon DEF GroundFetcher
  <2>5. Looks(u, 8)
    BY <2>1 DEF Looks
  <2> QED
    BY <1>6, <2>3, <2>4, <2>5 DEF GroundFollows
<1>15. CASE d.fetcher.step >= 5 /\ d.bg_fifo = <<>> /\ d.pixel_position = BlankColumn
  <2>1. u.bg_fifo = <<Blank>> /\ u.fetcher.step = 6
    BY <1>8, <1>15 DEF FetcherTold
  <2>2. Stock(u) = 0 /\ Stock(d) = 0 /\ Coming(u) = Coming(d)
    BY <1>5, <1>15 DEF Stock, Coming
  <2>3. GroundFifo(u)
    BY <1>15, <2>1 DEF GroundFifo
  <2>4. GroundFetcher(u)
    <3>1. w => 8 * u.fetcher.x = (Coming(u) + 8) % 256
      BY <1>12, <1>15, <2>2
    <3>2. 8 * u.fetcher.tile = Coming(u) % 256
      BY <1>13, <1>15, <2>2
    <3> QED
      BY <1>1, <1>3, <1>5, <1>10, <2>1, <2>2, <3>1, <3>2, Zenon DEF GroundFetcher
  <2>5. Looks(u, 8)
    BY <2>1 DEF Looks
  <2> QED
    BY <1>6, <2>3, <2>4, <2>5 DEF GroundFollows
<1>16. CASE d.fetcher.step >= 5 /\ d.bg_fifo = <<>> /\ d.pixel_position # BlankColumn
  <2>1. u.bg_fifo = FetchedPixels(d.fetcher) /\ u.fetcher.step = 0
    BY <1>8, <1>16 DEF FetcherTold
  <2>2. Stock(d) = 0
    BY <1>16 DEF Stock
  <2>3. /\ Len(u.bg_fifo) = 8
        /\ \A i \in 1 .. Len(u.bg_fifo) : u.bg_fifo[i] = TilePixel(u, (Past(u) + i) - 1)
    BY <1>1, <1>3, <1>5, <1>16, <2>1, <2>2, PixelsFollow
  <2>4. Stock(u) = 8
    BY <1>16, <2>3 DEF Stock
  <2>5. Coming(u) = r + 8
    BY <1>2, <1>5, <2>2, <2>4 DEF Coming
  <2>6. GroundFifo(u)
    BY <1>16, <2>3 DEF GroundFifo
  <2>7. GroundFetcher(u)
    <3>1. Coming(u) % 8 = 0
      <4>1. r \in Int /\ r % 8 = 0
        BY <1>1, <1>2 DEF GroundFetcher
      <4> HIDE DEF r
      <4>2. (r + 8) % 8 = 0
        BY <4>1
      <4> QED
        BY <2>5, <4>2
    <3>2. ~u.window_active => Past(u) + Stock(u) >= 8
      <4>1. ~w => Past(d) + Stock(d) >= 8
        BY <1>1 DEF GroundFetcher
      <4> QED
        BY <1>2, <1>3, <1>5, <2>2, <2>4, <4>1
    <3>3. w => 8 * u.fetcher.x = Coming(u) % 256
      BY <1>12, <1>16, <2>5
    <3>4. ~(u.fetcher.step >= 1) /\ u.fetcher.step # 6
      BY <2>1
    <3> QED
      BY <1>3, <1>10, <3>1, <3>2, <3>3, <3>4, Zenon DEF GroundFetcher
  <2>8. Looks(u, 8)
    BY <2>4 DEF Looks
  <2> QED
    BY <1>6, <2>6, <2>7, <2>8 DEF GroundFollows
<1>17. d.fetcher.step < 5 \/ d.fetcher.step >= 5
  BY <1>2
<1> QED
  BY <1>11, <1>14, <1>15, <1>16, <1>17

\* A pixel of the window is the one that the line has there.
LEMMA GroundOfWindow ==
  ASSUME NEW d, AloneNumbers(d), d.pixel_position >= 0, d.pixel_position < Width,
         d.window_active, RowsFollow(d), "bg" \in line.lcdc
  PROVE  TilePixel(d, Past(d)) = Ground(d.pixel_position)
<1> DEFINE n == d.pixel_position
           x == line.wx
           b == Below
           k == Past(d)
           w == WindowStart
           l == WindowLeft
<1>1. /\ n \in Int /\ x \in 0 .. 255 /\ b \in 0 .. 7 /\ Width \in Nat
      /\ Pops(d) = (IF n < -8 THEN n + 16 ELSE (b + n) + 8) /\ w \in Int
  BY DEF AloneNumbers, LineNumbers, GroundNumbers
<1>2. Enabled /\ x < Width + 6 /\ Pops(d) >= w
  BY DEF RowsFollow
<1>3. BlankColumn = Width
  BY <1>2 DEF AloneNumbers, LineNumbers
<1>4. n < Width /\ n >= 0
  OBVIOUS
<1>5. ~(n > Width) /\ n # Width
  <2> HIDE DEF n
  <2> QED
    BY <1>1, <1>4
<1>6. k = Pops(d)
  BY <1>3, <1>5 DEF Past
<1>7. w = IF x = 0 /\ b # 0 THEN 0 ELSE (b + x) + 1
  BY DEF WindowStart
<1>8. l = IF x = 0 /\ b # 0 THEN -8 - b ELSE x - 7
  BY DEF WindowLeft
<1>9. k + (-w) = n - l /\ n >= l
  <2> HIDE DEF n, x, b, k, w, l
  <2> QED
    BY <1>1, <1>2, <1>4, <1>6, <1>7, <1>8
<1>10. TilePixel(d, k) = [layer |-> "window", column |-> (n - l) % 256]
  <2>1. Origin(d) = -w
    BY DEF Origin
  <2>2. TilePixel(d, k) = [layer |-> "window", column |-> (k + Origin(d)) % 256]
    BY Zenon DEF TilePixel
  <2> HIDE DEF n, k, l, w
  <2> QED
    BY <1>9, <2>1, <2>2
<1>11. Ground(n) = [layer |-> "window", column |-> (n - l) % 256]
  <2>1. ShowsWindow(n)
    BY <1>2, <1>9 DEF ShowsWindow
  <2>2. ~("bg" \notin line.lcdc \/ n = BlankColumn)
    BY <1>3, <1>5
  <2>3. 8 * MapTiles = 256
    BY DEF MapTiles
  <2> HIDE DEF n, l
  <2>4. Ground(n) = [layer |-> "window", column |-> (n - WindowLeft) % (8 * MapTiles)]
    BY <2>1, <2>2 DEF Ground
  <2> QED
    BY <2>3, <2>4 DEF l
<1> QED
  BY <1>10, <1>11

\* So is a pixel of the background, after the blank pixel or before it.
LEMMA GroundOfBackground ==
  ASSUME NEW d, AloneNumbers(d), d.pixel_position >= 0, d.pixel_position < Width,
         ~d.window_active, WindowToCome(d), Decided(d), d.pixel_position # BlankColumn,
         "bg" \in line.lcdc
  PROVE  TilePixel(d, Past(d)) = Ground(d.pixel_position)
<1> DEFINE n == d.pixel_position
           x == line.wx
           b == Below
           s == line.scx
           c == BlankColumn
           k == Past(d)
           l == WindowLeft
           j == IF n > c THEN n - 1 ELSE n
<1>1. /\ n \in Int /\ x \in 0 .. 255 /\ b \in 0 .. 7 /\ s \in 0 .. 255 /\ Width \in Nat
      /\ c \in Int /\ c >= -7 /\ Pops(d) = (IF n < -8 THEN n + 16 ELSE (b + n) + 8)
      /\ (c # Width => c + b >= 0)
  BY DEF AloneNumbers, LineNumbers, GroundNumbers
<1>2. n < Width /\ n >= 0 /\ n # c
  OBVIOUS
<1>3. k = (IF n > c THEN Pops(d) - 1 ELSE Pops(d))
  BY DEF Past
<1>4. l = IF x = 0 /\ b # 0 THEN -8 - b ELSE x - 7
  BY DEF WindowLeft
<1>5. /\ k + ((s - b) - 8) = s + j /\ k >= 8 /\ j \in Int
  <2> DEFINE v == Pops(d)
  <2>1. v = IF n < -8 THEN n + 16 ELSE (b + n) + 8
    BY <1>1
  <2>2. k = IF n > c THEN v - 1 ELSE v
    BY <1>3
  <2>3. n \in Int /\ b \in 0 .. 7 /\ s \in 0 .. 255 /\ Width \in Nat /\ c \in Int
    BY <1>1
  <2>4. c # Width => c + b >= 0
    BY <1>1
  <2>5. j = IF n > c THEN n - 1 ELSE n
    OBVIOUS
  <2> HIDE DEF n, x, b, k, s, c, v, j
  <2>6. v = (b + n) + 8 /\ v \in Int
    BY <1>2, <2>1, <2>3
  <2>7. CASE n > c
    <3>1. k = v - 1 /\ j = n - 1
      BY <2>2, <2>5, <2>7
    <3>2. c + b >= 0
      BY <1>2, <2>3, <2>4, <2>7
    <3> QED
      BY <2>3, <2>6, <2>7, <3>1, <3>2
  <2>8. CASE ~(n > c)
    <3>1. k = v /\ j = n
      BY <2>2, <2>5, <2>8
    <3> QED
      BY <1>2, <2>3, <2>6, <3>1
  <2> QED
    BY <2>7, <2>8
<1>6. ~ShowsWindow(n)
  <2> SUFFICES ASSUME Enabled, x < Width + 6, n >= l
               PROVE  FALSE
    BY DEF ShowsWindow
  <2>1. IF x # 0 THEN n <= x - 7 ELSE n = -16 \/ (b = 0 /\ n = -7)
    BY DEF WindowToCome
  <2>2. ~WindowReached(d)
    BY DEF Decided
  <2>3. x # 0 => ~(x < Width + 6 /\ x = n + 7)
    BY <2>2, Zenon DEF WindowReached, AloneNumbers
  <2>4. n >= l /\ x < Width + 6
    OBVIOUS
  <2> HIDE DEF n, x, b, l
  <2> QED
    BY <1>1, <1>2, <1>4, <2>1, <2>3, <2>4
<1>7. TilePixel(d, k) = [layer |-> "bg", column |-> (s + j) % 256]
  <2>1. Origin(d) = (s - b) - 8
    BY DEF Origin
  <2>2. ~(k < 8)
    <3>1. k \in Int /\ k >= 8
      BY <1>5 DEF AloneNumbers, GroundNumbers
    <3> HIDE DEF k
    <3> QED
      BY <3>1
  <2>3. TilePixel(d, k) = [layer |-> "bg", column |-> (k + Origin(d)) % 256]
    BY <2>2, Zenon DEF TilePixel
  <2> HIDE DEF n, k, s, b, j
  <2> QED
    BY <1>5, <2>1, <2>3
<1>8. Ground(n) = [layer |-> "bg", column |-> (s + j) % 256]
  <2>1. 8 * MapTiles = 256
    BY DEF MapTiles
  <2>2. "bg" \in line.lcdc /\ n # BlankColumn /\ ~ShowsWindow(n)
    BY <1>2, <1>6
  <2> DEFINE m == n
  <2>3. Ground(m) = [layer |-> "bg",
                     column |-> (s + IF m > BlankColumn THEN m - 1 ELSE m) % (8 * MapTiles)]
    BY <2>2, Zenon DEF Ground
  <2>4. Ground(n) = [layer |-> "bg", column |-> (s + j) % (8 * MapTiles)]
    BY <2>3
  <2> HIDE DEF n, s, j
  <2> QED
    BY <2>1, <2>4
<1> QED
  BY <1>7, <1>8

\* The pixel that leaves next is the one that the line has there.
LEMMA GroundIsShown ==
  ASSUME NEW d, AloneNumbers(d), GroundFollows(d, 8), Decided(d), d.bg_fifo # <<>>,
         d.pixel_position >= 0, d.pixel_position < Width, "bg" \in line.lcdc
  PROVE  Head(d.bg_fifo) = Ground(d.pixel_position)
<1>1. /\ GroundFifo(d) /\ GroundFetcher(d) /\ RowsFollow(d) /\ WindowToCome(d)
  BY DEF GroundFollows
<1>2. CASE d.pixel_position = BlankColumn
  <2>1. d.bg_fifo = <<Blank>>
    BY <1>1, <1>2 DEF GroundFifo
  <2>2. Head(d.bg_fifo) = Blank
    BY <2>1
  <2>3. Ground(d.pixel_position) = Blank
    <3>1. BlankColumn # Width
      BY <1>2 DEF AloneNumbers, LineNumbers, GroundNumbers
    <3>2. ~ShowsWindow(d.pixel_position)
      BY <3>1 DEF ShowsWindow, AloneNumbers, LineNumbers
    <3> QED
      BY <1>2, <3>2 DEF Ground
  <2> QED
    BY <2>2, <2>3
<1>3. CASE d.pixel_position # BlankColumn
  <2> DEFINE f == d.bg_fifo
  <2>1. f \in Seq(BgPixel) /\ f # <<>>
    BY DEF AloneNumbers, Drawing
  <2>2. 1 \in 1 .. Len(f) /\ Head(f) = f[1]
    <3> HIDE DEF f
    <3> QED
      BY <2>1
  <2>3. f[1] = TilePixel(d, (Past(d) + 1) - 1)
    BY <1>1, <1>3, <2>2 DEF GroundFifo
  <2>4. (Past(d) + 1) - 1 = Past(d)
    BY DEF AloneNumbers, GroundNumbers
  <2>5. TilePixel(d, Past(d)) = Ground(d.pixel_position)
    <3>1. CASE d.window_active
      BY <1>1, <3>1, GroundOfWindow
    <3>2. CASE ~d.window_active
      BY <1>1, <1>3, <3>2, GroundOfBackground
    <3> QED
      BY <3>1, <3>2
  <2> QED
    BY <2>2, <2>3, <2>4, <2>5
<1> QED
  BY <1>2, <1>3

\* The rows that the window has gone on by at the end of the line.
LEMMA RowsAreCounted ==
  ASSUME NEW d, AloneNumbers(d), RowsFollow(d), WindowToCome(d), Decided(d),
         d.pixel_position = Width - 1
  PROVE  (IF d.window_triggered THEN d.window_line + 1 ELSE d.window_line) = RowsOfWindow
<1> DEFINE x == line.wx
<1>1. x \in 0 .. 255 /\ Width \in Nat /\ Width > 8
  BY DEF AloneNumbers, LineNumbers
<1>2. RowsOfWindow = CASE ~Enabled \/ x > Width + 6 -> 0
                       [] Enabled /\ x = Width + 6 -> 2
                       [] OTHER -> 1
  BY DEF RowsOfWindow
<1>3. x < Width + 6 => ~(x > Width + 6) /\ x # Width + 6
  BY <1>1
<1>4. x = Width + 6 => ~(x > Width + 6)
  BY <1>1
<1>5. CASE d.window_active
  <2>1. Enabled /\ x < Width + 6 /\ d.window_triggered /\ d.window_line = 0
    BY <1>5 DEF RowsFollow
  <2>2. RowsOfWindow = 1
    BY <1>2, <1>3, <2>1
  <2> QED
    BY <2>1, <2>2
<1>6. CASE ~d.window_active
  <2>1. ~(Enabled /\ x < Width + 6)
    <3> SUFFICES ASSUME Enabled, x < Width + 6
                 PROVE  FALSE
      OBVIOUS
    <3>1. IF x # 0 THEN d.pixel_position <= x - 7
          ELSE d.pixel_position = -16 \/ (Below = 0 /\ d.pixel_position = -7)
      BY <1>6 DEF WindowToCome
    <3>2. x < Width + 6
      OBVIOUS
    <3> DEFINE p == d.pixel_position
    <3>3. p = Width - 1
      OBVIOUS
    <3> HIDE DEF x, p
    <3>4. ~(p <= x - 7) /\ p # -16 /\ p # -7
      BY <1>1, <3>2, <3>3
    <3> QED
      BY <3>1, <3>4 DEF p
  <2>2. CASE ~d.window_triggered /\ d.window_line = 0
    <3>1. ~(Enabled /\ x = Width + 6)
      BY <2>2 DEF Decided
    <3>2. ~Enabled \/ x > Width + 6
      <4>1. x < Width + 6 \/ x = Width + 6 \/ x > Width + 6
        BY <1>1
      <4> QED
        BY <2>1, <3>1, <4>1
    <3>3. RowsOfWindow = 0
      BY <1>2, <3>1, <3>2
    <3> QED
      BY <2>2, <3>3
  <2>3. CASE d.window_triggered /\ d.window_line = 1 /\ Enabled /\ x = Width + 6
    <3>1. RowsOfWindow = 2
      BY <1>2, <1>4, <2>3
    <3> QED
      BY <2>3, <3>1
  <2> QED
    BY <1>6, <2>2, <2>3 DEF RowsFollow
<1> QED
  BY <1>5, <1>6

-----------------------------------------------------------------------------
(* The objects. *)

\* An object's place and pixels.
PlaceNumbers(i) ==
  line.oam[i].x \in 0 .. 255 /\ line.oam[i].opaque \subseteq 0 .. 7

\* The numbers of the objects of a line.
ObjectNumbers(d) ==
  /\ d.pixel_position \in Int /\ Column(d) /\ d.obj_fifo \in Seq(ObjectPixel) /\ Width \in Nat
  /\ d.line_objects = ScannedObjects(line) /\ d.fetched \subseteq d.line_objects
  /\ \A i \in d.line_objects : i \in Nat /\ i # 0 /\ i \in DOMAIN line.oam /\ PlaceNumbers(i)

\* They are numbers.
LEMMA ObjectsAreNumbers ==
  ASSUME NEW d, Alone(d)
  PROVE  ObjectNumbers(d)
<1>1. AloneNumbers(d) /\ d \in Drawing /\ line \in LineState
  BY AloneIsNumbers DEF Alone, Wellformed
<1>2. d.pixel_position \in Int /\ Column(d) /\ Width \in Nat
  BY <1>1 DEF AloneNumbers, GroundNumbers, LineNumbers
<1>3. d.obj_fifo \in Seq(ObjectPixel)
  BY <1>1 DEF Drawing
<1>4. d.line_objects = ScannedObjects(line) /\ d.fetched \subseteq d.line_objects
  BY DEF Alone, Wellformed
<1>5. line.oam \in Seq(ObjectEntry)
  BY <1>1 DEF LineState
<1>6. ASSUME NEW i \in d.line_objects
      PROVE  i \in Nat /\ i # 0 /\ i \in DOMAIN line.oam /\ PlaceNumbers(i)
  <2> DEFINE o == line.oam
  <2>1. i \in 1 .. Len(o)
    BY <1>4, <1>6, ObjectsAreInOam
  <2>2. o \in Seq(ObjectEntry)
    BY <1>5
  <2> HIDE DEF o
  <2>3. i \in Nat /\ i # 0 /\ i \in DOMAIN o /\ o[i] \in ObjectEntry
    BY <2>1, <2>2
  <2>4. o[i].x \in 0 .. 255 /\ o[i].opaque \subseteq 0 .. 7
    BY <2>3 DEF ObjectEntry
  <2> QED
    BY <2>3, <2>4 DEF o, PlaceNumbers
<1> QED
  BY <1>2, <1>3, <1>4, <1>6 DEF ObjectNumbers

\* Members that the objects' invariant reads.
SameShow(d, u) ==
  /\ u.pixel_position = d.pixel_position /\ u.lcdc = d.lcdc /\ u.line_objects = d.line_objects
  /\ u.obj_fifo = d.obj_fifo

\* The pixels of the FIFO stay in front where no object is laid.
LEMMA ShowIsSame ==
  ASSUME NEW d, NEW u, SameShow(d, u), Laid(u) = Laid(d), FifoFollows(d)
  PROVE  FifoFollows(u)
<1>1. \A i : ObjectAt(u, i) = ObjectAt(d, i)
  BY DEF SameShow, ObjectAt
<1> QED
  BY <1>1, Zenon DEF SameShow, FifoFollows

\* The objects follow where neither they nor the place change.
LEMMA ObjectsAreSame ==
  ASSUME NEW d, NEW u, SameShow(d, u), u.fetched = d.fetched,
         u.object_fetch_step = d.object_fetch_step,
         u.object_fetch_step # "None" => u.object_fetch_index = d.object_fetch_index,
         ObjectsFollow(d)
  PROVE  ObjectsFollow(u)
<1>1. Laid(u) = Laid(d)
  BY DEF Laid
<1>2. FifoFollows(u)
  BY <1>1, ShowIsSame DEF ObjectsFollow
<1>3. ObjectMatch(u) = ObjectMatch(d)
  BY DEF ObjectMatch, SameShow
<1>4. FetchesFollow(u)
  BY <1>3, Zenon DEF FetchesFollow, ObjectsFollow, SameShow
<1> QED
  BY <1>2, <1>4 DEF ObjectsFollow

\* Every object that begins here or before is fetched.
AllFetched(d) ==
  Fetching(d) => \A i \in d.line_objects :
    line.oam[i].x < Width + 8 /\ line.oam[i].x <= ObjectMatch(d) => i \in d.fetched

\* No object is passed unfetched, and one that is met is fetched.
LEMMA ObjectsStart ==
  ASSUME NEW d, NEW u, ObjectNumbers(d), AtZero = {}, ObjectsFollow(d),
         d.object_fetch_step = "None", StartTold(d, u), SameShow(d, u)
  PROVE  ObjectsFollow(u) /\ (u.object_fetch_step = "None" => AllFetched(u))
<1>1. ObjectMatch(u) = ObjectMatch(d) /\ (Fetching(u) <=> Fetching(d))
  BY DEF ObjectMatch, Fetching, SameShow
<1>2. FetchesFollow(d) /\ FifoFollows(d)
  BY DEF ObjectsFollow
<1>3. Fetching(d) => Missed(d) = {}
  BY <1>2 DEF FetchesFollow, Missed, Waiting, Fetching
<1>4. CASE ~Fetching(d)
  <2>1. u.fetched = d.fetched /\ u.object_fetch_step = d.object_fetch_step
    BY <1>4 DEF StartTold
  <2>2. u.object_fetch_step # "None" => u.object_fetch_index = d.object_fetch_index
    BY <2>1
  <2>3. ObjectsFollow(u)
    BY <2>1, <2>2, ObjectsAreSame
  <2> QED
    BY <1>1, <1>4, <2>3 DEF AllFetched
<1>5. CASE Fetching(d) /\ Met(d) = {}
  <2>1. u.fetched = d.fetched /\ u.object_fetch_step = d.object_fetch_step
    BY <1>3, <1>5 DEF StartTold
  <2>2. u.object_fetch_step # "None" => u.object_fetch_index = d.object_fetch_index
    BY <2>1
  <2>3. ObjectsFollow(u)
    BY <2>1, <2>2, ObjectsAreSame
  <2>4. ASSUME NEW i \in d.line_objects, line.oam[i].x < Width + 8,
               line.oam[i].x <= ObjectMatch(d), i \notin d.fetched
        PROVE  FALSE
    <3> DEFINE x == line.oam[i].x
               m == ObjectMatch(d)
    <3>0. PlaceNumbers(i) /\ d.pixel_position \in Int
      BY DEF ObjectNumbers
    <3>1. x \in Int /\ m \in Int
      BY <3>0 DEF PlaceNumbers, ObjectMatch
    <3>2. i \in Waiting(d)
      BY <2>4 DEF Waiting
    <3>3. ~(x < m) /\ x # m
      BY <1>3, <1>5, <3>2 DEF Missed, Met
    <3>4. x <= m
      BY <2>4
    <3> HIDE DEF x, m
    <3> QED
      BY <3>1, <3>3, <3>4
  <2>5. AllFetched(u)
    BY <1>1, <2>1, <2>4 DEF AllFetched, SameShow
  <2> QED
    BY <2>3, <2>5
<1>6. CASE Fetching(d) /\ Met(d) # {}
  <2> DEFINE k == u.object_fetch_index
  <2>1. k \in Met(d) /\ u.object_fetch_step = "Align" /\ u.fetched = d.fetched \union {k}
    BY <1>3, <1>6 DEF StartTold
  <2>2. k \in d.line_objects /\ k \notin d.fetched /\ line.oam[k].x = ObjectMatch(d)
    BY <2>1 DEF Met, Waiting
  <2>3. Laid(u) = Laid(d)
    <3>1. Laid(d) = d.fetched /\ Laid(u) = u.fetched \ {k}
      BY <2>1 DEF Laid
    <3> HIDE DEF k
    <3> QED
      BY <2>1, <2>2, <3>1
  <2>4. FifoFollows(u)
    BY <1>2, <2>3, ShowIsSame
  <2>5. line.oam[k].x # 0
    BY <2>2 DEF ObjectNumbers, AtZero
  <2>6. ~(d.pixel_position < -8)
    BY <2>2, <2>5 DEF ObjectMatch
  <2>7. "objects" \in d.lcdc
    BY <1>6 DEF Fetching
  <2>8. ObjectMatch(d) \in Int
    BY DEF ObjectMatch, ObjectNumbers
  <2>9. FetchesFollow(u)
    <3>1. ~("objects" \notin u.lcdc \/ u.pixel_position < -8)
      BY <2>6, <2>7 DEF SameShow
    <3>2. \A i \in u.line_objects :
            line.oam[i].x < Width + 8 /\ line.oam[i].x < ObjectMatch(u) => i \in u.fetched
      BY <1>1, <1>2, <2>1, <2>7 DEF FetchesFollow, SameShow
    <3>3. \A i \in u.fetched : line.oam[i].x <= ObjectMatch(u)
      <4>1. \A i \in d.fetched : line.oam[i].x <= ObjectMatch(d)
        BY <1>2 DEF FetchesFollow
      <4>2. line.oam[k].x <= ObjectMatch(d)
        BY <2>2, <2>8
      <4> QED
        BY <1>1, <2>1, <4>1, <4>2, Zenon
    <3>4. u.object_fetch_index \in u.fetched
      BY <2>1
    <3> QED
      BY <3>1, <3>2, <3>3, <3>4, Zenon DEF FetchesFollow
  <2> QED
    BY <2>1, <2>4, <2>9 DEF ObjectsFollow
<1> QED
  BY <1>4, <1>5, <1>6

\* An order of the objects.
LEMMA BeforeIsOrder ==
  ASSUME NEW i \in Nat, NEW j \in Nat, NEW k \in Nat,
         PlaceNumbers(i), PlaceNumbers(j), PlaceNumbers(k)
  PROVE  /\ Before(i, i)
         /\ Before(i, j) /\ Before(j, k) => Before(i, k)
         /\ Before(i, j) /\ Before(j, i) => i = j
<1> DEFINE x == line.oam[i].x
           y == line.oam[j].x
           z == line.oam[k].x
<1>1. x \in 0 .. 255 /\ y \in 0 .. 255 /\ z \in 0 .. 255
  BY DEF PlaceNumbers
<1>2. /\ Before(i, i) <=> x < x \/ (x = x /\ i <= i)
      /\ Before(i, j) <=> x < y \/ (x = y /\ i <= j)
      /\ Before(j, k) <=> y < z \/ (y = z /\ j <= k)
      /\ Before(i, k) <=> x < z \/ (x = z /\ i <= k)
      /\ Before(j, i) <=> y < x \/ (y = x /\ j <= i)
  BY DEF Before
<1> HIDE DEF x, y, z
<1>3. x < x \/ (x = x /\ i <= i)
  BY <1>1
<1>4. (x < y \/ (x = y /\ i <= j)) /\ (y < z \/ (y = z /\ j <= k))
        => x < z \/ (x = z /\ i <= k)
  BY <1>1
<1>5. (x < y \/ (x = y /\ i <= j)) /\ (y < x \/ (y = x /\ j <= i)) => i = j
  BY <1>1
<1> QED
  BY <1>2, <1>3, <1>4, <1>5, SMTT(30)

\* What Covers decides between two objects.
LEMMA CoversIsBefore ==
  ASSUME NEW k \in Nat, NEW e, e # Clear, e.oam \in Nat, PlaceNumbers(k), PlaceNumbers(e.oam)
  PROVE  IF Covers(k, e) THEN Before(k, e.oam) ELSE Before(e.oam, k)
<1> DEFINE j == e.oam
           x == line.oam[k].x
           y == line.oam[j].x
<1>1. x \in 0 .. 255 /\ y \in 0 .. 255 /\ j \in Nat
  BY DEF PlaceNumbers
<1>2. Covers(k, e) <=> x < y \/ (x = y /\ k < j)
  BY DEF Covers
<1>3. /\ Before(k, j) <=> x < y \/ (x = y /\ k <= j)
      /\ Before(j, k) <=> y < x \/ (y = x /\ j <= k)
  BY DEF Before
<1> HIDE DEF x, y, j
<1>4. x < y \/ (x = y /\ k < j) => x < y \/ (x = y /\ k <= j)
  BY <1>1
<1>5. ~(x < y \/ (x = y /\ k < j)) => y < x \/ (y = x /\ j <= k)
  BY <1>1
<1> QED
  BY <1>2, <1>3, <1>4, <1>5, SMTT(30) DEF j

\* The pixel that the FIFO holds after an object is laid over it.
OverlaidPixel(k, n, e) ==
  IF Opaque(k, n) /\ Covers(k, e) THEN [oam |-> k, pixel |-> n - (line.oam[k].x - 8)] ELSE e

\* The places that a set of objects names.
Listed(E) == \A i \in E : i \in Nat /\ i # 0 /\ PlaceNumbers(i)

\* It is the one in front of those laid before and the new one.
LEMMA OverlayIsInFront ==
  ASSUME NEW E, NEW k, NEW n, NEW e, Listed(E), k \in Nat, k # 0, PlaceNumbers(k),
         Front(E, n, e)
  PROVE  Front(E \union {k}, n, OverlaidPixel(k, n, e))
<1> DEFINE F == E \union {k}
           new == [oam |-> k, pixel |-> n - (line.oam[k].x - 8)]
<1>1. CASE e = Clear
  <2>1. \A i \in E : ~Opaque(i, n)
    <3>1. e.oam = 0
      BY <1>1 DEF Clear
    <3>2. e.oam \notin E
      BY <3>1 DEF Listed
    <3> QED
      BY <3>2 DEF Front
  <2>2. Covers(k, e)
    BY <1>1 DEF Covers
  <2>3. CASE Opaque(k, n)
    <3>1. OverlaidPixel(k, n, e) = new
      BY <2>2, <2>3 DEF OverlaidPixel
    <3>2. new.oam = k /\ new.pixel = n - (line.oam[k].x - 8)
      OBVIOUS
    <3> HIDE DEF new
    <3>3. \A j \in F : Opaque(j, n) => Before(k, j)
      BY <2>1, BeforeIsOrder
    <3>4. Front(F, n, new)
      BY <2>3, <3>2, <3>3, Zenon DEF Front, F
    <3> QED
      BY <3>1, <3>4
  <2>4. CASE ~Opaque(k, n)
    <3>1. OverlaidPixel(k, n, e) = e
      BY <2>4 DEF OverlaidPixel
    <3>2. \A j \in F : ~Opaque(j, n)
      BY <2>1, <2>4
    <3> QED
      BY <1>1, <3>1, <3>2, Zenon DEF Front
  <2> QED
    BY <2>3, <2>4
<1>2. CASE e # Clear
  <2> DEFINE h == e.oam
  <2>1. /\ h \in E /\ Opaque(h, n) /\ e.pixel = n - (line.oam[h].x - 8)
        /\ \A j \in E : Opaque(j, n) => Before(h, j)
    BY <1>2, Zenon DEF Front
  <2>2. h \in Nat /\ PlaceNumbers(h)
    BY <2>1 DEF Listed
  <2>3. IF Covers(k, e) THEN Before(k, h) ELSE Before(h, k)
    BY <1>2, <2>2, CoversIsBefore
  <2> HIDE DEF h
  <2>4. CASE Opaque(k, n) /\ Covers(k, e)
    <3>1. OverlaidPixel(k, n, e) = new
      BY <2>4 DEF OverlaidPixel
    <3>2. new.oam = k /\ new.pixel = n - (line.oam[k].x - 8)
      OBVIOUS
    <3> HIDE DEF new
    <3>3. ASSUME NEW j \in E, Opaque(j, n)
          PROVE  Before(k, j)
      <4>1. Before(k, h) /\ Before(h, j)
        BY <2>1, <2>3, <2>4, <3>3
      <4>2. j \in Nat /\ PlaceNumbers(j)
        BY <3>3 DEF Listed
      <4> QED
        BY <2>2, <4>1, <4>2, BeforeIsOrder
    <3>4. Before(k, k)
      BY BeforeIsOrder
    <3>5. \A j \in F : Opaque(j, n) => Before(k, j)
      BY <3>3, <3>4
    <3>6. Front(F, n, new)
      BY <2>4, <3>2, <3>5, Zenon DEF Front, F
    <3> QED
      BY <3>1, <3>6
  <2>5. CASE ~(Opaque(k, n) /\ Covers(k, e))
    <3>1. OverlaidPixel(k, n, e) = e
      BY <2>5 DEF OverlaidPixel
    <3>2. Opaque(k, n) => Before(h, k)
      BY <2>3, <2>5
    <3>3. \A j \in F : Opaque(j, n) => Before(h, j)
      BY <2>1, <3>2
    <3>4. h \in F
      BY <2>1
    <3>5. Front(F, n, e)
      BY <2>1, <3>3, <3>4, Zenon DEF Front, h
    <3> QED
      BY <3>1, <3>5
  <2> QED
    BY <2>4, <2>5
<1> QED
  BY <1>1, <1>2

\* The FIFO after the object that is fetched is laid over it.
LEMMA OverlaidFollows ==
  ASSUME NEW d, ObjectNumbers(d), FifoFollows(d), d.pixel_position >= -7,
         d.object_fetch_index \in d.line_objects,
         line.oam[d.object_fetch_index].x = d.pixel_position + 8,
         NEW E, E \subseteq d.line_objects, Laid(d) = E, NEW i \in Nat, i >= 1,
         NEW g, g = OverlaidFifo(d)
  PROVE  Front(E \union {d.object_fetch_index}, (d.pixel_position + i) - 1,
               IF i <= 16 THEN g[i] ELSE Clear)
<1> DEFINE k == d.object_fetch_index
           p == d.pixel_position
           n == (p + i) - 1
           e == ObjectAt(d, i)
           x == line.oam[k].x
<1>1. p \in Int /\ k \in Nat /\ k # 0 /\ PlaceNumbers(k)
  BY DEF ObjectNumbers
<1>2. Listed(E)
  BY DEF ObjectNumbers, Listed
<1>3. Front(E, n, e)
  BY DEF FifoFollows
<1>4. Front(E \union {k}, n, OverlaidPixel(k, n, e))
  <2> HIDE DEF k, n, e
  <2> QED
    BY <1>1, <1>2, <1>3, OverlayIsInFront
<1>5. x \in 0 .. 255 /\ line.oam[k].opaque \subseteq 0 .. 7 /\ x = p + 8
  BY <1>1 DEF PlaceNumbers
<1>6. CASE i <= 16
  <2>1. OverlayPixel(d, i) = n - (x - 8)
    <3>1. OverlayPixel(d, i) = p + i - 1 - (x - 8)
      BY DEF OverlayPixel
    <3> HIDE DEF p, x
    <3>2. p + i - 1 - (x - 8) = ((p + i) - 1) - (x - 8)
      BY <1>1, <1>5
    <3> QED
      BY <3>1, <3>2
  <2>2. OverlayPixel(d, i) \in line.oam[k].opaque <=> Opaque(k, n)
    BY <2>1 DEF Opaque
  <2>3. i \in 1 .. 16
    BY <1>6
  <2>4. g[i] = IF OverlayPixel(d, i) \in line.oam[k].opaque /\ Covers(k, e)
               THEN [oam |-> k, pixel |-> OverlayPixel(d, i)] ELSE e
    BY <2>3 DEF OverlaidFifo
  <2>5. g[i] = OverlaidPixel(k, n, e)
    <3> HIDE DEF n, e, k
    <3>1. OverlaidPixel(k, n, e)
            = IF Opaque(k, n) /\ Covers(k, e)
              THEN [oam |-> k, pixel |-> n - (line.oam[k].x - 8)] ELSE e
      BY DEF OverlaidPixel
    <3> QED
      BY <2>1, <2>2, <2>4, <3>1
  <2> QED
    BY <1>4, <1>6, <2>5
<1>7. CASE ~(i <= 16)
  <2>1. ~Opaque(k, n)
    <3>1. n - (x - 8) \notin 0 .. 7
      <4> HIDE DEF p, x, k
      <4> QED
        BY <1>1, <1>5, <1>7
    <3> QED
      BY <1>5, <3>1 DEF Opaque
  <2>2. OverlaidPixel(k, n, e) = e
    BY <2>1 DEF OverlaidPixel
  <2>3. e = Clear
    <3> DEFINE l == Len(d.obj_fifo)
    <3>1. l \in Nat /\ l <= 16
      BY DEF ObjectNumbers, FifoFollows
    <3> HIDE DEF l
    <3>2. ~(i <= l)
      BY <1>7, <3>1
    <3> QED
      BY <3>2 DEF ObjectAt, l
  <2> QED
    BY <1>4, <1>7, <2>2, <2>3
<1> QED
  BY <1>6, <1>7

\* A dot of a fetch keeps the objects' pixels in front.
LEMMA ObjectsTick ==
  ASSUME NEW d, NEW u, ObjectNumbers(d), ObjectsFollow(d), d.object_fetch_step # "None",
         d.object_fetch_index \in d.line_objects,
         line.oam[d.object_fetch_index].x = ObjectMatch(d),
         FetchTold(d, u), u.fetched = d.fetched, u.pixel_position = d.pixel_position,
         u.lcdc = d.lcdc, u.line_objects = d.line_objects,
         u.object_fetch_step # "None" => u.object_fetch_index = d.object_fetch_index
  PROVE  ObjectsFollow(u)
<1> DEFINE k == d.object_fetch_index
<1>1. FifoFollows(d) /\ FetchesFollow(d)
  BY DEF ObjectsFollow
<1>2. ObjectMatch(u) = ObjectMatch(d)
  BY DEF ObjectMatch
<1>3. "objects" \in d.lcdc /\ ~(d.pixel_position < -8) /\ k \in d.fetched
  BY <1>1 DEF FetchesFollow
<1>4. FetchesFollow(u)
  <2>1. ~("objects" \notin u.lcdc \/ u.pixel_position < -8)
    BY <1>3
  <2>2. u.object_fetch_step # "None" => u.object_fetch_index \in u.fetched
    BY <1>3
  <2> QED
    BY <1>1, <1>2, <2>1, <2>2, Zenon DEF FetchesFollow
<1>5. Laid(d) = d.fetched \ {k}
  BY DEF Laid
<1>6. CASE u.object_fetch_step # "None"
  <2>1. Laid(u) = Laid(d)
    BY <1>6 DEF Laid
  <2>2. u.obj_fifo = d.obj_fifo
    BY <1>6 DEF FetchTold
  <2>3. FifoFollows(u)
    BY <1>1, <2>1, <2>2, ShowIsSame DEF SameShow
  <2> QED
    BY <1>4, <2>3 DEF ObjectsFollow
<1>7. CASE u.object_fetch_step = "None"
  <2> DEFINE E == Laid(d)
             g == OverlaidFifo(d)
  <2>1. u.obj_fifo = g
    BY <1>7 DEF FetchTold
  <2>2. Laid(u) = E \union {k}
    <3>1. Laid(u) = d.fetched
      BY <1>7 DEF Laid
    <3> HIDE DEF k
    <3> QED
      BY <1>3, <1>5, <3>1
  <2>3. E \subseteq d.line_objects
    <3>1. d.fetched \subseteq d.line_objects
      BY DEF ObjectNumbers
    <3> QED
      BY <1>5, <3>1
  <2>4. Len(g) = 16
    <3>1. g \in [1 .. 16 -> {g[i] : i \in 1 .. 16}]
      BY DEF OverlaidFifo
    <3> HIDE DEF g
    <3> QED
      BY <3>1, RunOfPixels, SMTT(30)
  <2>5. d.pixel_position >= -7 /\ line.oam[k].x = d.pixel_position + 8
    <3>1. d.pixel_position \in Int /\ Column(d)
      BY DEF ObjectNumbers
    <3>2. d.pixel_position >= -7
      BY <1>3, <3>1 DEF Column
    <3> QED
      BY <1>3, <3>2 DEF ObjectMatch
  <2>6. \A i : ObjectAt(u, i) = IF i <= 16 THEN g[i] ELSE Clear
    <3> HIDE DEF g
    <3> QED
      BY <2>1, <2>4, Zenon DEF ObjectAt
  <2>7. ASSUME NEW i \in Nat, i >= 1
        PROVE  Front(Laid(u), (u.pixel_position + i) - 1, ObjectAt(u, i))
    <3> HIDE DEF g, E
    <3>1. Front(E \union {k}, (d.pixel_position + i) - 1, IF i <= 16 THEN g[i] ELSE Clear)
      BY <1>1, <2>3, <2>5, <2>7, OverlaidFollows DEF g, E
    <3> QED
      BY <2>2, <2>6, <3>1, Zenon
  <2>8. FifoFollows(u)
    <3>1. Len(u.obj_fifo) <= 16
      <4> HIDE DEF g
      <4> QED
        BY <2>1, <2>4
    <3> QED
      BY <2>7, <3>1, Zenon DEF FifoFollows
  <2> QED
    BY <1>4, <2>8 DEF ObjectsFollow
<1> QED
  BY <1>6, <1>7

\* The object pixel that is i places from the next one, before and after a pixel
\* leaves.
LEMMA ObjectPixelLeaves ==
  ASSUME NEW d, NEW u, d.obj_fifo \in Seq(ObjectPixel),
         u.obj_fifo = (IF d.obj_fifo = <<>> THEN d.obj_fifo ELSE Tail(d.obj_fifo))
  PROVE  /\ \A i \in Nat : i >= 1 => ObjectAt(u, i) = ObjectAt(d, i + 1)
         /\ Len(d.obj_fifo) <= 16 => Len(u.obj_fifo) <= 16
<1> DEFINE f == d.obj_fifo
           g == u.obj_fifo
           m == Len(f)
           n == Len(g)
<1>1. f \in Seq(ObjectPixel) /\ g = (IF f = <<>> THEN f ELSE Tail(f))
  OBVIOUS
<1>2. ASSUME NEW i \in Nat, i >= 1
      PROVE  /\ ObjectAt(d, i) = IF i <= m THEN f[i] ELSE Clear
             /\ ObjectAt(d, i + 1) = IF i + 1 <= m THEN f[i + 1] ELSE Clear
             /\ ObjectAt(u, i) = IF i <= n THEN g[i] ELSE Clear
  BY DEF ObjectAt
<1>3. m \in Nat
  OBVIOUS
<1> HIDE DEF f, g
<1>4. CASE f = <<>>
  <2>1. m = 0 /\ n = 0
    BY <1>1, <1>4
  <2> HIDE DEF m, n
  <2>2. ASSUME NEW i \in Nat, i >= 1
        PROVE  ~(i + 1 <= m) /\ ~(i <= n)
    BY <2>1, <2>2
  <2>3. m <= 16 => n <= 16
    BY <2>1
  <2> QED
    BY <1>2, <2>2, <2>3 DEF f, g, m, n
<1>5. CASE f # <<>>
  <2>1. g = Tail(f)
    BY <1>1, <1>5
  <2>2. /\ Len(Tail(f)) = Len(f) - 1
        /\ \A i \in 1 .. Len(Tail(f)) : Tail(f)[i] = f[i + 1]
    BY <1>1, <1>5, HeadTailProperties
  <2>3. n = m - 1 /\ \A i \in 1 .. n : g[i] = f[i + 1]
    BY <2>1, <2>2, Zenon
  <2> HIDE DEF m, n
  <2>4. ASSUME NEW i \in Nat, i >= 1
        PROVE  (i <= n <=> i + 1 <= m) /\ (i <= n => i \in 1 .. n)
    BY <1>3, <2>3, <2>4
  <2>5. ASSUME NEW i \in Nat, i >= 1
        PROVE  ObjectAt(u, i) = ObjectAt(d, i + 1)
    <3>1. CASE i <= n
      BY <1>2, <2>3, <2>4, <2>5, <3>1
    <3>2. CASE ~(i <= n)
      BY <1>2, <2>4, <2>5, <3>2
    <3> QED
      BY <3>1, <3>2
  <2>6. m <= 16 => n <= 16
    BY <1>3, <2>3
  <2> QED
    BY <2>5, <2>6 DEF m, n, f, g
<1> QED
  BY <1>4, <1>5

\* The objects follow the pixel that leaves.
LEMMA ObjectsMove ==
  ASSUME NEW d, NEW u, ObjectNumbers(d), AtZero = {}, ObjectsFollow(d),
         d.object_fetch_step = "None", AllFetched(d), d.pixel_position < Width,
         Moves(d, u), u.fetched = d.fetched, u.object_fetch_step = "None",
         u.lcdc = d.lcdc, u.line_objects = d.line_objects,
         u.obj_fifo = (IF d.obj_fifo = <<>> THEN d.obj_fifo ELSE Tail(d.obj_fifo))
  PROVE  ObjectsFollow(u)
<1> DEFINE p == d.pixel_position
           q == u.pixel_position
           M == ObjectMatch(d)
           N == ObjectMatch(u)
<1>1. FifoFollows(d) /\ FetchesFollow(d)
  BY DEF ObjectsFollow
<1>2. Laid(d) = d.fetched /\ Laid(u) = d.fetched
  BY DEF Laid
<1>3. /\ \A i \in Nat : i >= 1 => ObjectAt(u, i) = ObjectAt(d, i + 1)
      /\ Len(u.obj_fifo) <= 16
  BY <1>1, ObjectPixelLeaves DEF ObjectNumbers, FifoFollows
<1>4. /\ p \in Int /\ q \in Int /\ (p >= -7 => q = p + 1)
      /\ (p < -7 => q = -7 \/ (q = p + 1 /\ q < -8))
      /\ (p \in -16 .. -9 \/ p >= -7)
  BY DEF ObjectNumbers, Moves, Column
<1>5. /\ M = (IF p < -8 THEN 0 ELSE p + 8) /\ N = (IF q < -8 THEN 0 ELSE q + 8)
  BY DEF ObjectMatch
<1>6. FifoFollows(u)
  <2>1. ASSUME NEW i \in Nat, i >= 1
        PROVE  Front(Laid(u), (q + i) - 1, ObjectAt(u, i))
    <3>1. CASE p >= -7
      <4>1. i + 1 \in Nat /\ i + 1 >= 1
        BY <2>1
      <4>2. Front(d.fetched, (p + (i + 1)) - 1, ObjectAt(d, i + 1))
        BY <1>1, <1>2, <4>1 DEF FifoFollows
      <4>3. (p + (i + 1)) - 1 = (q + i) - 1
        <5> HIDE DEF p, q
        <5> QED
          BY <1>4, <2>1, <3>1
      <4>4. ObjectAt(u, i) = ObjectAt(d, i + 1)
        BY <1>3, <2>1
      <4> HIDE DEF p, q
      <4> QED
        BY <1>2, <4>2, <4>3, <4>4
    <3>2. CASE ~(p >= -7)
      <4>1. p < -8
        <5> HIDE DEF p, q
        <5> QED
          BY <1>4, <3>2
      <4>2. d.fetched = {} /\ d.obj_fifo = <<>>
        BY <1>1, <4>1 DEF FetchesFollow
      <4>3. u.obj_fifo = <<>>
        BY <4>2
      <4>4. ~(i <= Len(u.obj_fifo))
        <5>1. Len(<<>>) = 0
          OBVIOUS
        <5> DEFINE l == Len(u.obj_fifo)
        <5>2. l = 0
          BY <4>3, <5>1, Zenon
        <5> HIDE DEF l
        <5>3. ~(i <= l)
          BY <2>1, <5>2
        <5> QED
          BY <5>3 DEF l
      <4>5. ObjectAt(u, i) = Clear
        BY <4>4 DEF ObjectAt
      <4>6. \A j \in Laid(u) : ~Opaque(j, (q + i) - 1)
        BY <1>2, <4>2
      <4> QED
        BY <4>5, <4>6, Zenon DEF Front
    <3> QED
      BY <3>1, <3>2
  <2> QED
    BY <1>3, <2>1, Zenon DEF FifoFollows
<1>7. FetchesFollow(u)
  <2>1. ASSUME "objects" \notin u.lcdc \/ q < -8
        PROVE  u.fetched = {} /\ u.obj_fifo = <<>> /\ u.object_fetch_step = "None"
    <3>1. "objects" \notin d.lcdc \/ p < -8
      <4>1. q < -8 => p < -8
        <5> HIDE DEF p, q
        <5> QED
          BY <1>4
      <4> QED
        BY <2>1, <4>1
    <3>2. d.fetched = {} /\ d.obj_fifo = <<>>
      BY <1>1, <3>1 DEF FetchesFollow
    <3> QED
      BY <3>2
  <2>2. ASSUME "objects" \in u.lcdc, NEW i \in u.line_objects,
               line.oam[i].x < Width + 8, line.oam[i].x < N
        PROVE  i \in u.fetched
    <3> DEFINE x == line.oam[i].x
    <3>1. PlaceNumbers(i) /\ i \in DOMAIN line.oam
      BY <2>2 DEF ObjectNumbers
    <3>2. x \in 0 .. 255 /\ x # 0
      BY <3>1 DEF PlaceNumbers, AtZero
    <3>3. x <= M
      <4>1. x < N
        BY <2>2
      <4> HIDE DEF p, q, x, M, N
      <4> QED
        BY <1>4, <1>5, <3>2, <4>1
    <3>4. Fetching(d)
      BY <2>2 DEF Fetching
    <3> QED
      BY <2>2, <3>3, <3>4 DEF AllFetched
  <2>3. ASSUME NEW i \in u.fetched
        PROVE  line.oam[i].x <= N
    <3> DEFINE x == line.oam[i].x
    <3>1. PlaceNumbers(i) /\ x <= M
      BY <1>1, <2>3 DEF ObjectNumbers, FetchesFollow
    <3>2. x \in 0 .. 255 /\ x <= M
      BY <3>1 DEF PlaceNumbers
    <3>3. x <= N
      <4> HIDE DEF p, q, x, M, N
      <4>1. M \in Int /\ N \in Int /\ M <= N
        BY <1>4, <1>5
      <4> QED
        BY <3>2, <4>1
    <3> QED
      BY <3>3 DEF x
  <2> QED
    BY <2>1, <2>2, <2>3 DEF FetchesFollow
<1> QED
  BY <1>6, <1>7 DEF ObjectsFollow

\* The objects of a column, those that are laid.
LEMMA ObjectsOfColumn ==
  ASSUME NEW d, ObjectNumbers(d), AllFetched(d), d.pixel_position >= 0,
         d.pixel_position < Width, d.lcdc = line.lcdc, "objects" \in line.lcdc
  PROVE  ObjectsAt(d.pixel_position) = {i \in d.fetched : Opaque(i, d.pixel_position)}
<1> DEFINE n == d.pixel_position
<1>1. n \in Int /\ Width \in Nat
  BY DEF ObjectNumbers
<1>2. ASSUME NEW i \in d.line_objects, Opaque(i, n)
      PROVE  i \in d.fetched
  <2> DEFINE x == line.oam[i].x
  <2>1. x \in 0 .. 255 /\ line.oam[i].opaque \subseteq 0 .. 7
    BY <1>2 DEF ObjectNumbers, PlaceNumbers
  <2>2. n - (x - 8) \in 0 .. 7
    BY <1>2, <2>1 DEF Opaque
  <2>3. n >= 0 /\ n < Width
    OBVIOUS
  <2>4. ObjectMatch(d) = IF n < -8 THEN 0 ELSE n + 8
    BY DEF ObjectMatch
  <2>5. Fetching(d)
    BY DEF Fetching
  <2>6. x < Width + 8 /\ x <= ObjectMatch(d)
    <3> HIDE DEF n, x
    <3> QED
      BY <1>1, <2>1, <2>2, <2>3, <2>4
  <2> QED
    BY <1>2, <2>5, <2>6 DEF AllFetched
<1>3. d.line_objects = ScannedObjects(line) /\ d.fetched \subseteq d.line_objects
  BY DEF ObjectNumbers
<1>4. ObjectsAt(n) = {i \in ScannedObjects(line) : Opaque(i, n)}
  BY DEF ObjectsAt, Opaque
<1> HIDE DEF n
<1>5. ObjectsAt(n) = {i \in d.fetched : Opaque(i, n)}
  BY <1>2, <1>3, <1>4
<1> QED
  BY <1>5 DEF n

\* The object in front is the one that InFront chooses.
LEMMA FrontIsInFront ==
  ASSUME NEW d, ObjectNumbers(d), NEW n, NEW e, Front(d.fetched, n, e), e # Clear,
         ObjectsAt(n) = {i \in d.fetched : Opaque(i, n)}
  PROVE  /\ InFront(n) = e.oam /\ ObjectsAt(n) # {}
         /\ e.pixel = n - (line.oam[InFront(n)].x - 8)
<1> DEFINE k == e.oam
           S == ObjectsAt(n)
<1>1. /\ k \in d.fetched /\ Opaque(k, n) /\ e.pixel = n - (line.oam[k].x - 8)
      /\ \A j \in d.fetched : Opaque(j, n) => Before(k, j)
  BY Zenon DEF Front
<1>2. k \in S /\ \A j \in S : Before(k, j)
  BY <1>1
<1>3. \A j \in S : j \in Nat /\ PlaceNumbers(j)
  BY DEF ObjectNumbers
<1>4. InFront(n) = CHOOSE i \in S : \A j \in S : Before(i, j)
  BY DEF InFront, Before
<1> DEFINE h == InFront(n)
<1> HIDE DEF k, S
<1>5. h \in S /\ \A j \in S : Before(h, j)
  BY <1>2, <1>4
<1> HIDE DEF h
<1>6. h = k
  <2>1. Before(h, k) /\ Before(k, h)
    BY <1>2, <1>5
  <2> QED
    BY <1>2, <1>3, <1>5, <2>1, BeforeIsOrder
<1> QED
  BY <1>1, <1>2, <1>6 DEF h, k, S

\* What is mixed from the two FIFOs is what the line shows.
LEMMA MixIsReference ==
  ASSUME NEW d, ObjectNumbers(d), ObjectsFollow(d), d.object_fetch_step = "None",
         AllFetched(d), d.pixel_position >= 0, d.pixel_position < Width, d.lcdc = line.lcdc,
         NEW bg, "bg" \in line.lcdc => bg = Ground(d.pixel_position)
  PROVE  Mix(d, bg, IF d.obj_fifo = <<>> THEN Clear ELSE Head(d.obj_fifo))
           = Reference(d.pixel_position)
<1> DEFINE n == d.pixel_position
           e == ObjectAt(d, 1)
           G == Ground(n)
<1>1. (IF d.obj_fifo = <<>> THEN Clear ELSE Head(d.obj_fifo)) = e
  <2> DEFINE f == d.obj_fifo
  <2>1. f \in Seq(ObjectPixel)
    BY DEF ObjectNumbers
  <2>2. e = IF 1 <= Len(f) THEN f[1] ELSE Clear
    BY DEF ObjectAt
  <2> HIDE DEF f, e
  <2>3. CASE f = <<>>
    <3>1. ~(1 <= Len(f))
      BY <2>3
    <3> QED
      BY <2>2, <2>3, <3>1 DEF f
  <2>4. CASE f # <<>>
    <3>1. 1 <= Len(f) /\ Head(f) = f[1]
      BY <2>1, <2>4
    <3> QED
      BY <2>2, <2>4, <3>1 DEF f
  <2> QED
    BY <2>3, <2>4
<1>2. "bg" \notin line.lcdc => G = Blank
  BY DEF Ground
<1>3. (IF "bg" \in line.lcdc THEN bg ELSE Blank) = G
  BY <1>2
<1>4. Colour(d, bg) <=> ~(G.layer = "blank" \/ G.column \in ClearColumns)
  <2>1. CASE "bg" \in line.lcdc
    BY <2>1 DEF Colour
  <2>2. CASE "bg" \notin line.lcdc
    BY <1>2, <2>2 DEF Colour, Blank
  <2> QED
    BY <2>1, <2>2
<1> HIDE DEF G
<1>5. Mix(d, bg, e) =
        IF /\ e # Clear /\ "objects" \in line.lcdc
           /\ line.oam[e.oam].behind => G.layer = "blank" \/ G.column \in ClearColumns
        THEN [layer |-> "object", oam |-> e.oam, column |-> e.pixel]
        ELSE G
  <2> HIDE DEF e
  <2>1. Mix(d, bg, e) =
          IF /\ e # Clear /\ "objects" \in d.lcdc
             /\ line.oam[e.oam].behind => ~Colour(d, bg)
          THEN [layer |-> "object", oam |-> e.oam, column |-> e.pixel]
          ELSE IF "bg" \in d.lcdc THEN bg ELSE Blank
    BY DEF Mix
  <2> QED
    BY <1>3, <1>4, <2>1
<1>6. Reference(n) =
        IF /\ ObjectsAt(n) # {}
           /\ line.oam[InFront(n)].behind => G.layer = "blank" \/ G.column \in ClearColumns
        THEN [layer |-> "object", oam |-> InFront(n),
              column |-> n - (line.oam[InFront(n)].x - 8)]
        ELSE G
  BY DEF Reference, G
<1>7. CASE "objects" \notin line.lcdc
  <2>1. ObjectsAt(n) = {}
    BY <1>7 DEF ObjectsAt
  <2> QED
    BY <1>1, <1>5, <1>6, <1>7, <2>1
<1>8. CASE "objects" \in line.lcdc
  <2>1. ObjectsAt(n) = {i \in d.fetched : Opaque(i, n)}
    BY <1>8, ObjectsOfColumn
  <2>2. Front(d.fetched, n, e)
    <3>1. Laid(d) = d.fetched
      BY DEF Laid
    <3>2. Front(Laid(d), (n + 1) - 1, e)
      BY DEF ObjectsFollow, FifoFollows
    <3>3. (n + 1) - 1 = n
      BY DEF ObjectNumbers
    <3> QED
      BY <3>1, <3>2, <3>3
  <2>3. CASE e = Clear
    <3>1. ~(e.oam \in d.fetched)
      BY <2>3 DEF Clear, ObjectNumbers
    <3>2. ObjectsAt(n) = {}
      BY <2>1, <2>2, <3>1 DEF Front
    <3> QED
      BY <1>1, <1>5, <1>6, <2>3, <3>2
  <2>4. CASE e # Clear
    <3>1. /\ InFront(n) = e.oam /\ ObjectsAt(n) # {}
          /\ e.pixel = n - (line.oam[InFront(n)].x - 8)
      <4> HIDE DEF n, e
      <4> QED
        BY <2>1, <2>2, <2>4, FrontIsInFront
    <3> HIDE DEF n, e
    <3>2. Mix(d, bg, e) = Reference(n)
      BY <1>5, <1>6, <1>8, <2>4, <3>1
    <3> QED
      BY <1>1, <3>2 DEF n
  <2> QED
    BY <2>3, <2>4
<1> QED
  BY <1>7, <1>8

-----------------------------------------------------------------------------
(* A dot of a line that the program leaves alone. *)

\* A line that goes on, and shows what it should.
Shows(d) ==
  /\ Alone(d) /\ d.finished = FALSE /\ AtZero = {} /\ line \in ScanLines
  /\ GroundFollows(d, 8) /\ ObjectsFollow(d)

\* It is ready for a pixel.
Chosen(d) ==
  Shows(d) /\ Decided(d) /\ AllFetched(d) /\ d.object_fetch_step = "None"

\* The numbers after a pixel.
LEMMA MovedIsNumbers ==
  ASSUME NEW d, NEW v, Alone(d), Popped(d, v)
  PROVE  AloneNumbers(v) /\ Moves(d, v)
<1>1. AloneNumbers(d) /\ line \in LineState
  BY AloneIsNumbers DEF Alone
<1>2. /\ v \in Drawing /\ v.pixel_position = Position(d) + 1 /\ v.scx_low = d.scx_low
      /\ v.wx = d.wx /\ v.scx = d.scx /\ v.lcdc = d.lcdc
  BY DEF Popped, SameRegisters
<1>3. Moves(d, v)
  BY <1>1, <1>2, PixelMovesOn
<1>4. v.scx_low = Below /\ v.wx = line.wx /\ v.scx = line.scx /\ v.lcdc = line.lcdc
  BY <1>1, <1>2 DEF AloneNumbers
<1>5. Column(v)
  <2> DEFINE p == d.pixel_position
             q == v.pixel_position
             b == Below
  <2>1. /\ q \in Int /\ p \in Int /\ (p >= -7 => q = p + 1)
        /\ (p < -7 => (q = -7 /\ p + 16 = b) \/ (q = p + 1 /\ q < -8 /\ p + 16 < b))
        /\ (p \in -16 .. -9 \/ p >= -7) /\ b \in 0 .. 7
    BY <1>1, <1>3 DEF Moves, AloneNumbers, GroundNumbers, LineNumbers, Column
  <2> HIDE DEF p, q, b
  <2>2. (q \in -16 .. -9 /\ q + 16 <= b) \/ (q \in Int /\ q >= -7)
    BY <2>1
  <2> QED
    BY <2>2 DEF Column, q, b
<1>6. GroundNumbers(v)
  BY <1>1, <1>2, <1>4, <1>5, GroundIsNumbers
<1>7. LineNumbers
  BY <1>1 DEF AloneNumbers
<1>8. WindowEnabled(v) <=> Enabled /\ line.wx <= Width + 6
  BY <1>4 DEF WindowEnabled, Enabled
<1> QED
  BY <1>2, <1>3, <1>4, <1>6, <1>7, <1>8, Zenon DEF AloneNumbers

\* A tile that comes in is looked for in the dot after.
LEMMA LooksLonger ==
  ASSUME NEW d, GroundFollows(d, 8)
  PROVE  GroundFollows(d, 7)
<1> DEFINE m == Stock(d)
<1>1. m \in 8 .. 8 => m \in 7 .. 8
  OBVIOUS
<1>2. Looks(d, 7)
  BY <1>1, Zenon DEF GroundFollows, Looks
<1> QED
  BY <1>2 DEF GroundFollows

\* The end of the line, told from its members.
LEMMA LineEndsWith ==
  ASSUME NEW d, Chosen(d), NEW v, NEW w, Popped(d, v), SameRows(d, v), SameRows(v, w),
         w \in Drawing, w.screen_x = Width, d.pixel_position = Width - 1
  PROVE  FinishDrawing(w).window_line = RowsOfWindow
<1>1. AloneNumbers(d) /\ RowsFollow(d) /\ WindowToCome(d) /\ Decided(d)
  BY AloneIsNumbers DEF Chosen, Shows, GroundFollows
<1>2. (IF d.window_triggered THEN d.window_line + 1 ELSE d.window_line) = RowsOfWindow
  BY <1>1, RowsAreCounted
<1>3. w.window_triggered = d.window_triggered /\ w.window_line = d.window_line
  BY DEF SameRows
<1>4. FinishDrawing(w).window_line
        = IF w.window_triggered THEN w.window_line + 1 ELSE w.window_line
  BY EndCountsRow
<1> QED
  BY <1>2, <1>3, <1>4

\* The fetcher, the FIFO and the rows after a dot of a line.
LEMMA GroundMoves ==
  ASSUME NEW d, Chosen(d)
  PROVE  IF DrawPixel(d).finished THEN DrawPixel(d).window_line = RowsOfWindow
         ELSE GroundFollows(DrawPixel(d), 8)
<1> DEFINE v == MixAndPushPixel(d)
           w == AdvancePixelFetcher(v)
           u == FinishDrawing(w)
<1>0. DrawPixel(d) = u
  BY DEF DrawPixel
<1>1. /\ Alone(d) /\ d.finished = FALSE /\ GroundFollows(d, 8) /\ Decided(d)
      /\ d \in Drawing /\ Wellformed(d, 0)
  BY DEF Chosen, Shows, Alone, Wellformed
<1>2. AloneNumbers(d) /\ OnItsWay(d)
  BY <1>1, AloneIsNumbers, LineIsOnItsWay
<1>3. GroundFetcher(d) /\ RowsFollow(d)
  BY <1>1 DEF GroundFollows
<1>4. Steady(d)
  BY <1>2, <1>3, FollowsIsSteady
<1>5. /\ d.pixel_position \in Int /\ d.screen_x \in Int /\ Width \in Nat /\ Width > 8
      /\ d.pixel_position < Width /\ d.screen_x < Width
      /\ d.screen_x = (IF d.pixel_position >= 0 THEN d.pixel_position ELSE 0)
  BY <1>2 DEF AloneNumbers, GroundNumbers, LineNumbers, OnItsWay
<1>6. ASSUME NEW a \in Drawing, NEW b, FinishDrawing(a) = b, a.screen_x # Width,
             a.finished = FALSE, GroundFollows(a, 8)
      PROVE  IF b.finished THEN b.window_line = RowsOfWindow ELSE GroundFollows(b, 8)
  <2>1. b = a
    BY <1>6 DEF FinishDrawing
  <2> QED
    BY <1>6, <2>1
<1>7. CASE d.bg_fifo = <<>>
  <2>1. v = d
    BY <1>7 DEF MixAndPushPixel, Mixes
  <2> DEFINE a == AdvancePixelFetcher(d)
  <2>2. Advanced(d, a) /\ FetcherTold(d, a)
    BY <1>1, <1>4, FetcherAdvances, FetcherIsTold
  <2>3. w = a
    BY <2>1
  <2> HIDE DEF a, w
  <2>4. /\ a \in Drawing /\ a.pixel_position = d.pixel_position /\ a.scx_low = d.scx_low
        /\ a.screen_x = d.screen_x /\ a.finished = d.finished
    BY <2>2 DEF Advanced, SameRegisters, SameColumn
  <2>5. GroundFollows(a, 8)
    BY <1>1, <1>2, <1>5, <2>2, <2>4, GroundAdvances, LooksLonger
  <2>6. a.screen_x # Width
    <3> DEFINE x == d.screen_x
    <3>1. x \in Int /\ x < Width /\ Width \in Nat
      BY <1>5
    <3> HIDE DEF x
    <3>2. x # Width
      BY <3>1
    <3> QED
      BY <2>4, <3>2 DEF x
  <2> HIDE DEF u
  <2>7. FinishDrawing(a) = u
    BY <2>3 DEF u
  <2> QED
    BY <1>0, <1>1, <1>6, <2>4, <2>5, <2>6, <2>7
<1>8. CASE d.bg_fifo # <<>>
  <2>1. Mixes(d)
    BY <1>5, <1>8 DEF Mixes
  <2>2. Popped(d, v) /\ SameRows(d, v)
    BY <1>1, <2>1, PixelIsPopped, PixelCountsNoRow
  <2> HIDE DEF v
  <2>3. AloneNumbers(v) /\ Moves(d, v) /\ v \in Drawing
    BY <1>1, <2>2, MovedIsNumbers DEF Popped
  <2>4. Steady(v)
    <3>1. v.fetcher = d.fetcher /\ v.window_active = d.window_active
      BY <2>2 DEF Popped
    <3>2. WindowEnabled(v) <=> WindowEnabled(d)
      BY <1>2, <2>3, Zenon DEF AloneNumbers
    <3> QED
      BY <1>4, <3>1, <3>2, Zenon DEF Steady
  <2>5. Advanced(v, w) /\ FetcherTold(v, w)
    BY <2>3, <2>4, FetcherAdvances, FetcherIsTold
  <2> HIDE DEF w
  <2>6. /\ w \in Drawing /\ w.pixel_position = v.pixel_position /\ w.scx_low = v.scx_low
        /\ w.screen_x = v.screen_x /\ w.finished = v.finished
    BY <2>5 DEF Advanced, SameRegisters, SameColumn
  <2>7. v.finished = FALSE /\ v.screen_x = (IF Position(d) < 0 THEN d.screen_x ELSE d.screen_x + 1)
    BY <1>1, <2>2 DEF Popped
  <2> DEFINE p == d.pixel_position
             q == v.pixel_position
             x == d.screen_x
             y == v.screen_x
  <2>8. /\ q \in Int /\ (p >= -7 => q = p + 1)
        /\ (p < -7 => q = -7 \/ (q = p + 1 /\ q < -8))
    BY <2>3 DEF Moves
  <2>9. (p >= -8 => Position(d) = p) /\ (p < -8 => Position(d) = -8 \/ Position(d) = p)
    <3>1. p >= -8 => ~(p < -8)
      BY <1>5
    <3> QED
      BY <3>1 DEF Position, MaySkip
  <2>10. (q < Width => y # Width) /\ (~(q < Width) => y = Width /\ p = Width - 1)
    <3> DEFINE s == Position(d)
    <3>1. y = (IF s < 0 THEN x ELSE x + 1)
      BY <2>7
    <3>2. (p >= -8 => s = p) /\ (p < -8 => s = -8 \/ s = p)
      BY <2>9
    <3> HIDE DEF p, q, x, y, s
    <3>3. p \in Int /\ x \in Int /\ p < Width /\ x < Width /\ x = (IF p >= 0 THEN p ELSE 0)
          /\ Width \in Nat /\ Width > 8
      BY <1>5 DEF p, x
    <3> QED
      BY <2>8, <3>1, <3>2, <3>3
  <2>11. CASE q < Width
    <3>1. GroundFollows(v, 7)
      BY <1>1, <1>2, <1>8, <2>2, <2>11, GroundPops
    <3>2. GroundFollows(w, 8)
      BY <2>3, <2>5, <2>6, <2>11, <3>1, GroundAdvances
    <3> HIDE DEF u
    <3>3. FinishDrawing(w) = u
      BY DEF u
    <3> QED
      BY <1>0, <1>6, <2>6, <2>7, <2>10, <2>11, <3>2, <3>3
  <2>12. CASE ~(q < Width)
    <3>1. SameRows(v, w)
      BY <2>5 DEF FetcherTold
    <3>2. u.window_line = RowsOfWindow
      BY <2>2, <2>6, <2>10, <2>12, <3>1, LineEndsWith
    <3>3. u.finished
      <4>1. u = FinishDrawing(w)
        OBVIOUS
      <4> HIDE DEF u
      <4>2. Finished(w, u)
        BY <2>6, <4>1, LineFinishes
      <4> QED
        BY <2>6, <2>7, <2>10, <2>12, <4>2 DEF Finished
    <3> QED
      BY <1>0, <3>2, <3>3
  <2> QED
    BY <2>11, <2>12
<1> QED
  BY <1>7, <1>8

\* What is written stays as it was where no member of it changes.
LEMMA UntouchedIsSame ==
  ASSUME NEW d, NEW u, Untouched(d), SameRegisters(d, u),
         u.object_fetch_aborted = FALSE, u.wx_just_changed = FALSE
  PROVE  Untouched(u)
<1>1. u.lcdc = d.lcdc /\ u.wx = d.wx /\ u.scx = d.scx /\ u.scx_low = d.scx_low
  BY DEF SameRegisters
<1> QED
  BY <1>1 DEF Untouched

\* A dot of the line leaves everything as it should be.
LEMMA PixelFollows ==
  ASSUME NEW d, Chosen(d)
  PROVE  Untouched(DrawPixel(d)) /\ Follows(DrawPixel(d))
<1> DEFINE u == DrawPixel(d)
<1>1. /\ Alone(d) /\ d.finished = FALSE /\ AtZero = {} /\ ObjectsFollow(d) /\ Untouched(d)
      /\ d \in Drawing /\ Wellformed(d, 0) /\ FetcherIsInTime(d)
      /\ AllFetched(d) /\ d.object_fetch_step = "None"
  BY DEF Chosen, Shows, Alone, Wellformed
<1>2. AloneNumbers(d) /\ OnItsWay(d) /\ ObjectNumbers(d)
  BY <1>1, AloneIsNumbers, LineIsOnItsWay, ObjectsAreNumbers
<1>3. d.object_fetch_aborted = FALSE /\ d.wx_just_changed = FALSE
  BY <1>1 DEF Untouched
<1>4. d.screen_x < Width /\ d.pixel_position < Width
  BY <1>2 DEF OnItsWay
<1>5. d.screen_x # Width
  <2> DEFINE x == d.screen_x
  <2>1. x \in Int /\ x < Width /\ Width \in Nat
    BY <1>2, <1>4 DEF AloneNumbers, GroundNumbers, LineNumbers
  <2> HIDE DEF x
  <2>2. x # Width
    BY <2>1
  <2> QED
    BY <2>2 DEF x
<1>6. IF u.finished THEN u.window_line = RowsOfWindow ELSE GroundFollows(u, 8)
  BY GroundMoves
<1>7. CASE d.bg_fifo = <<>>
  <2>1. PixelWaits(d, u)
    BY <1>1, <1>5, <1>7, PixelStaysAway
  <2> HIDE DEF u
  <2>2. /\ SameRegisters(d, u) /\ SameColumn(d, u) /\ SameObjects(d, u) /\ SameWindow(d, u)
    BY <2>1 DEF PixelWaits
  <2>3. Untouched(u)
    BY <1>1, <1>3, <2>2, UntouchedIsSame DEF SameObjects, SameWindow
  <2>4. SameShow(d, u)
    BY <2>2 DEF SameShow, SameRegisters, SameColumn, SameObjects
  <2>5. ObjectsFollow(u)
    BY <1>1, <2>2, <2>4, ObjectsAreSame DEF SameObjects
  <2> QED
    BY <1>6, <2>3, <2>5, Zenon DEF Follows, u
<1>8. CASE d.bg_fifo # <<>>
  <2>1. PixelMoved(d, u)
    BY <1>1, <1>4, <1>8, PixelMoves
  <2> HIDE DEF u
  <2>2. /\ SameRegisters(d, u) /\ SameFetch(d, u) /\ SameWindow(d, u)
        /\ u.pixel_position = Position(d) + 1
        /\ u.obj_fifo = (IF d.obj_fifo = <<>> THEN d.obj_fifo ELSE Tail(d.obj_fifo))
    BY <2>1 DEF PixelMoved
  <2>3. Untouched(u)
    BY <1>1, <1>3, <2>2, UntouchedIsSame DEF SameFetch, SameWindow
  <2>4. /\ u.scx_low = d.scx_low /\ u.lcdc = d.lcdc /\ u.line_objects = d.line_objects
        /\ u.fetched = d.fetched /\ u.object_fetch_step = "None"
    BY <1>1, <2>2 DEF SameRegisters, SameFetch
  <2>5. Moves(d, u)
    BY <1>2, <2>2, <2>4, PixelMovesOn
  <2>6. ObjectsFollow(u)
    BY <1>1, <1>2, <1>4, <2>2, <2>4, <2>5, ObjectsMove
  <2> QED
    BY <1>6, <2>3, <2>6, Zenon DEF Follows, u
<1> QED
  BY <1>7, <1>8

\* The picture after a dot of the line.
LEMMA PictureGoesOn ==
  ASSUME NEW d, Chosen(d), PictureFollows(picture, d.screen_x),
         DOMAIN picture = 0 .. Width - 1
  PROVE  PictureFollows(Pushed(d), DrawPixel(d).screen_x)
<1> DEFINE p == d.pixel_position
           x == d.screen_x
           u == DrawPixel(d)
           y == DrawPixel(d).screen_x
<1>1. /\ Alone(d) /\ d.finished = FALSE /\ ObjectsFollow(d) /\ Untouched(d)
      /\ GroundFollows(d, 8) /\ Decided(d)
      /\ d \in Drawing /\ Wellformed(d, 0) /\ FetcherIsInTime(d)
      /\ AllFetched(d) /\ d.object_fetch_step = "None"
  BY DEF Chosen, Shows, Alone, Wellformed
<1>2. AloneNumbers(d) /\ OnItsWay(d) /\ ObjectNumbers(d)
  BY <1>1, AloneIsNumbers, LineIsOnItsWay, ObjectsAreNumbers
<1>3. /\ p \in Int /\ x \in Int /\ Width \in Nat /\ p < Width /\ x < Width
      /\ x = (IF p >= 0 THEN p ELSE 0)
  BY <1>2 DEF OnItsWay, AloneNumbers, GroundNumbers, LineNumbers
<1>4. d.lcdc = line.lcdc
  BY <1>1 DEF Untouched
<1>5. (p >= -8 => Position(d) = p) /\ (p < -8 => Position(d) = -8 \/ Position(d) = p)
  <2>1. p >= -8 => ~(p < -8)
    BY <1>3
  <2> QED
    BY <2>1 DEF Position, MaySkip
<1> DEFINE s == Position(d)
<1>6. (s >= 0) <=> (p >= 0)
  <2> HIDE DEF p, s
  <2> QED
    BY <1>3, <1>5 DEF s
<1>7. s \in Int
  BY <1>3, <1>5
<1>8. CASE ~(Mixes(d) /\ s >= 0)
  <2>1. Pushed(d) = picture
    BY <1>8 DEF Pushed
  <2>2. y = x
    <3>1. CASE d.bg_fifo = <<>>
      <4> DEFINE X == d.screen_x
      <4>1. X # Width
        <5> HIDE DEF X
        <5>1. X \in Int /\ X < Width
          BY <1>3 DEF X
        <5> QED
          BY <1>3, <5>1
      <4>2. PixelWaits(d, u)
        BY <1>1, <3>1, <4>1, PixelStaysAway
      <4> HIDE DEF u
      <4>3. u.screen_x = d.screen_x
        BY <4>2 DEF PixelWaits, SameColumn
      <4> QED
        BY <4>3 DEF u
    <3>2. CASE d.bg_fifo # <<>>
      <4>1. Mixes(d)
        BY <1>3, <3>2 DEF Mixes
      <4>2. s < 0
        <5> HIDE DEF s
        <5> QED
          BY <1>7, <1>8, <4>1
      <4>3. PixelMoved(d, u)
        BY <1>1, <1>3, <3>2, PixelMoves
      <4> HIDE DEF u
      <4>4. u.screen_x = d.screen_x
        BY <4>2, <4>3 DEF PixelMoved
      <4> QED
        BY <4>4 DEF u
    <3> QED
      BY <3>1, <3>2
  <2> HIDE DEF x, y
  <2>3. PictureFollows(picture, x)
    BY DEF x
  <2> QED
    BY <2>1, <2>2, <2>3 DEF y
<1>9. CASE Mixes(d) /\ s >= 0
  <2>1. d.bg_fifo # <<>> /\ p >= 0 /\ x = p
    BY <1>3, <1>6, <1>9 DEF Mixes
  <2>2. y = x + 1
    <3>1. PixelMoved(d, u)
      BY <1>1, <1>3, <2>1, PixelMoves
    <3> HIDE DEF u
    <3>2. ~(Position(d) < 0)
      <4> HIDE DEF s
      <4>1. ~(s < 0)
        BY <1>7, <1>9
      <4> QED
        BY <4>1 DEF s
    <3>3. u.screen_x = d.screen_x + 1
      BY <3>1, <3>2 DEF PixelMoved
    <3> QED
      BY <3>3 DEF u
  <2>3. "bg" \in line.lcdc => Head(d.bg_fifo) = Ground(p)
    BY <1>1, <1>2, <1>3, <2>1, GroundIsShown
  <2> DEFINE e == Mix(d, Head(d.bg_fifo), IF d.obj_fifo = <<>> THEN Clear ELSE Head(d.obj_fifo))
             q == Pushed(d)
  <2>4. e = Reference(p)
    <3> DEFINE bg == Head(d.bg_fifo)
    <3>1. "bg" \in line.lcdc => bg = Ground(d.pixel_position)
      BY <2>3
    <3> HIDE DEF bg
    <3>2. Mix(d, bg, IF d.obj_fifo = <<>> THEN Clear ELSE Head(d.obj_fifo))
            = Reference(d.pixel_position)
      BY <1>1, <1>2, <1>3, <1>4, <2>1, <3>1, MixIsReference
    <3> QED
      BY <3>2 DEF bg
  <2>5. q = [picture EXCEPT ![x] = e]
    BY <1>9 DEF Pushed
  <2>6. \A n \in 0 .. x - 1 : picture[n] = Reference(n)
    BY DEF PictureFollows
  <2> HIDE DEF e, q, x, y, p, s, u
  <2>7. x \in DOMAIN picture
    BY <1>3, <2>1
  <2>8. q[x] = Reference(x)
    BY <2>1, <2>4, <2>5, <2>7
  <2>9. ASSUME NEW n \in 0 .. y - 1
        PROVE  q[n] = Reference(n)
    <3>1. n = x \/ (n \in 0 .. x - 1 /\ n # x /\ n \in DOMAIN picture)
      BY <1>3, <2>1, <2>2
    <3>2. CASE n = x
      BY <2>8, <3>2
    <3>3. CASE n \in 0 .. x - 1 /\ n # x /\ n \in DOMAIN picture
      <4>1. q[n] = picture[n]
        BY <2>5, <3>3
      <4> QED
        BY <2>6, <3>3, <4>1
    <3> QED
      BY <3>1, <3>2, <3>3
  <2>10. PictureFollows(q, y)
    BY <2>9 DEF PictureFollows
  <2> QED
    BY <2>10 DEF q, y
<1> QED
  BY <1>8, <1>9

\* The window's part of a dot.
LEMMA WindowShows ==
  ASSUME NEW d, Shows(d), ~(MayBegin(d) /\ Trails(d))
  PROVE  /\ Shows(TickWindow(d)) /\ Decided(TickWindow(d))
         /\ TickWindow(d).screen_x = d.screen_x
         /\ TickWindow(d).object_fetch_step = d.object_fetch_step
<1> DEFINE u == TickWindow(d)
<1>1. /\ Alone(d) /\ d.finished = FALSE /\ AtZero = {} /\ line \in ScanLines
      /\ GroundFollows(d, 8) /\ ObjectsFollow(d) /\ d \in Drawing
  BY DEF Shows, Alone, Wellformed
<1>2. Alone(u) /\ GroundFollows(u, 8) /\ Decided(u)
  BY <1>1, GroundTicks
<1>3. WindowTicked(d, u)
  BY <1>1, WindowTicks
<1>4. ~(Triggers(d) /\ WindowPassed(d))
  BY <1>1, TriggersIsMayTrigger DEF Triggers, MayBegin
<1> HIDE DEF u
<1>5. u.screen_x = d.screen_x /\ u.finished = FALSE
  BY <1>1, <1>3, <1>4 DEF WindowTicked
<1>6. SameRegisters(d, u) /\ SameObjects(d, u) /\ u.pixel_position = d.pixel_position
  BY <1>3 DEF WindowTicked
<1>7. SameShow(d, u) /\ u.fetched = d.fetched /\ u.object_fetch_step = d.object_fetch_step
      /\ u.object_fetch_index = d.object_fetch_index
  BY <1>6 DEF SameShow, SameRegisters, SameObjects
<1>8. ObjectsFollow(u)
  BY <1>1, <1>7, ObjectsAreSame
<1> QED
  BY <1>1, <1>2, <1>5, <1>7, <1>8 DEF Shows, u

\* The view of the background is the same.
LEMMA ViewStaysShown ==
  ASSUME NEW d, NEW u, SameRegisters(d, u), SameGround(d, u),
         u.pixel_position = d.pixel_position, SameRows(d, u)
  PROVE  /\ GroundFollows(d, 8) => GroundFollows(u, 8)
         /\ Decided(d) /\ u.window_triggered = d.window_triggered => Decided(u)
<1>1. SameView(d, u)
  BY DEF SameView, SameRegisters, SameGround
<1>2. GroundFollows(d, 8) => GroundFollows(u, 8)
  BY <1>1, ViewIsSame DEF GroundFollows
<1>3. u.window_active = d.window_active /\ u.wx = d.wx /\ u.scx_low = d.scx_low
  BY DEF SameRegisters, SameGround
<1>4. WindowReached(u) <=> WindowReached(d)
  BY <1>3, Zenon DEF WindowReached
<1>5. Decided(d) /\ u.window_triggered = d.window_triggered => Decided(u)
  BY <1>3, <1>4, Zenon DEF Decided
<1> QED
  BY <1>2, <1>5

\* The start of the fetch of an object.
LEMMA FetchShows ==
  ASSUME NEW d, Shows(d), Decided(d), d.object_fetch_step = "None",
         NEW u, u = StartObjectFetch(d), Wellformed(u, 0)
  PROVE  /\ Shows(u) /\ Decided(u) /\ u.screen_x = d.screen_x
         /\ u.object_fetch_step = "None" => AllFetched(u)
<1>1. /\ Alone(d) /\ d.finished = FALSE /\ AtZero = {} /\ line \in ScanLines /\ Untouched(d)
      /\ GroundFollows(d, 8) /\ ObjectsFollow(d) /\ d \in Drawing /\ line \in LineState
      /\ d.fetched \subseteq d.line_objects
  BY DEF Shows, Alone, Wellformed
<1>2. Started(d, u) /\ StartTold(d, u)
  BY <1>1, FetchStarts, StartIsTold
<1>3. /\ SameRegisters(d, u) /\ SameColumn(d, u) /\ SameGround(d, u) /\ SameWindow(d, u)
      /\ u.obj_fifo = d.obj_fifo /\ u.object_fetch_aborted = d.object_fetch_aborted
      /\ SameRows(d, u)
  BY <1>2 DEF Started, StartTold
<1>4. /\ u.pixel_position = d.pixel_position /\ u.screen_x = d.screen_x /\ u.finished = FALSE
      /\ u.object_fetch_aborted = FALSE /\ u.wx_just_changed = FALSE
      /\ u.window_triggered = d.window_triggered
  BY <1>1, <1>3 DEF SameColumn, SameWindow, Untouched, SameRows
<1>5. GroundFollows(u, 8) /\ Decided(u)
  BY <1>1, <1>3, <1>4, ViewStaysShown
<1>6. Untouched(u)
  BY <1>1, <1>3, <1>4, UntouchedIsSame
<1>7. ObjectNumbers(d)
  BY <1>1, ObjectsAreNumbers
<1>8. SameShow(d, u)
  BY <1>3, <1>4 DEF SameShow, SameRegisters
<1>9. ObjectsFollow(u) /\ (u.object_fetch_step = "None" => AllFetched(u))
  BY <1>1, <1>2, <1>7, <1>8, ObjectsStart
<1> QED
  BY <1>1, <1>4, <1>5, <1>6, <1>9 DEF Shows, Alone

\* The end of the fetch of an object that is not under way.
LEMMA EndShows ==
  ASSUME NEW d, Chosen(d), NEW u, u = EndObjectFetch(d), Wellformed(u, 0)
  PROVE  Chosen(u) /\ u.screen_x = d.screen_x /\ Pushed(u) = Pushed(d)
<1>1. /\ Alone(d) /\ d.finished = FALSE /\ AtZero = {} /\ line \in ScanLines /\ Untouched(d)
      /\ GroundFollows(d, 8) /\ ObjectsFollow(d) /\ d \in Drawing /\ line \in LineState
      /\ Decided(d) /\ AllFetched(d) /\ d.object_fetch_step = "None"
  BY DEF Chosen, Shows, Alone, Wellformed
<1>2. /\ FetchEnded(d, u) /\ SameRows(d, u) /\ u.object_fetch_aborted = FALSE
  BY <1>1, FetchEnds, FetchEndIsTold
<1>3. /\ SameRegisters(d, u) /\ SameColumn(d, u) /\ SameGround(d, u) /\ SameWindow(d, u)
      /\ u.obj_fifo = d.obj_fifo /\ u.fetched = d.fetched /\ u.object_fetch_step = "None"
  BY <1>2 DEF FetchEnded
<1>4. /\ u.pixel_position = d.pixel_position /\ u.screen_x = d.screen_x /\ u.finished = FALSE
      /\ u.wx_just_changed = FALSE /\ u.window_triggered = d.window_triggered
      /\ u.bg_fifo = d.bg_fifo /\ u.lcdc = d.lcdc /\ u.scx_low = d.scx_low
      /\ u.line_objects = d.line_objects
  BY <1>1, <1>2, <1>3 DEF SameColumn, SameWindow, Untouched, SameRows, SameGround, SameRegisters
<1>5. GroundFollows(u, 8) /\ Decided(u)
  BY <1>1, <1>2, <1>3, <1>4, ViewStaysShown
<1>6. Untouched(u)
  BY <1>1, <1>2, <1>3, <1>4, UntouchedIsSame
<1>7. SameShow(d, u)
  BY <1>3, <1>4 DEF SameShow
<1>8. ObjectsFollow(u)
  BY <1>1, <1>3, <1>7, ObjectsAreSame
<1>9. AllFetched(u)
  <2>1. ObjectMatch(u) = ObjectMatch(d) /\ (Fetching(u) <=> Fetching(d))
    BY <1>4, Zenon DEF ObjectMatch, Fetching
  <2> QED
    BY <1>1, <1>3, <1>4, <2>1, Zenon DEF AllFetched
<1>10. Pushed(u) = Pushed(d)
  BY <1>3, <1>4, Zenon DEF Pushed, Mixes, Position, MaySkip, Mix, Colour
<1> QED
  BY <1>1, <1>3, <1>4, <1>5, <1>6, <1>8, <1>9, <1>10 DEF Chosen, Shows, Alone

\* A dot of the fetch of an object.
LEMMA TickShows ==
  ASSUME NEW d, Shows(d), FifoInPlace(d), d.object_fetch_step # "None"
  PROVE  /\ Untouched(TickObjectFetch(d)) /\ Follows(TickObjectFetch(d))
         /\ TickObjectFetch(d).screen_x = d.screen_x
<1> DEFINE u == TickObjectFetch(d)
<1>1. /\ Alone(d) /\ d.finished = FALSE /\ AtZero = {} /\ line \in ScanLines /\ Untouched(d)
      /\ GroundFollows(d, 8) /\ ObjectsFollow(d) /\ d \in Drawing /\ line \in LineState
      /\ Wellformed(d, 0) /\ d.object_fetch_aborted = FALSE
  BY DEF Shows, Alone, Wellformed, Untouched
<1>2. AloneNumbers(d) /\ ObjectNumbers(d) /\ OnItsWay(d)
  BY <1>1, AloneIsNumbers, ObjectsAreNumbers, LineIsOnItsWay
<1>3. Steady(d) /\ ObjectIsMet(d)
  BY <1>1, <1>2, FollowsIsSteady, ObjectIsInOam DEF GroundFollows
<1>4. FetchTicked(d, u) /\ FetchTold(d, u)
  BY <1>1, <1>3, FetchTicks, FetchIsTold
<1> HIDE DEF u
<1>5. /\ SameRegisters(d, u) /\ SameColumn(d, u) /\ SameWindow(d, u) /\ SameRows(d, u)
      /\ u.fetched = d.fetched /\ u.object_fetch_aborted = FALSE
      /\ u.object_fetch_step # "None" => u.object_fetch_index = d.object_fetch_index
  BY <1>4 DEF FetchTicked, FetchTold
<1>6. /\ u.pixel_position = d.pixel_position /\ u.screen_x = d.screen_x /\ u.finished = FALSE
      /\ u.wx_just_changed = FALSE /\ u.lcdc = d.lcdc /\ u.line_objects = d.line_objects
      /\ u.scx_low = d.scx_low
  BY <1>1, <1>5 DEF SameColumn, SameWindow, Untouched, SameRegisters
<1>7. Untouched(u)
  BY <1>1, <1>5, <1>6, UntouchedIsSame
<1>8. GroundFollows(u, 8)
  <2>1. CASE d.object_fetch_step = "Align"
    <3>1. FetcherTold(d, u)
      BY <1>4, <2>1 DEF FetchTold
    <3>2. GroundFollows(d, 7) /\ d.pixel_position < Width
      BY <1>1, <1>2, LooksLonger DEF OnItsWay
    <3> QED
      BY <1>2, <1>6, <3>1, <3>2, GroundAdvances
  <2>2. CASE d.object_fetch_step # "Align"
    <3>1. SameGround(d, u)
      BY <1>4, <2>2 DEF FetchTicked
    <3> QED
      BY <1>1, <1>5, <1>6, <3>1, ViewStaysShown
  <2> QED
    BY <2>1, <2>2
<1>9. ObjectsFollow(u)
  <2>1. d.object_fetch_index \in d.line_objects
        /\ line.oam[d.object_fetch_index].x = ObjectMatch(d)
    BY <1>1 DEF Wellformed
  <2> QED
    BY <1>1, <1>2, <1>4, <1>5, <1>6, <2>1, ObjectsTick
<1> QED
  BY <1>6, <1>7, <1>8, <1>9 DEF Follows, u

-----------------------------------------------------------------------------
(* The steps. *)

\* The object in front is told by the line.
LEMMA FrontIsOfLine ==
  ASSUME line' = line, NEW CONSTANT n
  PROVE  InFront(n)' = InFront(n)
<1> DEFINE A(l) == {i \in ScannedObjects(l) :
                      "objects" \in l.lcdc /\ n - (l.oam[i].x - 8) \in l.oam[i].opaque}
           F(l) == CHOOSE i \in A(l) : \A j \in A(l) :
                     l.oam[i].x < l.oam[j].x \/ (l.oam[i].x = l.oam[j].x /\ i <= j)
<1>1. InFront(n) = F(line)
  BY Zenon DEF InFront, ObjectsAt
<1>2. InFront(n)' = F(line')
  BY Zenon DEF InFront, ObjectsAt, ScannedObjects
<1> HIDE DEF F
<1>3. F(line') = F(line)
  OBVIOUS
<1> QED
  BY <1>1, <1>2, <1>3

\* So is what the line shows.
LEMMA ReferenceIsOfLine ==
  ASSUME line' = line, NEW CONSTANT n
  PROVE  Reference(n)' = Reference(n)
<1>1. InFront(n)' = InFront(n)
  BY FrontIsOfLine
<1>2. ObjectsAt(n)' = ObjectsAt(n)
  BY DEF ObjectsAt, ScannedObjects
<1>3. Ground(n)' = Ground(n)
  BY DEF Ground, BlankColumn, ShowsWindow, Enabled, WindowLeft, Below
<1> QED
  BY <1>1, <1>2, <1>3, Zenon DEF Reference

\* The members after a step, named u.
LEMMA NextIsPicture ==
  ASSUME NEW u, draw' = u, line' = line,
         writes'.count = 0 /\ AtZero = {} =>
           Untouched(u) /\ PictureFollows(picture', u.screen_x) /\ Follows(u)
  PROVE  PictureInv'
<1> SUFFICES ASSUME (writes.count = 0)', (AtZero = {})'
             PROVE  (Untouched(draw) /\ PictureFollows(picture, draw.screen_x) /\ Follows(draw))'
  BY DEF PictureInv
<1>0. AtZero = {}
  BY DEF AtZero
<1>1. Untouched(u) /\ PictureFollows(picture', u.screen_x) /\ Follows(u)
  BY <1>0
<1>2. Untouched(draw)'
  BY <1>1 DEF Untouched, Below
<1>3. PictureFollows(picture, draw.screen_x)'
  <2>1. \A n \in 0 .. u.screen_x - 1 : picture'[n] = Reference(n)
    BY <1>1 DEF PictureFollows
  <2>2. ASSUME NEW CONSTANT n, n \in 0 .. draw'.screen_x - 1
        PROVE  picture'[n] = Reference(n)'
    <3>1. Reference(n)' = Reference(n)
      BY ReferenceIsOfLine
    <3> QED
      BY <2>1, <2>2, <3>1, Zenon
  <2> QED
    BY <2>2, Zenon DEF PictureFollows
<1>4. RowsOfWindow' = RowsOfWindow
  BY DEF RowsOfWindow, Enabled
<1>5. GroundFollows(u, 8) => GroundFollows(draw, 8)'
  <2>1. GroundFifo(u) => GroundFifo(draw)'
    BY DEF GroundFifo, TilePixel, Origin, Past, Pops, BlankColumn, WindowStart, Below
  <2>2. GroundFetcher(u) => GroundFetcher(draw)'
    BY DEF GroundFetcher, Coming, Stock, Origin, Past, Pops, BlankColumn, WindowStart, Below
  <2>3. Looks(u, 8) => Looks(draw, 8)'
    BY DEF Looks, Stock, BlankColumn, Below
  <2>4. RowsFollow(u) => RowsFollow(draw)'
    BY DEF RowsFollow, Enabled, Pops, WindowStart, Below
  <2>5. WindowToCome(u) => WindowToCome(draw)'
    BY DEF WindowToCome, Enabled, Below
  <2> QED
    BY <2>1, <2>2, <2>3, <2>4, <2>5, Zenon DEF GroundFollows
<1>6. ObjectsFollow(u) => ObjectsFollow(draw)'
  <2>1. FifoFollows(u) => FifoFollows(draw)'
    BY DEF FifoFollows, Front, Opaque, Before, Laid, ObjectAt
  <2>2. FetchesFollow(u) => FetchesFollow(draw)'
    BY DEF FetchesFollow, ObjectMatch
  <2> QED
    BY <2>1, <2>2, Zenon DEF ObjectsFollow
<1>7. Follows(draw)'
  BY <1>1, <1>4, <1>5, <1>6, Zenon DEF Follows
<1> QED
  BY <1>2, <1>3, <1>7, Zenon

\* begin_mode3 leaves a line whose first pixels are blank.
LEMMA PictureBegins ==
  ASSUME DrawInit
  PROVE  PictureInv
<1> DEFINE d == BeginDrawing(line)
           b == [i \in 1 .. 8 |-> Blank]
<1> SUFFICES ASSUME AtZero = {}
             PROVE  Untouched(draw) /\ PictureFollows(picture, draw.screen_x) /\ Follows(draw)
  BY DEF PictureInv
<1>1. draw = d /\ line \in ScanLines /\ writes.taken = 0
  BY DEF DrawInit
<1>2. DrawInv /\ line \in LineState
  BY <1>1, LineBegins, LineIsState
<1>3. Wellformed(d, 0)
  BY <1>1, <1>2, DrawInvCounts
<1>4. /\ d.lcdc = line.lcdc /\ d.wx = line.wx /\ d.scx = line.scx /\ d.scx_low = Below
      /\ d.object_fetch_aborted = FALSE /\ d.wx_just_changed = FALSE
  BY DEF BeginDrawing, Below
<1>5. /\ d.pixel_position = -16 /\ d.screen_x = 0 /\ d.bg_fifo = b /\ d.obj_fifo = <<>>
      /\ d.fetcher = FreshFetcher /\ d.fetched = {} /\ d.object_fetch_step = "None"
      /\ d.window_triggered = FALSE /\ d.window_active = FALSE /\ d.window_line = 0
      /\ d.finished = FALSE
  BY DEF BeginDrawing
<1> HIDE DEF d
<1>6. FreshFetcher.step = 0 /\ FreshFetcher.window = FALSE
  BY DEF FreshFetcher
<1>7. Untouched(d)
  BY <1>4 DEF Untouched
<1>8. Alone(d)
  BY <1>2, <1>3, <1>7 DEF Alone
<1>9. AloneNumbers(d) /\ ObjectNumbers(d)
  BY <1>8, AloneIsNumbers, ObjectsAreNumbers
<1>10. LineNumbers
  BY <1>9 DEF AloneNumbers
<1>11. Len(b) = 8 /\ \A i \in 1 .. 8 : b[i] = Blank
  <2>1. b \in [1 .. 8 -> {Blank}] /\ 8 \in Nat
    OBVIOUS
  <2>2. \A i \in 1 .. 8 : b[i] = Blank
    OBVIOUS
  <2> HIDE DEF b
  <2>3. Len(b) = 8
    BY <2>1, RunOfPixels
  <2> QED
    BY <2>2, <2>3
<1> HIDE DEF b
<1>12. d.pixel_position # BlankColumn /\ ~(d.pixel_position > BlankColumn)
  <2> DEFINE p == d.pixel_position
             c == BlankColumn
  <2>1. p = -16 /\ c \in Int /\ c >= -7
    BY <1>5, <1>10 DEF LineNumbers
  <2> HIDE DEF p, c
  <2>2. p # c /\ ~(p > c)
    BY <2>1
  <2> QED
    BY <2>2 DEF p, c
<1>13. Pops(d) = 0 /\ Past(d) = 0 /\ Stock(d) = 8
  <2>1. Pops(d) = 0
    BY <1>5 DEF Pops
  <2>2. Past(d) = 0
    BY <1>12, <2>1 DEF Past
  <2>3. Stock(d) = 8
    BY <1>5, <1>11, <1>12 DEF Stock
  <2> QED
    BY <2>1, <2>2, <2>3
<1>14. GroundFifo(d)
  <2>1. ASSUME NEW i \in 1 .. 8
        PROVE  b[i] = TilePixel(d, (0 + i) - 1)
    <3>1. (0 + i) - 1 < 8
      OBVIOUS
    <3>2. ~d.window_active
      BY <1>5
    <3>3. TilePixel(d, (0 + i) - 1) = Blank
      BY <3>1, <3>2, Zenon DEF TilePixel
    <3> QED
      BY <1>11, <3>3
  <2>2. 8 <= 8
    OBVIOUS
  <2> QED
    BY <1>5, <1>11, <1>12, <1>13, <2>1, <2>2, Zenon DEF GroundFifo
<1>15. GroundFetcher(d)
  <2>1. ~d.window_active
    BY <1>5
  <2>2. Coming(d) = (0 + 8) + ((line.scx - Below) - 8)
    BY <1>13, <2>1, Zenon DEF Coming, Origin
  <2>3. Coming(d) % 8 = 0
    <3> DEFINE s == line.scx
               e == Below
               c == s - e
    <3>1. s \in Int /\ e \in Int /\ c % 8 = 0
      BY <1>10 DEF LineNumbers
    <3>2. Coming(d) = (0 + 8) + ((s - e) - 8)
      BY <2>2
    <3> HIDE DEF s, e
    <3>3. (0 + 8) + ((s - e) - 8) = c
      BY <3>1
    <3> HIDE DEF c
    <3> QED
      BY <3>1, <3>2, <3>3, Zenon
  <2>4. 0 + 8 >= 8 /\ ~(0 >= 1)
    OBVIOUS
  <2> QED
    BY <1>5, <1>6, <1>13, <2>1, <2>3, <2>4, Zenon DEF GroundFetcher
<1>16. Looks(d, 8)
  <2>1. 8 \in 8 .. 8
    OBVIOUS
  <2> QED
    BY <1>13, <2>1, Zenon DEF Looks
<1>17. RowsFollow(d)
  BY <1>5 DEF RowsFollow
<1>18. WindowToCome(d)
  <2> DEFINE w == line.wx
  <2>1. w \in 0 .. 255
    BY <1>10 DEF LineNumbers
  <2> HIDE DEF w
  <2>2. -16 <= w - 7
    BY <2>1
  <2> QED
    BY <1>5, <2>2 DEF WindowToCome, w
<1>19. FifoFollows(d)
  <2>1. Laid(d) = {}
    BY <1>5 DEF Laid
  <2>2. Len(d.obj_fifo) = 0
    BY <1>5
  <2>3. ASSUME NEW i \in Nat, i >= 1
        PROVE  ObjectAt(d, i) = Clear
    BY <2>2, <2>3 DEF ObjectAt
  <2>4. \A n : Front({}, n, Clear)
    BY DEF Front
  <2> QED
    BY <2>1, <2>2, <2>3, <2>4 DEF FifoFollows
<1>20. FetchesFollow(d)
  <2>1. ObjectMatch(d) = 0
    BY <1>5 DEF ObjectMatch
  <2>2. ASSUME NEW i \in d.line_objects
        PROVE  ~(line.oam[i].x < 0)
    <3> DEFINE x == line.oam[i].x
    <3>1. x \in 0 .. 255
      BY <1>9 DEF ObjectNumbers, PlaceNumbers
    <3> HIDE DEF x
    <3>2. ~(x < 0)
      BY <3>1
    <3> QED
      BY <3>2 DEF x
  <2> QED
    BY <1>5, <2>1, <2>2, Zenon DEF FetchesFollow
<1>21. GroundFollows(d, 8) /\ ObjectsFollow(d)
  BY <1>14, <1>15, <1>16, <1>17, <1>18, <1>19, <1>20 DEF GroundFollows, ObjectsFollow
<1>22. PictureFollows(picture, d.screen_x)
  <2>1. ~\E n \in 0 .. 0 - 1 : TRUE
    OBVIOUS
  <2> QED
    BY <1>5, <2>1, Zenon DEF PictureFollows
<1> QED
  BY <1>1, <1>5, <1>7, <1>21, <1>22, Zenon DEF Follows

\* A dot before the first pixel.
LEMMA StartupDotShows ==
  ASSUME DrawInv, PictureInv, Startup
  PROVE  PictureInv'
<1> DEFINE d == draw
           u == [draw EXCEPT !.mode3_startup_dots = @ - 1]
<1>1. /\ draw' = u /\ line' = line /\ writes' = writes /\ picture' = picture
      /\ ~d.finished
  BY DEF Startup, Count
<1>2. d \in Drawing
  BY DrawInvCounts
<1>3. u.finished = d.finished /\ u.screen_x = d.screen_x
  BY <1>2 DEF Drawing
<1>4. /\ SameObjects(d, u) /\ SameGround(d, u) /\ SameRows(d, u) /\ SameShow(d, u)
      /\ SameView(d, u)
  BY <1>2 DEF Drawing, SameObjects, SameGround, SameRows, SameShow, SameView
<1>5. /\ u.lcdc = d.lcdc /\ u.wx = d.wx /\ u.scx = d.scx /\ u.scx_low = d.scx_low
      /\ u.object_fetch_aborted = d.object_fetch_aborted
      /\ u.wx_just_changed = d.wx_just_changed
  BY <1>2 DEF Drawing
<1> HIDE DEF u
<1>6. ASSUME writes'.count = 0 /\ AtZero = {}
      PROVE  Untouched(u) /\ PictureFollows(picture', u.screen_x) /\ Follows(u)
  <2>1. Untouched(d) /\ PictureFollows(picture, d.screen_x) /\ Follows(d)
    BY <1>1, <1>6 DEF PictureInv
  <2>2. Untouched(u)
    BY <1>5, <2>1, Zenon DEF Untouched
  <2>3. GroundFollows(d, 8) /\ ObjectsFollow(d)
    BY <1>1, <2>1 DEF Follows
  <2>4. GroundFollows(u, 8)
    BY <1>4, <2>3, ViewIsSame DEF GroundFollows
  <2>5. ObjectsFollow(u)
    BY <1>4, <2>3, ObjectsAreSame DEF SameObjects
  <2>6. PictureFollows(picture', u.screen_x)
    BY <1>1, <1>3, <2>1
  <2> QED
    BY <1>1, <1>3, <2>2, <2>4, <2>5, <2>6, Zenon DEF Follows
<1> QED
  BY <1>1, <1>6, NextIsPicture

\* What a line shows that goes on alone.
LEMMA LineShows ==
  ASSUME DrawInv, PictureInv, writes.count = 0, AtZero = {}, ~draw.finished
  PROVE  /\ Shows(draw) /\ ~(MayBegin(draw) /\ Trails(draw)) /\ writes.taken = 0
         /\ PictureFollows(picture, draw.screen_x) /\ line \in ScanLines
<1> DEFINE d == draw
           t == writes.taken
<1>1. /\ Counts /\ line \in ScanLines /\ t \in Nat /\ Wellformed(d, t) /\ d \in Drawing
      /\ TakenIsWritten(d, writes.count, t)
  BY DrawInvCounts
<1>2. Untouched(d) /\ PictureFollows(picture, d.screen_x) /\ Follows(d)
  BY DEF PictureInv
<1>3. d.finished = FALSE
  BY <1>1, DrawingIsNumbers DEF Numbers
<1>4. t = 0
  <2>1. t <= 0
    BY <1>1, Zenon DEF TakenIsWritten
  <2> HIDE DEF t
  <2> QED
    BY <1>1, <2>1
<1>5. ~(MayBegin(d) /\ Trails(d))
  BY <1>1, <1>4, Zenon DEF TakenIsWritten
<1>6. Alone(d)
  BY <1>1, <1>2, <1>4, LineIsState DEF Alone
<1>7. Shows(d)
  BY <1>1, <1>2, <1>3, <1>6, Zenon DEF Shows, Follows
<1> QED
  BY <1>1, <1>2, <1>4, <1>5, <1>7

\* The dot of a window with WX = 0.
LEMMA WindowDotShows ==
  ASSUME DrawInv, PictureInv, WindowDot
  PROVE  PictureInv'
<1> DEFINE u == TickWindow(draw)
<1>1. /\ draw' = u /\ line' = line /\ writes' = writes /\ picture' = picture /\ ~draw.finished
  BY DEF WindowDot, Count
<1>2. ASSUME writes'.count = 0 /\ AtZero = {}
      PROVE  Untouched(u) /\ PictureFollows(picture', u.screen_x) /\ Follows(u)
  <2>1. Shows(draw) /\ ~(MayBegin(draw) /\ Trails(draw)) /\ PictureFollows(picture, draw.screen_x)
    BY <1>1, <1>2, LineShows
  <2>2. Shows(u) /\ u.screen_x = draw.screen_x
    BY <2>1, WindowShows
  <2> HIDE DEF u
  <2>3. Untouched(u) /\ Follows(u)
    BY <2>2 DEF Shows, Alone, Follows
  <2> QED
    BY <1>1, <2>1, <2>2, <2>3
<1> HIDE DEF u
<1> QED
  BY <1>1, <1>2, NextIsPicture

\* The rest of tick_mode3.
LEMMA DrawDotShows ==
  ASSUME DrawInv, PictureInv, DrawDot
  PROVE  PictureInv'
<1> DEFINE d == draw
           ticked == TickWindow(draw)
           begun == IF ticked.object_fetch_step = "None" THEN StartObjectFetch(ticked) ELSE ticked
           fetching == begun.object_fetch_step # "None" /\ ~begun.object_fetch_aborted
           w == [writes EXCEPT !.taken = IF Triggers(draw) /\ WindowPassed(draw)
                                         THEN @ + 1 ELSE @]
<1>1. /\ ~d.finished /\ d.mode3_startup_dots = 0 /\ line' = line /\ writes' = w
      /\ fetching => draw' = TickObjectFetch(begun) /\ picture' = picture
      /\ ~fetching => draw' = DrawPixel(EndObjectFetch(begun)) /\ picture' = Pushed(begun)
  BY DEF DrawDot
<1>2. /\ Counts /\ line \in ScanLines /\ writes.taken \in Nat /\ Wellformed(d, writes.taken)
      /\ d \in Drawing /\ FifoInPlace(d) /\ InBudget(d, writes.count, writes.taken, dots)
      /\ TakenIsWritten(d, writes.count, writes.taken)
  BY DrawInvCounts
<1>3. writes \in [count : Nat, taken : Nat] /\ DOMAIN picture = 0 .. Width - 1
  BY DEF DrawInv
<1>4. d.finished = FALSE
  BY <1>1, <1>2, DrawingIsNumbers DEF Numbers
<1>5. w.count = writes.count
  BY <1>3
<1> SUFFICES ASSUME writes'.count = 0, AtZero = {},
                    NEW u, u = draw'
             PROVE  Untouched(u) /\ PictureFollows(picture', u.screen_x) /\ Follows(u)
  BY <1>1, NextIsPicture
<1> HIDE DEF w
<1>6. writes.count = 0
  BY <1>1, <1>5
<1>7. /\ Shows(d) /\ ~(MayBegin(d) /\ Trails(d)) /\ writes.taken = 0
      /\ PictureFollows(picture, d.screen_x)
  BY <1>1, <1>6, LineShows
<1>8. Taken(d, 0) = 0
  BY <1>2, <1>7, TriggersIsMayTrigger DEF Taken, Triggers, MayBegin
<1>9. Ready(ticked, 0)
  BY <1>1, <1>2, <1>4, <1>7, <1>8, WindowLeavesReady
<1>10. /\ Shows(ticked) /\ Decided(ticked) /\ ticked.screen_x = d.screen_x
  BY <1>7, WindowShows
<1> HIDE DEF ticked
<1>11. /\ Begun(begun, 0) /\ Shows(begun) /\ Decided(begun) /\ begun.screen_x = d.screen_x
       /\ begun.object_fetch_step = "None" => AllFetched(begun)
  <2>1. CASE ticked.object_fetch_step = "None"
    <3> DEFINE v == StartObjectFetch(ticked)
    <3>1. Begun(v, 0)
      BY <1>2, <1>9, <2>1, FetchIsPaid
    <3>2. Wellformed(v, 0)
      BY <3>1 DEF Begun, GoesOn
    <3>3. /\ Shows(v) /\ Decided(v) /\ v.screen_x = ticked.screen_x
          /\ v.object_fetch_step = "None" => AllFetched(v)
      BY <1>10, <2>1, <3>2, FetchShows
    <3> QED
      BY <1>10, <2>1, <3>1, <3>3
  <2>2. CASE ticked.object_fetch_step # "None"
    <3>1. Begun(ticked, 0)
      BY <1>2, <1>9, ReadyBegins
    <3> QED
      BY <1>10, <2>2, <3>1
  <2> QED
    BY <2>1, <2>2
<1> HIDE DEF begun
<1>12. ~begun.object_fetch_aborted
  BY <1>11 DEF Shows, Alone, Untouched
<1>13. CASE fetching
  <2>1. FifoInPlace(begun)
    BY <1>11 DEF Begun, GoesOn
  <2>2. /\ Untouched(TickObjectFetch(begun)) /\ Follows(TickObjectFetch(begun))
        /\ TickObjectFetch(begun).screen_x = begun.screen_x
    BY <1>11, <1>13, <2>1, TickShows
  <2>3. u = TickObjectFetch(begun) /\ picture' = picture
    BY <1>1, <1>13
  <2> QED
    BY <1>7, <1>11, <2>2, <2>3
<1>14. CASE ~fetching
  <2> DEFINE e == EndObjectFetch(begun)
  <2>1. u = DrawPixel(e) /\ picture' = Pushed(begun)
    BY <1>1, <1>14
  <2>2. Chosen(begun)
    BY <1>11, <1>12, <1>14 DEF Chosen
  <2>3. Wellformed(e, 0)
    BY <1>2, <1>11, FetchIsGivenUp DEF GoesOn
  <2>4. Chosen(e) /\ e.screen_x = begun.screen_x /\ Pushed(e) = Pushed(begun)
    BY <2>2, <2>3, EndShows
  <2> HIDE DEF e
  <2>5. PictureFollows(picture, e.screen_x)
    BY <1>7, <1>11, <2>4
  <2>6. Untouched(u) /\ Follows(u)
    BY <2>1, <2>4, PixelFollows
  <2>7. PictureFollows(Pushed(e), u.screen_x)
    BY <1>3, <2>1, <2>4, <2>5, PictureGoesOn
  <2> QED
    BY <2>1, <2>4, <2>6, <2>7
<1> QED
  BY <1>13, <1>14

\* A line in which the program has written is none of these.
LEMMA WriteShows ==
  ASSUME DrawInv, NEW w \in Writes, Write(w)
  PROVE  PictureInv'
<1> DEFINE k == writes.count
<1>1. k \in Nat /\ writes \in [count : Nat, taken : Nat]
  BY DEF DrawInv
<1>2. writes' = [writes EXCEPT !.count = @ + 1]
  BY DEF Write
<1>3. writes'.count = k + 1
  BY <1>1, <1>2
<1> HIDE DEF k
<1>4. k + 1 # 0
  BY <1>1
<1>5. ~(writes.count = 0)'
  BY <1>3, <1>4
<1> QED
  BY <1>5 DEF PictureInv

\* The second inductive invariant of the line that is drawn: the FIFOs and the
\* picture of a line that the program leaves alone.
THEOREM LineFollowsTheReference == DrawSpec => []PictureInv
<1>1. DrawInit => PictureInv
  BY PictureBegins
<1>2. DrawInv /\ PictureInv /\ [DrawNext]_draw_vars => PictureInv'
  <2> SUFFICES ASSUME DrawInv, PictureInv, [DrawNext]_draw_vars PROVE PictureInv'
    OBVIOUS
  <2>1. CASE Startup
    BY <2>1, StartupDotShows
  <2>2. CASE WindowDot
    BY <2>2, WindowDotShows
  <2>3. CASE DrawDot
    BY <2>3, DrawDotShows
  <2>4. CASE \E w \in Writes : Write(w)
    BY <2>4, WriteShows
  <2>5. CASE UNCHANGED draw_vars
    <3>1. draw' = draw /\ line' = line /\ picture' = picture /\ writes' = writes
      BY <2>5 DEF draw_vars
    <3> QED
      BY <3>1, NextIsPicture, Zenon DEF PictureInv
  <2> QED
    BY <2>1, <2>2, <2>3, <2>4, <2>5 DEF DrawNext
<1> QED
  BY <1>1, <1>2, LineIsWellformed, PTL DEF DrawSpec

\* A line that the program leaves alone shows the scrolled background, the window
\* and in front the object that is furthest left, and counts the rows of the window.
THEOREM LinesShowTheReference == DrawSpec => []PictureIsRight
<1> SUFFICES ASSUME DrawInv, PictureInv PROVE PictureIsRight
  BY LineIsWellformed, LineFollowsTheReference, PTL
<1> SUFFICES ASSUME draw.finished, writes.count = 0, AtZero = {}
             PROVE  /\ \A n \in 0 .. Width - 1 : picture[n] = Reference(n)
                    /\ draw.window_line = RowsOfWindow
  BY DEF PictureIsRight
<1>1. PictureFollows(picture, draw.screen_x) /\ draw.window_line = RowsOfWindow
  BY DEF PictureInv, Follows
<1>2. draw.screen_x = Width
  BY DrawInvCounts DEF Wellformed
<1> QED
  BY <1>1, <1>2, Zenon DEF PictureFollows

=============================================================================
