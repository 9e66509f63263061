SPECIFICATION FairSpec
CONSTANTS
  Keys <- SomeKeys
  ButtonOf <- SomeButtons
  Lines = {1, 3}
  LineOf <- SomeLines
  Dpad <- OnDpad
  DpadDelay = 8
  ActionDelay = 4
  FrameCycles = 3
  WakeupClocks = 8
INVARIANTS
  NoStuckButton
  DelayedDisconnection
  WokenByItsInterrupt
PROPERTIES
  EdgesInterrupt
  FramesEnd
