SPECIFICATION FairSpec
CONSTANTS
  Sources = {1, 2}
  Joypad = 2
  WakeupClocks = 12
  NoWrite = NoWrite
INVARIANTS
  OneMode
  DecisionsHold
PROPERTIES
  BugWithoutIme
  SleepersWake
