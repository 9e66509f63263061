SPECIFICATION FairSpec
CONSTANTS
  CounterSize = 64
  ByteSize = 3
  TimerBit <- SmallBits
PROPERTIES
  ImplementsCycles
  EnabledTimerInterrupts
