SPECIFICATION TimedSpec
CONSTANTS
  Slots = 4
  AddressSlots = 2
  Addresses <- Neighbours
  Values <- TwoBits
INVARIANTS
  AssertionsHold
PROPERTIES
  ImplementsBusWrites
