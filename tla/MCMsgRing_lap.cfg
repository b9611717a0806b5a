SPECIFICATION Spec
CONSTANTS
  p1 = p1
  p2 = p2
  Producers = {p1, p2}
  NoOwner = NoOwner
  Blank = Blank
  Torn = Torn
  Runt = Runt
  NoMsg = NoMsg
  Slots = 3
  QCap = 4
  MaxFrames = 7
  MaxRestarts = 1
SYMMETRY Symmetry
INVARIANTS
  SlotIntact
  QueueOrdered
PROPERTIES
  NoReplay
  ExactTransmission
  FifoWhileShort
CHECK_DEADLOCK FALSE
