SPECIFICATION LiveSpec
CONSTANTS
  p1 = p1
  p2 = p2
  Producers = {p1, p2}
  NoOwner = NoOwner
  Blank = Blank
  Torn = Torn
  Runt = Runt
  NoMsg = NoMsg
  Slots = 4
  QCap = 2
  MaxFrames = 7
  MaxRestarts = 0
INVARIANTS
  NoOverrun
PROPERTIES
  ImplementsFifo
  SendReturns
  ImplementsFifoLive
CHECK_DEADLOCK FALSE
