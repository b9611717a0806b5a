SPECIFICATION Spec
CONSTANTS
  Blank = Blank
  NoMsg = NoMsg
  Slots = 3
  QCap = 2
  Boxes = 2
  MaxPackets = 5
  MaxRestarts = 1
INVARIANTS
  OwnFrame
CHECK_DEADLOCK FALSE
