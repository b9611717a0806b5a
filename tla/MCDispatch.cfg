SPECIFICATION LiveSpec
CONSTANTS
  c1 = c1
  c2 = c2
  Clients = {c1, c2}
  AlarmBox = AlarmBox
  Locals = {AlarmBox}
  Nobody = Nobody
  Fds = {5}
  MaxFrames = 2
INVARIANTS
  NoUseAfterFree
  AnswerToAsker
  NoRepeat
  ExactUnlessCrossed
  Accounted
PROPERTIES
  Served
  Leaves
CHECK_DEADLOCK FALSE
