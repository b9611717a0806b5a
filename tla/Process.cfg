SPECIFICATION ProcessSpec
CONSTANTS
  PulseTime = 3
  AlarmSleep = 6
  EventSleep = 13
  DataSleep = 20
  MaxLate = 3
  Writers = {m, a, b}
  Main = m
  Month = 2
  LastDay = 3
  MaxLines = 4
  MaxFailures = 1
INVARIANTS
  NoNullList
  FileSafe
  RightDay
CHECK_DEADLOCK FALSE
