SPECIFICATION LiveSpec
CONSTANTS
  once = once
  meter = meter
  End = End
  Alarms = {meter, once}
  Params = {meter}
  Data = {0, 1}
  MaxNow = 3
  MaxAsks = 2
  Order <- MCOrder
  Start <- MCStart
  Interval <- MCInterval
  Timeout <- MCTimeout
  Dat <- MCDat
INVARIANTS
  PhaseKept
  NoSkip
  AckedWasAsked
  OneShotSafe
PROPERTIES
  GivesUp
CHECK_DEADLOCK FALSE
