SPECIFICATION BSpec
CONSTANTS
  Scopes <- MCScopes
  Garbage <- MCGarbage
  MaxFaults = 2
  Junk <- MCJunk
INVARIANTS
  ReadBack
  PowerAsSet
  FrequencyClose
  BroughtUp
  OthersKept
CHECK_DEADLOCK FALSE
