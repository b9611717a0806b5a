SPECIFICATION BSpec
CONSTANTS
  Scopes <- MCScopes
  Garbage <- MCZero
  MaxFaults = 0
  Junk <- MCZero
INVARIANTS
  Pa20AsSet
