SPECIFICATION Spec
CONSTANTS
  c1 = c1
  c2 = c2
  c3 = c3
  t1 = t1
  Clients = {c1, c2, c3}
  Tasks = {t1}
  Sentinel = Sentinel
  Null = Null
  Nobody = Nobody
  Walker = Walker
  MaxWalks = 1
  MaxLooks = 1
SYMMETRY Symmetry
INVARIANTS
  NoWildPointer
  ListExact
  WalkExact
CHECK_DEADLOCK FALSE
