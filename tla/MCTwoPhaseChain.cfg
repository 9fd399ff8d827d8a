CONSTANTS
  r = r
  a = a
  b = b
  Root = r
  Parts = {r, a, b}
  Parent <- Chain
  Persisted = {a}
  Lossy = FALSE
  SlowLookup = TRUE
  MaxFaults = 3
SPECIFICATION Spec
CHECK_DEADLOCK FALSE
INVARIANTS Agreement LogApplies
