CONSTANTS
  r = r
  a = a
  b = b
  Root = r
  Parts = {r, a, b}
  Parent <- Star
  Persisted = {a}
  Lossy = FALSE
  SlowLookup = FALSE
  MaxFaults = 3
SPECIFICATION Spec
CHECK_DEADLOCK FALSE
INVARIANTS TypeOK Agreement CommittedIsTrue NoProtocolError LogApplies
