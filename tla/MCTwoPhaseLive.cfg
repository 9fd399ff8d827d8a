CONSTANTS
  r = r
  a = a
  b = b
  Root = r
  Parts = {r, a}
  Parent <- Pair
  Persisted = {a}
  Lossy = TRUE
  SlowLookup = FALSE
  MaxFaults = 1
SPECIFICATION FairSpec
CHECK_DEADLOCK FALSE
PROPERTIES ContextsEnd SchedulerTold
