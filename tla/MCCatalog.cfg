\* Two servers, two sessions, one name that may have a function already.
SPECIFICATION FairSpec
CONSTANTS
  r1 = r1
  r2 = r2
  s1 = s1
  s2 = s2
  Servers = {r1, r2}
  Sessions = {s1, s2}
  Names = {"f"}
  NoRow = NoRow
  Nobody = Nobody
  FirstId = 2
  MaxId = 5
  MaxMasters = 2
  MaxCalls = 2
  RetryTimes = 1
INVARIANTS TypeOK
PROPERTIES ImplementsTable CommitsInEpochOrder StatementsEnd
CHECK_DEADLOCK FALSE
