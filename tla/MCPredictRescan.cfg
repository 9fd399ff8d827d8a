\* No other column is kept, so a rescan succeeds; the old cells stay in the list.
SPECIFICATION FairSpec
CONSTANTS
  NumUdf = 1
  InputCols = 0
  Computed = {}
  ComputedProj = FALSE
  ComputedFilter = FALSE
  MaxBatch = 2
  DefaultLength = 3
  StartPredicts = {2, 3}
  Delta = 1
  RoundLimit = 1
  ShortResults = FALSE
  Selected <- MCSelected
  MaxRows = 4
  MaxRescans = 2
  MaxPeerTunes = 0
INVARIANTS NoInternalError
PROPERTIES ImplementsStream ScanEnds
