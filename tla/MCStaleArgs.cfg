\* A UDF argument that the operator computes, with a buffer of several batches.
SPECIFICATION Spec
CONSTANTS
  NumUdf = 1
  InputCols = 1
  Computed = {1}
  ComputedProj = FALSE
  ComputedFilter = FALSE
  MaxBatch = 2
  DefaultLength = 4
  StartPredicts = {1}
  Delta = 1
  RoundLimit = 1
  ShortResults = FALSE
  Selected <- MCSelected
  MaxRows = 4
  MaxRescans = 0
  MaxPeerTunes = 1
INVARIANT ArgumentsOfTheirRows
