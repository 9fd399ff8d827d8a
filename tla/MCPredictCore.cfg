\* Two UDFs, one more column, small prediction sizes that grow, and a filter.
SPECIFICATION Spec
CONSTANTS
  NumUdf = 2
  InputCols = 1
  Computed = {}
  ComputedProj = FALSE
  ComputedFilter = FALSE
  MaxBatch = 2
  DefaultLength = 4
  StartPredicts = {1}
  Delta = 1
  RoundLimit = 1
  ShortResults = FALSE
  Selected <- MCSelected
  MaxRows = 5
  MaxRescans = 1
  MaxPeerTunes = 1
INVARIANTS TypeOK NoInternalError SizesAgree StoresAligned SlicesInBuffer RightAnswers
PROPERTIES DropsOnlyDelivered ImplementsStream
