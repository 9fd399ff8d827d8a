SPECIFICATION FairSpec
CONSTANTS
  Sessions = {s1, s2}
  Speeds = {80, 100, 105, 400}
  Plateau = {100, 105}
  Knee = 3
  RoundLimit = 2
INVARIANTS
  TypeOK
  GrowthIsCounted
PROPERTY
  TuningEnds
