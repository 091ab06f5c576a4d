SPECIFICATION FairSpec
CONSTANTS
  N = 3
  Cluster = {c1, c2}
  Data = {a, b}
  Hole = hole
INVARIANTS
  IInv
  SourceSurvives
  SuccessIsMerged
PROPERTIES
  KeepsPromise
  EveryCallEnds
