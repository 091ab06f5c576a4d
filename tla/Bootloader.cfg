SPECIFICATION FairSpec
CONSTANTS
  k1 = k1
  k2 = k2
  Kernels = {k1, k2}
  Guests <- FreshGuests
INVARIANTS
  TypeOK
  CleanRunBoots
  RebuildFailureShows
PROPERTIES
  NoToolsNoSuccess
  EveryFixupEnds
