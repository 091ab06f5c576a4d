SPECIFICATION FairSpec
CONSTANTS
  Guests <- NamedGuests
INVARIANTS
  
  SecondRunRemoves
  NoToolsNoSuccess
PROPERTY
  EveryRemovalEnds
