SPECIFICATION FairSpec
CONSTANTS
  Exports <- OnceExports
  Dir = {"exports", "images"}
  Disk = {"d1", "d2", "d3"}
  Stem <- OwnStems
  Invocations <- OnceRuns
  Strays <- NoStrays
  Remigrate = FALSE
  DevLetters = 1
  MaxVolume = 3
  Removable = {"d2"}
INVARIANTS
  IInv
  SuccessIsBacked
  WindowsGetsSafeHardware
  BootableIsWhole
PROPERTIES
  FailureLeavesNoDomain
  SuccessIsOnHost
  DryRunChangesNothing
  DeliversAtomically
  EveryRunEnds
