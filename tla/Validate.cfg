SPECIFICATION VSpec
CONSTANTS
  Exports <- Machines
  Dir = {"exports", "images"}
  Disk = {"d1", "d2", "d3"}
  Stem <- OwnStems
  Invocations <- Runs
  Strays <- NoStrays
  Remigrate = TRUE
  DevLetters = 16
  MaxVolume = 0
  Removable = {}
  Requests <- Checks
  Cwd = "images"
  Unidentified <- Nameless
  Capacity <- Sizes
  Known <- KnownSizes
  Metadata = 1
  MaxRoom = 3
  MaxChanges = 1
  MaxCommands = 3
INVARIANTS
  PassedIsKept
  FailedIsRefused
PROPERTY
  EveryValidationEnds
