SPECIFICATION Spec
CONSTANTS
  Exports <- JustWeb
  Dir = {"exports", "images"}
  Disk <- WebDisks
  Stem <- SameStem
  Invocations <- WebRuns
  Strays <- NoStrays
  Remigrate = FALSE
  DevLetters = 16
  MaxVolume = 3
  Removable = {}
INVARIANT
  SuccessIsBacked
