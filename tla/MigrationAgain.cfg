SPECIFICATION Spec
CONSTANTS
  Exports <- MoreExports
  Dir = {"exports", "images"}
  Disk = {"d1", "d2", "d3"}
  Stem <- OwnStems
  Invocations <- AgainRuns
  Strays <- NoStrays
  Remigrate = TRUE
  DevLetters = 16
  MaxVolume = 3
  Removable = {}
PROPERTIES
  OnlyOwnRerunUnbacks
