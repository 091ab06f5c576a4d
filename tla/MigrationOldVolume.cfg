SPECIFICATION Spec
CONSTANTS
  Exports <- JustLinux
  Dir = {"exports", "images"}
  Disk = {"d1", "d2"}
  Stem <- OwnStems
  Invocations <- LinuxOnHost
  Strays <- OldVolume
  Remigrate = FALSE
  DevLetters = 16
  MaxVolume = 4
  Removable = {}
INVARIANT
  BootableIsWhole
