SPECIFICATION Spec
CONSTANTS
  Invocations <- AllRuns
  HostNames <- Names5
  MaxRoutes = 2
  DevLetters = 16
  NUMBERS <- Numbers
CHECK_DEADLOCK FALSE
INVARIANTS
  EveryExportIsRead
  EveryDiskIsFound
  HardwareSurvives
  AddressesSurvive
  KnownSizeIsCapacity
  WindowsIsSafe
  AnswerIsABridge
  FirstRouteDecides
