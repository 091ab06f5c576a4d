SPECIFICATION Spec
CONSTANTS
  Invocations <- Server2003Runs
  HostNames <- Names5
  MaxRoutes = 2
  DevLetters = 16
  NUMBERS <- Numbers
CHECK_DEADLOCK FALSE
INVARIANT
  WindowsIsSafe
