SPECIFICATION Spec
CONSTANTS
  None = None
  Old <- MCOld
  MaxCrashes = 2
  MaxFaults = 1
INVARIANTS
  DataKept
  Rerunnable
PROPERTIES
  ToldTrue
  Recovers
