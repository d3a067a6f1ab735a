SPECIFICATION Spec
CONSTANTS
  Notes = {a, b}
  Log = Log
  Writers = {w1}
  Cli = Cli
  None = None
  Overlap = FALSE
  MaxVersions = 2
  MaxCalls = 3
  MaxFaults = 0
  MaxCrashes = 0
INVARIANT DestroysNothing
CHECK_DEADLOCK FALSE
