SPECIFICATION Spec
CONSTANTS
  Notes = {a, b}
  Log = Log
  Writers = {w1, w2}
  Cli = Cli
  None = None
  Overlap = FALSE
  MaxVersions = 3
  MaxCalls = 4
  MaxFaults = 1
  MaxCrashes = 1
INVARIANTS TypeOK Recorded OwnCommit Erased
PROPERTY NothingLost
CHECK_DEADLOCK FALSE
