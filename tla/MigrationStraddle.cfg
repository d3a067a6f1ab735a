SPECIFICATION Spec
CONSTANTS
  a = a
  b = b
  Providers = {a, b}
  Original = a
  Configured = {a}
  Corpus = 1
  Writers = {w}
  Lazies = {}
  Commands = {"start"}
  Batch = 1
  None = None
  MaxChunks = 2
  MaxMigrations = 1
  MaxFaults = 0
  MaxCrashes = 0
INVARIANT FullyCovered
CHECK_DEADLOCK FALSE
