SPECIFICATION FairSpec
CONSTANTS
  a = a
  b = b
  Providers = {a, b}
  Original = a
  Configured = {a, b}
  Corpus = 2
  Writers = {w}
  Lazies = {l}
  Commands = {"start", "pause"}
  Batch = 2
  None = None
  MaxChunks = 3
  MaxMigrations = 1
  MaxFaults = 1
  MaxCrashes = 1
INVARIANT Covered
PROPERTY MigrationsEnd
CHECK_DEADLOCK FALSE
