SPECIFICATION Spec
CONSTANTS
  a = a
  b = b
  Providers = {a, b}
  Original = a
  Configured = {a, b}
  Corpus = 1
  Writers = {w}
  Lazies = {l}
  Commands = {"start", "pause", "rollback", "prune"}
  Batch = 1
  None = None
  MaxChunks = 2
  MaxMigrations = 1
  MaxFaults = 1
  MaxCrashes = 1
INVARIANTS TypeOK CreditedOnce
PROPERTY EndedForGood
CHECK_DEADLOCK FALSE
