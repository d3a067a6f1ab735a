SPECIFICATION FairSpec
CONSTANTS
  n = n
  Paths = {1, 2}
  Active = {2}
  Archive <- MCArchive
  Origin <- MCOrigin
  Notes = {n}
  Calls = {c}
  Supplied = {n}
  Human = Human
  Compile = Compile
  None = None
  Scenarios <- EndScenarios
  MaxQueue = 1
PROPERTIES CallsEnd RunsEnd EventuallyInSync
