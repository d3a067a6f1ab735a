SPECIFICATION Spec
CONSTANTS
  n = n
  Paths = {1, 2}
  Active = {2}
  Archive <- MCArchive
  Origin <- MCOrigin
  Notes = {n}
  Calls = {c1, c2}
  Supplied = {n}
  Human = Human
  Compile = Compile
  None = None
  Scenarios <- SafetyScenarios
  MaxQueue = 1
INVARIANTS TypeOK MutedExactlyWhileWriting ExclusiveWriters NoLostUpdate UniqueRows
PROPERTY ImplementsStore
SYMMETRY Alike
