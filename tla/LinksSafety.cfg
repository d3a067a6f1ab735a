SPECIFICATION Spec
CONSTANTS
  a = a
  b = b
  d = d
  P = P
  Q = Q
  Paths = {1, 2, 3, 4}
  Base <- MCBase
  Files <- MCFiles
  Starts <- MCStarts
  Calls = {c1, c2}
  Watch = Watch
  Compile = Compile
  None = None
  Scenarios <- MCScenarios
INVARIANTS TypeOK GraphAsImplied
PROPERTY InboundSurvives
CHECK_DEADLOCK FALSE
SYMMETRY Alike
