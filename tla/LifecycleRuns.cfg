SPECIFICATION Spec
CONSTANTS
  a = a
  b = b
  c = c
  Ids = {a, b, c}
  Order <- MCOrder
  Base <- MCBase
  Cites <- MCCites
  Hours = {0, 720, 4560, 9600, 66034}
  Starts <- MCStarts
  Requests <- MCRequests
  None = None
  Scenarios <- MCScenarios
INVARIANTS TypeOK ReportIsTrue AsTimed Idempotent EarnedStability Forewarned
PROPERTY ShieldedIsInert
CHECK_DEADLOCK FALSE
