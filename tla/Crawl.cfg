SPECIFICATION Spec
CONSTANTS
  Worker = {w1, w2}
  MaxInputs = 2
  MaxConns = 2
  MaxFaults = 1
INVARIANTS
  RowsOwned
  ReportsRight
  CleanStart
PROPERTIES
  SessionsEnd
CHECK_DEADLOCK FALSE
