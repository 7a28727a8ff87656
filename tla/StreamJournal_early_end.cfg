SPECIFICATION Spec
CONSTANTS
  MaxData = 2
  BatchSize = 3
  MaxConns = 1
  Faults = {}
  MaxFaults = 0
INVARIANT TailsTheRest
CHECK_DEADLOCK FALSE
