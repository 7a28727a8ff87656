SPECIFICATION Spec
CONSTANTS
  w1 = w1
  w2 = w2
  Workers = {w1, w2}
  MaxTime = 2
  MaxManual = 1
  NextCron <- MCNextCron
  EndTimes <- MCNoEnd
  Triggers = {"once"}
  Ops = {"run_now"}
  Faults = {}
  MisfireGrace = 1
  AutopauseFailures = 2
INVARIANTS OnceNotStranded
CHECK_DEADLOCK FALSE
