SPECIFICATION Spec
CONSTANTS
  w1 = w1
  w2 = w2
  Workers = {w1, w2}
  MaxTime = 2
  MaxManual = 1
  NextCron <- MCNextCron
  EndTimes <- MCEndTimes
  Triggers = {"recurring"}
  Ops = {}
  Faults = {}
  MisfireGrace = 1
  AutopauseFailures = 2
PROPERTIES FiredSlotNotRefused
CHECK_DEADLOCK FALSE
