SPECIFICATION FairSpec
CONSTANTS
  w1 = w1
  w2 = w2
  Workers = {w1, w2}
  MaxTime = 3
  MaxManual = 1
  NextCron <- MCNextCron
  EndTimes <- MCEndTimes
  Triggers = {"once", "recurring"}
  Ops = {"cancel", "delete", "edit"}
  Faults = {"lose_enqueue", "crash"}
  MisfireGrace = 1
  AutopauseFailures = 2
INVARIANTS AgentsNeverOverlap OnceNotStranded OnceCompletedFired
PROPERTIES OnceSettles EveryRunEnds
CHECK_DEADLOCK FALSE
