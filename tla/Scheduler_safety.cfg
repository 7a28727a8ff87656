SPECIFICATION Spec
CONSTANTS
  w1 = w1
  w2 = w2
  Workers = {w1, w2}
  MaxTime = 2
  MaxManual = 1
  NextCron <- MCNextCron
  EndTimes <- MCEndTimes
  Triggers = {"once", "recurring"}
  Ops = {"run_now", "pause", "resume", "delete"}
  Faults = {"lose_enqueue", "crash", "redeliver"}
  MisfireGrace = 1
  AutopauseFailures = 2
SYMMETRY WorkerSymmetry
INVARIANTS TypeOK OneActiveRun AgentRunsOnce TurnAppendedOnce
PROPERTIES FinishedStaysFinished ImplementsJobQueue
CHECK_DEADLOCK FALSE
