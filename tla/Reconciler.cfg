SPECIFICATION AnySpec
CONSTANTS
  d1 = d1
  d2 = d2
  d3 = d3
  Deliveries = {d1, d2, d3}
  Lone = d1
  Other = d2
  Nobody = Nobody
  Gone = Gone
  MaxAttempts = 3
  MaxRetries = 1
  LeaseRetryMax = 4
  LeaseTTL = 2
  Grace = 2
  Ops = {"click"}
  Faults = {"crash", "kill", "duplicate", "error"}
  StallFaults = {"crash", "kill", "duplicate", "error", "stall", "outage", "expire", "reject", "http_kill"}
  s1 = s1
  s2 = s2
  Streams = {s1, s2}
  TurnFaults = {"crash", "save_fails", "delete_fails"}
INVARIANTS OneBodyRuns LonePendingIsHandled
PROPERTIES LiveLeaseNotStolen StalledStaysLate ImplementsLock SuccessRecorded LoneMessageEnds EveryTurnSettles ClaimReturns
CHECK_DEADLOCK FALSE
