SPECIFICATION Spec
CONSTANTS
  d1 = d1
  Deliveries = {d1}
  Nobody = Nobody
  Gone = Gone
  MaxAttempts = 5
  MaxRetries = 3
  LeaseRetryMax = 10
  LeaseTTL = 2
  Grace = 2
  Ops = {"upload"}
  Faults = {"error"}
INVARIANTS PendingIsHandled
CHECK_DEADLOCK FALSE
