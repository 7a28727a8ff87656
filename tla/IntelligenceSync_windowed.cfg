SPECIFICATION SyncSpec
CONSTANTS
  e1 = e1
  s1 = s1
  Evidence = {e1}
  Syncs = {s1}
  MaxClock = 2
  MaxRevision = 2
  SyncFaults = {}
INVARIANT PresentStaysActive
CHECK_DEADLOCK FALSE
