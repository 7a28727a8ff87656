SPECIFICATION EventsSpec
CONSTANTS
  x = x
  Tabs = {x}
  Reader = x
  SeatCap = 1
  Kept = 4
  ReplayMax = 1
  MaxEvents = 4
  MaxLeaks = 1
  EventFaults = {}
INVARIANT ReplaysCatchUp
CHECK_DEADLOCK FALSE
