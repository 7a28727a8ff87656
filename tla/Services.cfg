SPECIFICATION ServicesSpec
CONSTANTS
  x = x
  y = y
  z = z
  p = p
  q = q
  Sessions = {x, y}
  Threads = {x, y, z}
  MaxSessions = 1
  MaxKernels = 2
  Calls = {z}
  Conns = {x, y}
  MaxOutput = 2
  Redeemers = {x, y, z}
  NameRetries = 2
  Attempts = {x, y}
  Workers = {x, y}
  ChunkCount = 2
  MaxBatch = 2
  Editors = {x, y}
  Texts = {x, y}
  MaxVersion = 3
  Requests = {x, y, z}
  Evidence = {z}
  Syncs = {x, y}
  MaxClock = 1
  MaxRevision = 2
  SyncFaults = {"list", "skip", "cap", "store", "die"}
  Tabs = {p, q}
  Reader = p
  SeatCap = 1
  Kept = 2
  ReplayMax = 1
  MaxEvents = 3
  MaxLeaks = 1
  EventFaults = {"publish", "replay", "seat", "kill"}
  Lookback = 2
  MinMatch = 2
  SegmentChars = 2
  MaxHold = 3
  MaxChunk = 2
  MaxText = 5
INVARIANTS AllTypes SandboxSafe DeviceSafe PairingSafe IngestSafe WikiSafe RunsOnce SyncSafe EventsSafe GuardSafe
CHECK_DEADLOCK FALSE
SYMMETRY Twins
VIEW ServiceView
