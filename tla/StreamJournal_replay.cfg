SPECIFICATION FairSpec
CONSTANTS
  MaxData = 1
  BatchSize = 2
  MaxConns = 2
  Faults = {"crash", "agent", "error", "drop", "db", "redis", "stale", "truncate", "early"}
  MaxFaults = 1
INVARIANTS FrameHasRow JournalKeepsOrder CursorPassesNothing EndAfterFinalize
PROPERTIES ImplementsReplayLog ReaderEnds
CHECK_DEADLOCK FALSE
