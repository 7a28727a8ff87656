SPECIFICATION Spec
CONSTANTS
  s1 = s1
  s2 = s2
  Streams = {s1, s2}
  MaxMessage = 2
  ToolTurns = {1}
  MaxResumes = 2
  MaxAttempts = 2
  Faults = {"crash", "save_fails", "delete_fails"}
SYMMETRY StreamSymmetry
INVARIANTS SweptOnlyWhenSilent LostAnswerExplained OneContinuation
PROPERTIES ImplementsLedger
CHECK_DEADLOCK FALSE
