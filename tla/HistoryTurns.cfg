SPECIFICATION Spec
CONSTANTS
  TurnMax = 2
  PersistMax = 5
  Threshold = 3
  KeepTail = 2
  BatchMax = 3
  Window = 0
  HoldFactor = 2
  Compresses = {"setup", "llm"}
  MayStop = TRUE
  Overlaps = {}

INVARIANTS
  HistoryOrdered
  AbortForgetsTurn
  ToolCallsWhole

PROPERTIES
  StopKeepsFinished

\* The run ends after TurnMax turns.
CHECK_DEADLOCK FALSE
