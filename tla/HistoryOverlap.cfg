SPECIFICATION Spec
CONSTANTS
  TurnMax = 2
  PersistMax = 5
  Threshold = 3
  KeepTail = 4
  BatchMax = 10
  Window = 0
  HoldFactor = 2
  Compresses = {}
  MayStop = FALSE
  Overlaps = {"summariser"}

INVARIANTS
  NothingForgotten

\* The run ends after TurnMax turns.
CHECK_DEADLOCK FALSE
