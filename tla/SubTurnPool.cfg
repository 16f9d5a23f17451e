SPECIFICATION FairSpec

CONSTANTS
  LastTurn = 4
  RootChildren = 1
  MaxConcurrent = 1
  MaxDepth = 2
  ChanCap = 1
  MayPanic = TRUE

INVARIANTS
  SlotsBounded
  SlotsReturned

PROPERTIES
  CallerReleased

\* The run ends when every turn has ended.
CHECK_DEADLOCK FALSE
