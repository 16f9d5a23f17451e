\* Two saves or orders, three processes, one turn, a gateway adopted at first or none.
SPECIFICATION FairSpec
CONSTANTS
  LastProc = 3
  LastTurn = 1
  Attempts = 2
  Polls = 1
  LastInput = 2
INVARIANTS
  StaleShown
  WaitersAnswered
PROPERTIES
  WorkSpared
  ParkedSettles
CHECK_DEADLOCK FALSE
