\* Two channels, two reloads with their deferred registrations, a shutdown.
SPECIFICATION FairSpec
CONSTANTS
  Names = {"t", "w"}
  LastInst = 4
  LastReload = 2
  LastMsg = 2
  QueueSize = 1
  Configs <- OneChanges
  ApiFails = FALSE
INVARIANTS
  OrderedOnce
  StartedIsServed
  ReloadSparesOthers
PROPERTIES
  ReconcileEnds
  EveryMessageEnds
CHECK_DEADLOCK FALSE
