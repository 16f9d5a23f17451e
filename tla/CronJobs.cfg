\* One reload or crash, an edit in two steps, lost wake-ups, failing saves.
SPECIFICATION FairSpec
CONSTANTS
  LastJob = 2
  LastService = 2
  Horizon = 3
  EditUntil = 2
  MaxEdits = 1
  Hour = 1
  Delays = {0, 1}
  Stores <- UpToOneJob
  MayFail = TRUE
INVARIANTS
  DueTimesTakenOnce
  RecurringAlive
  JobsKept
PROPERTIES
  DueJobsRun
CHECK_DEADLOCK FALSE
