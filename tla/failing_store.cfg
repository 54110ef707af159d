CONSTANTS
  Entities = {1}
  Delay = 1
  Policy = "first"
  RetryIntervals = {0, 1}
  Moves <- FailingStore
  MaxTime = 2
  MaxJobs = 2
  MaxToggles = 1
  Seconds = 0
SPECIFICATION CancelledSpec
INVARIANT SkippedSaveIsOnDisk
INVARIANT StoppedIsQuiet
PROPERTY NoCallWhileStopping
