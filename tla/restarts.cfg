CONSTANTS
  Entities = {1}
  Delay = 1
  Policy = "first"
  RetryIntervals = {1, 2}
  Moves <- RestartingHome
  MaxTime = 3
  MaxJobs = 2
  MaxToggles = 1
  Seconds = 0
SPECIFICATION ConfirmSpec
INVARIANT DurableWhenLockFree
PROPERTY ClockIsDurable
PROPERTY OnlyOffEndsAClock
PROPERTY ImplementsRule
