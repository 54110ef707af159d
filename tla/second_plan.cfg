CONSTANTS
  Entities = {1, 2}
  Delay = 1
  Policy = "first"
  RetryIntervals = {1}
  Moves <- FailingHome
  MaxTime = 2
  MaxJobs = 2
  MaxToggles = 1
  Seconds = 0
SPECIFICATION ConfirmSpec
PROPERTY NoCallBeforeRetry
