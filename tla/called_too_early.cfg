CONSTANTS
  Entities = {1}
  Delay = 2
  Policy = "first"
  RetryIntervals = {1}
  Moves <- QuietHome
  MaxTime = 3
  MaxJobs = 4
  MaxToggles = 1
  Seconds = 0
SPECIFICATION ConfirmSpec
PROPERTY CalledOnlyWhenDue
