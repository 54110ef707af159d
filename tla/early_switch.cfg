CONSTANTS
  Entities = {1}
  Delay = 2
  Policy = "first"
  RetryIntervals = {1}
  Moves <- EarlySwitch
  MaxTime = 3
  MaxJobs = 2
  MaxToggles = 1
  Seconds = 0
SPECIFICATION ConfirmSpec
PROPERTY SetUpKeepsClocks
