CONSTANTS
  Entities = {1}
  Delay = 1
  Policy = "first"
  RetryIntervals = {1}
  Moves <- SwitchOnly
  MaxTime = 2
  MaxJobs = 3
  MaxToggles = 2
  Seconds = 0
SPECIFICATION ConfirmSpec
PROPERTY PausedRuleCallsNothing
