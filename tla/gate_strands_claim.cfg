CONSTANTS
  Entities = {1}
  Delay = 1
  Policy = "first"
  RetryIntervals = {1}
  Moves <- GatedHome
  MaxTime = 2
  MaxJobs = 2
  MaxToggles = 1
  Seconds = 0
SPECIFICATION ConfirmSpec
INVARIANT ClaimsHaveOwner
