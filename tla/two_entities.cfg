CONSTANTS
  Entities = {1, 2}
  Delay = 2
  Policy = "first"
  RetryIntervals = {1}
  Moves <- PlainHome
  MaxTime = 3
  MaxJobs = 2
  MaxToggles = 1
  Seconds = 0
SPECIFICATION ConfirmSpec
INVARIANT TypeOK
INVARIANT TimerArmed
INVARIANT CyclesFollowReports
INVARIANT ClaimsHaveOwner
PROPERTY ImplementsRule
PROPERTY RestIsTried
