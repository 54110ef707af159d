CONSTANTS
  Entities = {1}
  Delay = 1
  Policy = "first"
  RetryIntervals = {1}
  Moves <- ReloadedRule
  MaxTime = 2
  MaxJobs = 2
  MaxToggles = 1
  Seconds = 1
SPECIFICATION FairConfirmSpec
INVARIANT NoLostWakeup
INVARIANT TimerArmed
INVARIANT InhibitedIffDisabled
PROPERTY DueIsClaimed
PROPERTY ClaimEnds
PROPERTY StopCompletes
PROPERTY ImplementsController
