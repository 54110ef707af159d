CONSTANTS
  Entities = {1, 2}
  Delay = 1
  Policy = "last"
  RetryIntervals = {1}
  Moves <- SwitchedRule
  MaxTime = 1
  MaxJobs = 2
  MaxToggles = 1
  Seconds = 0
SPECIFICATION ConfirmSpec
INVARIANT TimerArmed
INVARIANT DurableWhenLockFree
INVARIANT InhibitedIffDisabled
INVARIANT CountdownIffArmed
INVARIANT NoLostWakeup
PROPERTY NoCallOnceDisabled
