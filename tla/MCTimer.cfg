\* One caller beside the callbacks, two timers, one of them one-shot, two milliseconds,
\* and the policy that catches up.
CONSTANTS
  t1 = t1
  t2 = t2
  c1 = c1
  Timers <- TwoTimers
  Callers <- OneCaller
  Once <- Second
  Compensate = TRUE
  Forever = 10
  Timeouts <- OneOnly
  MaxClock = 2
SPECIFICATION Spec
INVARIANT
  CancelTells
PROPERTIES
  CancelHolds
  DueIsTaken
  StopReturns
\* After Stop, and when every timer is over, nothing is left to do.
CHECK_DEADLOCK FALSE
