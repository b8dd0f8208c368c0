SPECIFICATION FairSpec
CONSTANTS
  a = a
  b = b
  k = k
  n = n
  Timers = {k, n}
  Callers = {a, b}
  Users <- OwnTimers
  Delays = {1, 2}
  Periods = {1}
  MaxTime = 2
  Armings <- TwoArmings
  None = None
CHECK_DEADLOCK FALSE
INVARIANTS ArmedIsPending NeverSleepsPastDue NoCallbackAfterCancel
PROPERTIES DispatchServes
