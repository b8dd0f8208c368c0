SPECIFICATION Spec
CONSTANTS
  a = a
  b = b
  k = k
  Timers = {k}
  Callers = {a, b}
  Users <- OwnTimers
  Delays = {0, 1}
  Periods = {1}
  MaxTime = 2
  Armings <- TwoArmings
  None = None
CHECK_DEADLOCK FALSE
INVARIANTS OneShotFiresOnce
