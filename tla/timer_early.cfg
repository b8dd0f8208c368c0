SPECIFICATION Spec
CONSTANTS
  a = a
  b = b
  k = k
  Timers = {k}
  Callers = {a, b}
  Users <- OwnTimers
  Delays = {1, 2}
  Periods = {1}
  MaxTime = 3
  Armings <- TwoArmings
  None = None
CHECK_DEADLOCK FALSE
PROPERTIES FiresAtDueTime
