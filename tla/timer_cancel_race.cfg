SPECIFICATION Spec
CONSTANTS
  a = a
  b = b
  k = k
  Timers = {k}
  Callers = {a, b}
  Users <- SharedTimers
  Delays = {1}
  Periods = {1}
  MaxTime = 2
  Armings <- TwoArmings
  None = None
CHECK_DEADLOCK FALSE
INVARIANTS ArmedIsPending
