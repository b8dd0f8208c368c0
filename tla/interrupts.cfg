SPECIFICATION Spec
CONSTANTS
  a = a
  b = b
  m = m
  k = k
  None = None
  Threads = {a, b}
  ManualEvents = {}
  AutoEvents = {}
  Semaphores = {}
  Mutants = {m}
  NotificationTimers = {}
  SynchronizationTimers = {k}
  Mirrored = {}
  Limit <- TwoUnits
  GuestValues = {}
  Requests <- InterruptedWaits
  MaxRecursion = 2
  Terminates = {a}
  Alerts = {a}
  Apcs = {a}
  Delays = {a}
  Exits = {b}
INVARIANTS MutantOwnership ResultMatchesTakes
