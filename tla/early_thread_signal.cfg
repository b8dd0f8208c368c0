SPECIFICATION Spec
SYMMETRY Symmetry
CONSTANTS
  a = a
  b = b
  m = m
  None = None
  Threads = {a, b}
  ManualEvents = {}
  AutoEvents = {}
  Semaphores = {}
  Mutants = {m}
  NotificationTimers = {}
  SynchronizationTimers = {}
  Mirrored = {}
  Limit <- TwoUnits
  GuestValues = {}
  Requests <- ThreadAndMutantWaits
  MaxRecursion = 1
  Terminates = {a, b}
  Alerts = {}
  Apcs = {}
  Delays = {}
  Exits = {a, b}
INVARIANTS SignalledThreadOwnsNothing
