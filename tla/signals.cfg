SPECIFICATION Spec
SYMMETRY Symmetry
CONSTANTS
  a = a
  b = b
  g = g
  s = s
  None = None
  Threads = {a, b}
  ManualEvents = {g}
  AutoEvents = {}
  Semaphores = {s}
  Mutants = {}
  NotificationTimers = {}
  SynchronizationTimers = {}
  Mirrored = {g, s}
  Limit <- TwoUnits
  GuestValues <- StoredValues
  Requests <- SignalWaits
  MaxRecursion = 0
  Terminates = {}
  Alerts = {}
  Apcs = {}
  Delays = {}
  Exits = {}
INVARIANTS TypeOK MirrorCurrent NoMissedSignal
