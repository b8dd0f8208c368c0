SPECIFICATION FairSpec
CONSTANTS
  a = a
  b = b
  e = e
  None = None
  Threads = {a, b}
  ManualEvents = {}
  AutoEvents = {e}
  Semaphores = {}
  Mutants = {}
  NotificationTimers = {}
  SynchronizationTimers = {}
  Mirrored = {}
  Limit <- TwoUnits
  GuestValues = {}
  Requests <- WakeupWaits
  MaxRecursion = 0
  Terminates = {a}
  Alerts = {a}
  Apcs = {}
  Delays = {a}
  Exits = {b}
PROPERTIES SatisfiedWaitReturns GivenUpWaitReturns ImplementsAtomicWait
