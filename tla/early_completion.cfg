CONSTANTS
    a = a
    b = b
    t1 = t1
    t2 = t2
    t3 = t3
    None = None
    Guest = Guest
    Paths = {a, b}
    Objects = {1, 2}
    Threads = {t1, t2, t3}
    Requests = {11}
    Opens <- OpenArgs
    Scenarios <- Cases
    TimesOut = {t3}
    MaxHandles = 2
    MaxPackets = 2

SPECIFICATION Spec
INVARIANT PacketsFollowData
CHECK_DEADLOCK FALSE
