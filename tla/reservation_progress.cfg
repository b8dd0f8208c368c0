CONSTANTS
    a1 = a1
    a2 = a2
    g1 = g1
    g2 = g2
    t1 = t1
    t2 = t2
    d1 = d1
    None = None
    Threads = {t1, t2}
    Devices = {d1}
    Addrs = {a1, a2}
    Granule <- TwoGranules
    Reserves <- FirstReserved
    Stores <- SecondStored
    SlotCount = 1

SPECIFICATION FairSpec
INVARIANT WindowIsExclusive
PROPERTY GatesOpen
