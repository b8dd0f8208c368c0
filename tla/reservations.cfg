CONSTANTS
    a1 = a1
    a2 = a2
    g1 = g1
    g2 = g2
    t1 = t1
    t2 = t2
    d1 = d1
    None = None
    Threads = {t1, t2}
    Devices = {}
    Addrs = {a1, a2}
    Granule <- OneGranule
    Reserves <- AnyWordReserved
    Stores <- AnyWordStored
    SlotCount = 2

SPECIFICATION Spec
SYMMETRY ThreadSymmetry
INVARIANTS NoLostStore CountersBalanced CommitIsExclusive
PROPERTY ImplementsCells
