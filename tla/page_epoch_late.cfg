CONSTANTS
    c1 = c1
    c2 = c2
    c3 = c3
    p1 = p1
    p2 = p2
    x1 = x1
    guest = guest
    device = device
    driver = driver
    None = None
    Cells = {c1, c2, c3}
    Page <- TwoOnOne
    Word <- OneWord
    Writers = {guest, device, driver}
    Views <- MixedView
    Touches <- CellEach
    Conditional = {}
    Paths = {"slow"}
    GpuCells = {}
    Requests <- OnlyC2
    Capacity = 4
    MaxEpoch <- BoundOf2

SPECIFICATION Spec
INVARIANT MirrorAlwaysCurrent
CHECK_DEADLOCK FALSE
