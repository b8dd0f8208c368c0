CONSTANTS
    c1 = c1
    c2 = c2
    c3 = c3
    p1 = p1
    p2 = p2
    x1 = x1
    guest = guest
    device = device
    driver = driver
    None = None
    Cells = {c1, c2}
    Page <- OnePage
    Word <- OneWord
    Writers = {guest, device}
    Views <- MixedView
    Touches <- AnyCell
    Conditional = {}
    Paths = {"slow"}
    GpuCells = {c1}
    Requests <- OneCell
    Capacity = 2
    MaxEpoch <- BoundOf2

SPECIFICATION Spec
INVARIANT RamAlwaysCurrent
