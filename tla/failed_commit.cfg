CONSTANTS
    Virtual = {1, 2}
    Xex = {3, 4}
    Alias <- Twins
    Mappable = {}
    Phys = {1}
    Ranges = {{1}, {1, 2}}
    Runs = {{1}}
    Asks = {"access", "none"}
    Readers = {r1}
    None = None

SPECIFICATION Spec
INVARIANT ProtectionIsPublished
