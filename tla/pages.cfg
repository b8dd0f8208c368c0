CONSTANTS
    Virtual = {1, 2}
    Xex = {3, 4}
    Alias <- Twins
    Mappable = {1}
    Phys = {1, 2}
    Ranges = {{1}, {1, 2}, {3}, {4}}
    Runs = {{1}, {1, 2}}
    Asks = {"access"}
    Readers = {r1}
    None = None

SPECIFICATION Spec
INVARIANTS OwnershipConsistent AccessesAreExact TranslationIsPublished
