\* Two events of the types with the widest choice of data.
SPECIFICATION EventSpec
CONSTANTS
    Events = {e1, e2}
    Blocks = {b1, b2}
    NoBlock = NoBlock
    Types = {5, 30, 50, 95, 130, 137}
    Bytes = {0, 1}
    MaxLen = 2
SYMMETRY Symmetry
INVARIANTS BlobsOwned UnionSound BlobIntact SetIsDeliverable
CHECK_DEADLOCK FALSE
