CONSTANTS
    Files = {f1, f2}
    Blocks = {b1, b2, b3, b4}
    NoBlock = NoBlock
    Data = Data
    Direct = 1
    Single = 1
    Double = 1
    PerIndex = 2
    Faults = TRUE

SPECIFICATION Spec
SYMMETRY Symmetry
INVARIANT TypeOK
INVARIANT MapsApart
INVARIANT NothingLost
INVARIANT FreshIsZero
PROPERTY MapStable
CHECK_DEADLOCK FALSE
