CONSTANTS
    Root = r
    Inodes = {r, a, b, c}
    Names = {m, n}
    Free = Free
    Room = 2
    PerBlock = 2
    Faults = TRUE

SPECIFICATION Spec
SYMMETRY Symmetry
INVARIANT TypeOK
INVARIANT EnoughLinks
INVARIANT ExactLinks
INVARIANT TreeOK
PROPERTY KeepsPromise
CHECK_DEADLOCK FALSE
