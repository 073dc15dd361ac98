CONSTANTS
    NInodes = 3
    TableSize = 2
    SectorPart = 1
    PerBlock = 2
    Procs = {p1, p2}
    NoProc = NoProc
    Remounts = TRUE

SPECIFICATION Spec
SYMMETRY Symmetry
INVARIANT TypeOK
INVARIANT ScanLocked
INVARIANT CreatesApart
INVARIANT TableOfFree
INVARIANT NumberIsNew
CHECK_DEADLOCK FALSE
