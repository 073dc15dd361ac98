CONSTANTS
    NBlocks = 4
    StackSize = 2
    Procs = {p1, p2, p3}
    NoProc = NoProc
    FileData = FileData
    Faults = {"read", "write"}

SPECIFICATION Spec
SYMMETRY Symmetry
INVARIANT TypeOK
INVARIANT NoDoubleAlloc
INVARIANT SerialInv
CHECK_DEADLOCK FALSE
