CONSTANTS
    Names = {n1, n2, n3}
    Free = Free
    Room = 4
    PerBlock = 2
    MaxBuf = 3
    Faults = TRUE

SPECIFICATION FairSpec
INVARIANT TypeOK
INVARIANT OnceEach
PROPERTY ListingEnds
