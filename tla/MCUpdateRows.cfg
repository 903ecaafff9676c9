SPECIFICATION ScanSpec
CONSTANTS
    N = 5
    K = 3
    L2 <- Distances
    FloatMax = 4
    First = 1
    Last = 4
INVARIANT PassedRowsNearest
PROPERTY BlockOnly
CHECK_DEADLOCK FALSE
