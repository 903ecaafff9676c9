SPECIFICATION FairSpec
CONSTANTS
    N = 3
    D = 1
    K = 2
    input_points <- Line
    FloatMax = 1000
    M = 1
    T = 1
    MinChunk = 2
    U32 = 8
    ThreadCounts = {2}
    MinChunks = {2, 16}
    MaxPoints = 4
PROPERTY FitReturns
CHECK_DEADLOCK FALSE
