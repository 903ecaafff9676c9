SPECIFICATION HBFairSpec
CONSTANTS
    N = 5
    D = 1
    K = 2
    input_points <- Line
    FloatMax = 1000
    M = 2
    T = 4
    MinChunk = 2
    U32 = 16
    ThreadCounts = {0, 2, 4, 5, 18, 19, 63}
    MinChunks = {2, 16}
    MaxPoints = 400
INVARIANTS TypeOK BlocksPartition NoDataRace CallerAlone NoLostFinish LabelsCurrent NoLabelRace
PROPERTIES ImplementsKMeans FitReturns
