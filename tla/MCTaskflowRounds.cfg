SPECIFICATION FairSpec
CONSTANTS
    N = 3
    D = 1
    K = 2
    input_points <- Line
    FloatMax = 1000
    M = 1
    MaxWorkers = 2
INVARIANTS RoundsAsAsked
