SPECIFICATION FairSpec
CONSTANTS
    N = 4
    D = 2
    K = 3
    input_points <- Plane
    FloatMax = 60
    M = 3
INVARIANT TypeOK
PROPERTIES ImplementsKMeans ObjectiveNeverRises
