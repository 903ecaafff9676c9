SPECIFICATION FairForEachSpec
CONSTANTS
    Sizes <- MCSizes
    NumWorkers = 3
    ChunkSize = 1
INVARIANTS
    ForEachTypeOK
    AtMostOnce
    AllCalledAtReturn
PROPERTIES
    ForEachReturns
CHECK_DEADLOCK FALSE
