SPECIFICATION Spec
CONSTANTS
    ThreadCounts = {19, 20, 32, 63}
    MinChunks = {16}
    MaxPoints = 1200
INVARIANT BlocksCover
CHECK_DEADLOCK FALSE
