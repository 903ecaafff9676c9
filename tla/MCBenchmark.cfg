SPECIFICATION FairSpec
CONSTANTS
    NumFiles = 2
    NumRows <- Points
    ClusterCounts = {3, 5}
    ThreadCounts = {1, 2}
    MaxRuns = 2
    MaxKilled = 1
    Numbers = {zero, x}
    Zero = zero
    Space = space
    NewLine = newline
    MaxSide = 2
INVARIANTS TypeOK RowsHaveResults RunReportsAll LoaderReadsTable
PROPERTY RunEnds
CHECK_DEADLOCK FALSE
