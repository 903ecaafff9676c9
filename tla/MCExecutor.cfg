SPECIFICATION FairSpec
CONSTANTS
    NumWorkers = 2
    MaxTasks = 4
INVARIANTS TypeOK SleepOnlyWhenIdle ActiveIsWatched
PROPERTIES ImplementsTaskPool CallsReturn
CHECK_DEADLOCK FALSE
