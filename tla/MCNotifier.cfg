SPECIFICATION FairSpec
CONSTANTS
    Waiters = {w1, w2}
    Producers = {p1, p2}
    None = None
    MaxItems = 3
INVARIANTS TypeOK TurnsExact SleepersAreHeld
PROPERTIES ImplementsEventCount ItemsAreTaken
CHECK_DEADLOCK FALSE
