SPECIFICATION Spec
CONSTANTS
    Owner = owner
    Thieves = {s1, s2}
    Nobody = nobody
    Capacity = 2
    MaxItems = 5
INVARIANTS TypeOK NothingLost
PROPERTY ImplementsDeque
