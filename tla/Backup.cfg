SPECIFICATION HFairSpec
CONSTANTS
    Request = {r1}
    Generations = 2
    LastDay = 3
    MaxCommit = 2
    MaxFault = 2
CHECK_DEADLOCK FALSE
INVARIANTS
    NoEmptySnapshots
    NothingTorn
    SnapshotsInOrder
PROPERTIES
    NoFreshStart
    NewestKept
    CommitsAreBackedUp
