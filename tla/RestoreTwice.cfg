SPECIFICATION Spec
CONSTANTS
    Request = {r1, r2}
    Generations = 1
    LastDay = 2
    MaxCommit = 2
    MaxFault = 0
CHECK_DEADLOCK FALSE
INVARIANTS
    NothingTorn
