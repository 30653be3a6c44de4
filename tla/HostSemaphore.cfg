SPECIFICATION HFairSpec
CONSTANTS
    Worker = {w1, w2, w3}
    MaxPerHost = 2
    MinGap = 2
    IdleAfter = 2
    MaxChannel = 2
INVARIANTS
    AtMostMaxPerHost
    BurstBounded
PROPERTIES
    EveryoneGetsThrough
