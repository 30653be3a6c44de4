SPECIFICATION HSpec
CONSTANTS
    Request = {r1, r2, r3}
    Ip = {i1}
    User = {u1, u2}
    IpLimit = 2
    IpWindow = 2
    MaxBack = 4
    Limit = 1
    Window = 2
    TTL = 1
    FetchTime = 1
    MaxTime = 7
SYMMETRY Symmetry
INVARIANTS
    GuessesPerWindow
    BackoffHolds
    HeldPagesBounded
CHECK_DEADLOCK FALSE
