SPECIFICATION HFairSpec
CONSTANTS
    f1 = f1
    f2 = f2
    e1 = e1
    q1 = q1
    Feed = {f1, f2}
    Entry = {e1}
    Query = {q1}
    FeedOf <- MCFeedOf
    Matches <- MCMatches
    Grouped = {f1}
    Post = {p1}
    MaxLoads = 2
    MaxInFlight = 2
INVARIANTS
    ShowsSelection
    NoStaleList
    NoStuckSpinner
    MarksKept
PROPERTIES
    MarksDelivered
