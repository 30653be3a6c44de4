SPECIFICATION HSpec
CONSTANTS
    User = {u1, u2}
    FeedId = {f1}
    Guid = {g1, g2}
    Word = {}
    MaxEntryId = 3
    MaxNow = 3
    MaxRequests = 0
    RetentionDays = 1
    PerFeedLimit = 1
    OrphanGrace = 1
    Track = {"items"}
SYMMETRY Symmetry
INVARIANTS
    StoreInv
    ReadUnlessCollected
PROPERTIES
    PinnedEntriesKept
    UnreadLostOnlyToCap
