SPECIFICATION HSpec
CONSTANTS
    User = {u1}
    FeedId = {f1, f2}
    Guid = {g1}
    Word = {w1, w2}
    MaxEntryId = 2
    MaxNow = 1
    MaxRequests = 2
    RetentionDays = 0
    PerFeedLimit = 0
    OrphanGrace = 0
    Track = {"stale"}
SYMMETRY Symmetry
INVARIANTS
    FanOutExact
    UnreadCountExact
    FlagsAccountedFor
PROPERTIES
    ReadNeverReverts
