SPECIFICATION HFairSpec
CONSTANTS
    Crawl = {c1, c2}
    Scheduled = c1
    WatchPages <- MCWatchPages
    WatchConfigs <- MCWatchConfigs
    ListPages <- MCListPages
    ListConfigs <- MCListConfigs
    Servers <- MCServers
    NoTag = NoTag
    NoSource = NoSource
    WatchEvents = 2
    ListEvents = 1
    MaxBlocks = 3
    MaxStateBlocks = 2
    LcsBlockLimit = 2
    NoHTML = NoHTML
    Url = {"u1", "u2", "u3", "self"}
    Foreign = {"u3"}
    Self = "self"
    NoLink = "none"
    MaxCandidates = 2
    MaxSeen = 2
    MaxArticleRetries = 2
    Absent = Absent
    Unreadable = Unreadable
    Keep = Keep
INVARIANTS
    DiffExact
    NothingMissed
    MemorySound
PROPERTIES
    ListDrains
