SPECIFICATION ImportedFairSpec
CONSTANTS
    Feed = {f1, f2}
    Request = {}
    Command = {}
    MinInterval = 3
    MaxInterval = 2
    MaxErrInterval = 3
    DefaultInterval = 3
    ScrapeInterval = 2
    RetryAfters = {1}
    StopCount = 2
    TickInterval = 2
    BatchLimit = 1
    CrawlTime = 1
    OrphanGrace = 2
    Track = {"late"}
INVARIANTS
    LiveFeedsKeepUp
PROPERTIES
    LiveFeedsAreCrawled
