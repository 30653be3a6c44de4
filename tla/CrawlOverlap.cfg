SPECIFICATION HSpec
CONSTANTS
    Feed = {f1}
    Request = {r1}
    Command = {c1}
    MinInterval = 4
    MaxInterval = 4
    MaxErrInterval = 6
    DefaultInterval = 4
    ScrapeInterval = 4
    RetryAfters = {3}
    StopCount = 2
    TickInterval = 1
    BatchLimit = 1
    CrawlTime = 1
    OrphanGrace = 2
    Track = {"since", "failures"}
SYMMETRY Symmetry
INVARIANTS
    SchedulingHorizon
    FreshFeedSurvives
    FailuresCounted
PROPERTIES
    ClaimGap
