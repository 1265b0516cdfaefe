SPECIFICATION MCSpec
CONSTANTS
    Downloads = {d1, d2}
    Hosts = {h1}
    NeverBlock = {}
    TimeWindow = 2
    BucketSize = 2
    Threshold = 3
    BlockTime = 1
    MaxDownload = 1
    MaxTries = 2
    Stall = 1
    MaxTime = 5
    Fetchers = {x1, x2}
    Jobs <- MCJobs
    MaxSize = 6
    TokenLife = 3
    Margin = 1
    TokenDelay = 1
    LastTime = 4
    SplitSize = 2
    MaxPartialRanges = 3
    MaxDownloadSize = 9
    MaxResource = 10
    ServerFaults = {"ignore"}
INVARIANTS
    FileAsPublished
    CompleteOnSuccess
    LimitEnforced
    RefusedNearLimit
PROPERTIES
    BlockedForCause
    FailingHostBlocked
    DownloadsEnd
    TokenFresh
