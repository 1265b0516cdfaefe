CONSTANTS
    MaxAddr = 40
    NullPage = 4
    MaxFrames = 3
    Requests <- MCRequests
    JvmRequests <- MCJvmRequests
    SortJobs <- MCSortJobs
    Identifiers <- MCIdentifiers
    Unset = Unset
    MaxDiskFaults = 1
SPECIFICATION MCSpec
INVARIANTS
    UnwindTruthful
    StatusTruthful
    FramesAccounted
    JvmFramesAccounted
    SortedFilesFound
    ProxyFindsTheFile
PROPERTIES
    WalkEnds
CHECK_DEADLOCK FALSE
