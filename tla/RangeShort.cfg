SPECIFICATION RangeSpec
CONSTANTS
    SplitSize = 2
    MaxPartialRanges = 3
    MaxDownloadSize = 9
    MaxResource = 10
    ServerFaults = {"short"}
INVARIANT CompleteOnSuccess
