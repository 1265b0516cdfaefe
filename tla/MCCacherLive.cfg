SPECIFICATION FairSpec
CONSTANTS
    Keys = {k1}
    NoKey = nokey
    PublicKeys = {}
    SharedKeys = {}
    Callers = {c1, c2}
    NoCaller = none
    Current = 2
    Fallbacks <- MCFallbacks
    Previous <- MCPrevious
    MaxLazy = 1
    WriteTime = 0
    Faults = {"temp", "load"}
    MaxTime = 1
    MaxCrashes = 0
    MaxUnusedFor = 2
    RetryMissesAfter = 1
    RetryMissesAfterPublic = 2
    RetryMalformedAfter = 2
    TouchEvery = 1
    MetadataPrecision = 1
INVARIANTS
    TypeOK
PROPERTIES
    CallersAnswered
    RefreshesEnd
