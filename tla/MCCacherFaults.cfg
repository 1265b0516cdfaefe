SPECIFICATION Spec
CONSTANTS
    Keys = {k1}
    NoKey = nokey
    PublicKeys = {k1}
    SharedKeys = {k1}
    Callers = {c1}
    NoCaller = none
    Current = 2
    Fallbacks <- MCFallbacks
    Previous <- MCPrevious
    MaxLazy = 1
    WriteTime = 0
    Faults = {"temp", "fetch", "open", "metadata"}
    MaxTime = 3
    MaxCrashes = 1
    MaxUnusedFor = 2
    RetryMissesAfter = 1
    RetryMissesAfterPublic = 2
    RetryMalformedAfter = 2
    TouchEvery = 1
    MetadataPrecision = 2
INVARIANTS
    ErrorsExpire
    InUseNeverExpires
    MalformedDiesWithProcess
    RefreshesBounded
