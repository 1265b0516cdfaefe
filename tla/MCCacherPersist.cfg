SPECIFICATION Spec
CONSTANTS
    Keys = {k1}
    NoKey = nokey
    PublicKeys = {k1}
    SharedKeys = {}
    Callers = {c1}
    NoCaller = none
    Current = 2
    Fallbacks <- MCFallbacks
    Previous <- MCPrevious
    MaxLazy = 1
    WriteTime = 1
    Faults = {"persist"}
    MaxTime = 3
    MaxCrashes = 1
    MaxUnusedFor = 2
    RetryMissesAfter = 1
    RetryMissesAfterPublic = 2
    RetryMalformedAfter = 2
    TouchEvery = 1
    MetadataPrecision = 1
INVARIANT MalformedDiesWithProcess
