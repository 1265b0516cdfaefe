SPECIFICATION JsSpec
CONSTANTS
    r1 = r1
    r2 = r2
    Requests <- MCRequests
    Jobs <- MCJobs
    Bundles <- MCBundles
    Artifacts <- MCArtifacts
    Website <- MCWebsite
    Tokens <- MCTokens
    Size <- MCSize
    Budget = 4
    MaxFaults = 1
INVARIANTS
    SourceMapFaithful
    BudgetKept
    FramesInOrder
