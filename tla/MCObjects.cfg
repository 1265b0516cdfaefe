SPECIFICATION Spec
CONSTANTS
    r1 = r1
    r2 = r2
    Requests <- MCRequests
    LastIdMax = 2
    MaxPublished = 2
    MaxFaults = 1
    SourceKind <- MCSourceKind
    PublicSources <- MCPublic
    Catalog <- MCCatalog
    Worlds <- MCWorlds
    Scope <- MCScope
INVARIANTS
    IndexComplete
    CandidatesConsistent
    SymcacheUsesItsSources
PROPERTIES
    LastIdKept
    FindsBestObject
    RequestsAnswered
CHECK_DEADLOCK FALSE
