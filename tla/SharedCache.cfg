SPECIFICATION FairSpec
CONSTANTS
    Uploads = {u1, u2, u3}
    Others = {o1}
    Keys = {k1}
    NoObject = none
    MaxQueue = 1
    MaxConcurrent = 2
    Chunks = 1
INVARIANTS
    TypeOK
    UploadsBounded
PROPERTIES
    StoredOnce
    ReceiversResolve
