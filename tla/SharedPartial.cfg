SPECIFICATION Spec
CONSTANTS
    Uploads = {u1}
    Others = {o1}
    Keys = {k1, k2}
    NoObject = none
    MaxQueue = 1
    MaxConcurrent = 1
    Chunks = 2
INVARIANT MissWritesNothing
