CONSTANTS
    v1 = v1
    v2 = v2
    f1 = f1
    f2 = f2
    u1 = u1
    u2 = u2
    None = None
    Videos = {v1}
    FetchWorkers = {f1, f2}
    UploadWorkers = {u1, u2}
    Storage = "fs"
    Faults = {"crash"}
    MaxLinks = 3
SPECIFICATION FairSpec
INVARIANTS ServedOnce UncachedIsInFlight TruncationHasCause
PROPERTY EveryoneServed
CHECK_DEADLOCK FALSE
