CONSTANTS
    v1 = v1
    v2 = v2
    f1 = f1
    f2 = f2
    u1 = u1
    u2 = u2
    None = None
    Videos = {v1}
    FetchWorkers = {f1, f2}
    UploadWorkers = {u1}
    Storage = "fs"
    Faults = {}
    MaxLinks = 2
SPECIFICATION Spec
INVARIANT DeliveredWhole
CHECK_DEADLOCK FALSE
