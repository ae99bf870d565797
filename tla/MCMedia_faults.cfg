CONSTANTS
    v1 = v1
    v2 = v2
    f1 = f1
    f2 = f2
    u1 = u1
    u2 = u2
    None = None
    Videos = {v1}
    FetchWorkers = {f1, f2}
    UploadWorkers = {u1, u2}
    Storage = "s3"
    Faults = {"error", "interrupt", "crash"}
    MaxLinks = 3
SPECIFICATION Spec
INVARIANTS MediaTypeOK ServedOnce UncachedIsInFlight RowBeforeUpload
PROPERTY CacheSettles
CHECK_DEADLOCK FALSE
