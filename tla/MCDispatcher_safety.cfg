CONSTANTS
    v1 = v1
    v2 = v2
    c1 = c1
    c2 = c2
    f1 = f1
    f2 = f2
    u1 = u1
    d1 = d1
    d2 = d2
    start = start
    None = None
    Videos = {v1, v2}
    Chats = {c1, c2}
    Links <- ApartLinks
    Commands = {}
    FetchWorkers = {f1, f2}
    UploadWorkers = {u1}
    UpdateWorkers = {d1}
    Faults = {"interrupt", "crash", "setup", "fetch", "upload", "evicted", "channel", "connection", "broker", "finalize"}
    QueuesAtStart = {"fetching", "uploading"}
    MaxUpdates = 2
    MaxRuns = 1
SPECIFICATION Spec
SYMMETRY WorkerSymmetry
INVARIANTS TypeOK JobsMatchWork QuietWhenNotRunning Accounted LeftoversWereTold NoAmplification
PROPERTY KeepsPromise
CHECK_DEADLOCK FALSE
