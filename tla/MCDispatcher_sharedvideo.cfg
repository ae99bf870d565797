CONSTANTS
    v1 = v1
    v2 = v2
    c1 = c1
    c2 = c2
    f1 = f1
    f2 = f2
    u1 = u1
    d1 = d1
    d2 = d2
    start = start
    None = None
    Videos = {v1}
    Chats = {c1, c2}
    Links <- SharedLinks
    Commands = {}
    FetchWorkers = {f1, f2}
    UploadWorkers = {u1}
    UpdateWorkers = {d1}
    Faults = {"interrupt"}
    QueuesAtStart = {"fetching", "uploading"}
    MaxUpdates = 2
    MaxRuns = 2
SPECIFICATION Spec
INVARIANT Accounted
CHECK_DEADLOCK FALSE
