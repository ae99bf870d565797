CONSTANTS
    v1 = v1
    v2 = v2
    c1 = c1
    c2 = c2
    f1 = f1
    f2 = f2
    u1 = u1
    d1 = d1
    d2 = d2
    start = start
    None = None
    Videos = {v1}
    Chats = {c1}
    Links <- OneLink
    Commands = {start}
    FetchWorkers = {f1}
    UploadWorkers = {u1}
    UpdateWorkers = {d1}
    Faults = {"interrupt", "crash", "setup", "session", "parse", "fetch", "upload", "send", "redelivery", "channel", "connection", "broker", "finalize"}
    QueuesAtStart = {"fetching", "uploading"}
    MaxUpdates = 1
    MaxRuns = 2
SPECIFICATION FairSpec
PROPERTIES ShutdownCompletes LinksAreSettled KeepsPromise
CHECK_DEADLOCK FALSE
