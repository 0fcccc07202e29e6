SPECIFICATION LiveSpec
CONSTANTS
    a = a
    b = b
    r1 = r1
    r2 = r2
    r3 = r3
    t1 = t1
    t2 = t2
    t3 = t3
    NoToken = NoToken
    NoBody = NoBody
    Replicas = {a, b}
    Requests = {r1, r2}
    Homes <- Apart
    Streams = {r1, r2}
    Tokens = {t1, t2}
    Bodies <- GoodBody
    RowSize = 1
    Chunk = 1
    MaxTries = 2
    MaxCrashes = 1
    CacheMayFail = FALSE
    LeaseMayLapse = FALSE
    UnlinkMayFail = FALSE
INVARIANTS OneDownload
PROPERTIES RequestsEnd LeaseComesFree
CHECK_DEADLOCK FALSE
