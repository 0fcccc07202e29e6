SPECIFICATION Spec
CONSTANTS
    a = a
    b = b
    r1 = r1
    r2 = r2
    r3 = r3
    t1 = t1
    t2 = t2
    t3 = t3
    NoToken = NoToken
    NoBody = NoBody
    Replicas = {a, b}
    Requests = {r1, r2}
    Homes <- Either
    Streams = {r1}
    Tokens = {t1, t2}
    Bodies <- GoodOrBad
    RowSize = 1
    Chunk = 1
    MaxTries = 2
    MaxCrashes = 0
    CacheMayFail = TRUE
    LeaseMayLapse = FALSE
    UnlinkMayFail = TRUE
SYMMETRY Symm
INVARIANTS NoUnverifiedBody OneFillPerProcess FollowersFindIt
CHECK_DEADLOCK FALSE
