SPECIFICATION LiveSpec
CONSTANTS
    s1 = s1
    s2 = s2
    u1 = u1
    u2 = u2
    u3 = u3
    l1 = l1
    l2 = l2
    NoSha = NoSha
    NoFile = NoFile
    NoProc = NoProc
    Contents <- OneContent
    Upstreamed = {u1}
    Miscased = {}
    Local = {l1}
    Shas = {s1}
    Fills = {d1}
    Purgers = {p1}
    Collectors = {c1}
    Sweepers = {w1}
    Evictors = {e1}
    Publishers = {n1}
    Uploaders = {t1}
    MaxRefs = 3
    MayAbort = TRUE
INVARIANTS NoZeroRefcount
PROPERTIES  OrphanFileRemoved
CHECK_DEADLOCK FALSE
