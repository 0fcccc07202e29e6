SPECIFICATION Spec
CONSTANTS
    s1 = s1
    s2 = s2
    u1 = u1
    u2 = u2
    u3 = u3
    l1 = l1
    l2 = l2
    NoSha = NoSha
    NoFile = NoFile
    NoProc = NoProc
    Contents <- MixedContents
    Upstreamed = {u1, u2, u3}
    Miscased = {u2}
    Local = {}
    Shas = {s1, s2}
    Fills = {d1, d2}
    Purgers = {p1}
    Collectors = {c1}
    Sweepers = {w1}
    Evictors = {}
    Publishers = {}
    Uploaders = {}
    MaxRefs = 3
    MayAbort = FALSE
INVARIANTS TypeOK PointersHaveFiles 
CHECK_DEADLOCK FALSE
