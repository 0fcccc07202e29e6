SPECIFICATION Spec
CONSTANTS
    inner = inner
    outer = outer
    mirror = mirror
    v1 = v1
    v2 = v2
    None = None
    Local = Local
    Unsourced = Unsourced
    Upstreams <- MCUpstreams
    Tier <- MCTier
    Rank <- MCRank
    Contents <- MCContents
    Flaky = {inner, outer}
    FirstRows <- MCFirstRows
    Versions = {v1, v2}
    FailureThreshold = 1
    Requests = {r1}
    Publishers = {p1}
    Users = {x, a}
    Admins = {a}
    Ecosystems = {"npm", "pypi"}
    Reserved = FALSE
    DeleteOverlaps = FALSE
    MaxMoves = 1
    MaxEdits = 1
INVARIANTS NeverShadowed PublicNameStands   GoneIsGone
 
CHECK_DEADLOCK FALSE
