SPECIFICATION Spec
CONSTANTS
    img = img
    multi = multi
    base = base
    b1 = b1
    l1 = l1
    c1 = c1
    None = None
    LocalRepos = {l1}
    CachedRepos = {c1}
    Users = {u1}
    Admins = {}
    MayPush = {u1}
    Images = {img}
    Indexes = {multi, base}
    Blobs = {b1}
    Layers <- OneLayer
    Children <- IndexOfImg
    Offers <- BothOffered
    FailsPush = {img}
    FailsPull = {}
    Suspects = {l1}
    Pushes = {img, multi}
    Strict = FALSE
    RequireScan = TRUE
    Overlap = FALSE
INVARIANTS LinkedComplete PrivateStaysPrivate TagsLinked 
CHECK_DEADLOCK FALSE
