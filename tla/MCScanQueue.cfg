SPECIFICATION LiveSpec
CONSTANTS
    Workers = {w1, w2}
    Requests = {r1}
    Jobs = {j1, j2}
    MaxAttempts = 2
    MaxClaims = 2
    Overtakes = FALSE
    None = None
INVARIANTS NeverStranded LatestFindingsOnly OneActiveJob
PROPERTIES ScanSettles
CHECK_DEADLOCK FALSE
