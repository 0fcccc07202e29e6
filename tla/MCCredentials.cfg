CONSTANTS
    ann = ann
    t1 = t1
    t2 = t2
    t3 = t3
    d1 = d1
    g1 = g1
    None = None
    Users = {ann}
    Tokens = {t1, t2}
    Devices = {d1}
    Grants = {g1}
    Asks <- MCAsks
    Standings <- MCStandings
    MaxFlight = 2
SYMMETRY Symmetry
SPECIFICATION Spec
INVARIANTS NoWidening DenialStands RegistryWithinToken
CHECK_DEADLOCK FALSE
