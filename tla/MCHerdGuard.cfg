SPECIFICATION Spec
CONSTANTS
    a = a
    b = b
    c = c
    d = d
    p = p
    q = q
    None = None
    Guards <- MCGuards
    Procs <- MCProcs
    Home <- MCHome
    CancelInAwait = FALSE
INVARIANTS OneAcrossReplicas
PROPERTY OneLine
CHECK_DEADLOCK TRUE
