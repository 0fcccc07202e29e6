CONSTANTS
    root = root
    ann = ann
    person = person
    j1 = j1
    j2 = j2
    None = None
    Gone = Gone
    Users = {root, ann}
    Persons = {person}
    EmailOf <- MCEmailOf
    Bootstrap = root
    Cookies = {j1, j2}
    AutoCreate = TRUE
    Overlap = FALSE
    MaxVersion = 2
SYMMETRY Symmetry
SPECIFICATION AccountsSpec
INVARIANTS EjectedStaysOut SsoOnly
CHECK_DEADLOCK FALSE
