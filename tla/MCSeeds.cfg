CONSTANTS
    Client = {c1, c2}
    Seed = {s1, s2}
    NoSeed = NoSeed
    MaxRelays = 0
SPECIFICATION Spec
SYMMETRY Sessions
INVARIANTS
    SeedsAgree
CHECK_DEADLOCK FALSE
