CONSTANTS
    Client = {c1, c2, c3}
    Seed = {s1}
    NoSeed = NoSeed
    MaxRelays = 0
SPECIFICATION Spec
SYMMETRY Sessions
INVARIANTS
    VictoryIsReal
CHECK_DEADLOCK FALSE
