CONSTANTS
    Client = {c1, c2}
    Seed = {s1}
    NoSeed = NoSeed
    MaxRelays = 0
SPECIFICATION Spec
SYMMETRY Sessions
INVARIANTS
    OneLoser
CHECK_DEADLOCK FALSE
