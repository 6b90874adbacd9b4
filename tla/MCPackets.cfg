CONSTANTS
    Client = {c1, c2}
    Seed = {s1}
    NoSeed = NoSeed
    MaxRelays = 1
SPECIFICATION Spec
SYMMETRY Sessions
INVARIANTS
    NoInvalidPacket
CHECK_DEADLOCK FALSE
