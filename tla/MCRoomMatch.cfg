CONSTANTS
    Client = {c1, c2}
    Seed = {s1}
    NoSeed = NoSeed
    MaxRelays = 1
SPECIFICATION LiveSpec
INVARIANTS
    TypeOK
    NobodyStartsAlone
    PlaySeeded
    VictoryNeedsDeparture
PROPERTIES
    StartsTogether
    MatchEnds
CHECK_DEADLOCK FALSE
