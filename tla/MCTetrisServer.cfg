CONSTANTS
    MaxConns = 2
    MaxQueue = 1
    Seed = {"s1"}
SPECIFICATION LiveSpec
INVARIANTS
    TypeOK
    NoGhosts
    PlayersAreValidated
    LiveAreWatched
    DepartOnce
PROPERTIES
    ImplementsGameRoom
    DeadAreForgotten
    SilentDepart
