SPECIFICATION LiveSpec
CONSTANTS
    Width = 5
    Height = 5
    Type = {"I", "O", "T"}
    Preview = 1
    NoMino = NoMino
    NoType = NoType
    MaxPieces = 4
INVARIANTS TypeOK NoOverlap NeverEmptyHanded ClearIsCompaction BlocksConserved DealtEvenly
PROPERTY TurnsEnd
CHECK_DEADLOCK FALSE
