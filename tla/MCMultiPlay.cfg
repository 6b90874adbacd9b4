SPECIFICATION LiveSpec
CONSTANTS
    Width = 4
    Height = 4
    Type = {"O", "T"}
    Preview = 1
    NoMino = NoMino
    NoType = NoType
    MaxPieces = 4
    MaxInFlight = 1
INVARIANTS TypeOK PartsMirrored MovedMinoMirrored
PROPERTIES ImplementsSinglePlay LastBoardSeen
CHECK_DEADLOCK FALSE
