SPECIFICATION Spec
CONSTANTS
    Width = 4
    Height = 4
    Type = {"O", "T"}
    Preview = 1
    NoMino = NoMino
    NoType = NoType
    MaxPieces = 4
    MaxInFlight = 1
INVARIANT MinoMirrored
CHECK_DEADLOCK FALSE
