SPECIFICATION LiveSpec
CONSTANTS
    Key = {"ESC", "S", "SPACE"}
    MaxEvents = 2
    BufSize = 1
    MaxFingers = 1
INVARIANTS TypeOK StacksAreKnown ClientIsOnTop PopsSpareTheNew PressActsOnce HeldAsPressed MusicFollowsGame
PROPERTIES ScreensMoveOn
CHECK_DEADLOCK FALSE
