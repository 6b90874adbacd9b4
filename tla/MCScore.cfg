SPECIFICATION Spec
CONSTANTS
    MaxCalls = 6
    MaxDrop = 1
INVARIANTS TypeOK LevelFollowsLines ScoreIsWorth
CHECK_DEADLOCK FALSE
