SPECIFICATION LiveSpec
CONSTANT MaxSends = 2
INVARIANTS TypeOK
PROPERTIES ImplementsStream EverythingArrives
CHECK_DEADLOCK FALSE
