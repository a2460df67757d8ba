SPECIFICATION ValuesSpec
CHECK_DEADLOCK FALSE
CONSTANTS
    MaxParts = 5
INVARIANTS
    NotDroppedAfterItsEnd
