SPECIFICATION Spec
CONSTANTS
    max_length = 3
    MaxItems = 4
INVARIANT PiiIsFlagged
CHECK_DEADLOCK FALSE
