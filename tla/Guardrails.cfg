SPECIFICATION Spec
CONSTANTS
    max_length = 3
    MaxItems = 4
INVARIANTS
    FlagsAreSound
    FirstNirIsFlagged
CHECK_DEADLOCK FALSE
