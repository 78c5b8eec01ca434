SPECIFICATION EncSpec
CONSTANTS
    LIMIT = 3
    WORD = 2
    Mirrored = TRUE
    MaxTravel = 4
    MaxBack = 1
    MaxResets = 1
INVARIANT NeverMixed
CHECK_DEADLOCK FALSE
