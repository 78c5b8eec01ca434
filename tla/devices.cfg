SPECIFICATION DevicesSpec
CONSTANTS
    LIMIT = 3
    WORD = 2
    Mirrored = TRUE
    MaxTravel = 4
    MaxBack = 1
    MaxResets = 1
    FRAME = 3
    MAXREAD = 6
    CAP = 11
    IMU_FAIL_LIMIT = 2
    MaxFrames = 5
    Clients = {c1}
    QMAX = 1
    CHUNKS = 1
    MOREBEACONS = 4
    MAXLOST = 3
    RXBUF = 1
    BTN_DEBOUNCE_N = 3
    DUTY_MAX = 2
    NEUTRAL = 1
    DB_FLOOR = 1
    WSET_MAX = 1
    W_MAX = 2
    Speeds = {0, 1}
    Gains = {0, 1}
    Tilts = {0, 1}
INVARIANTS TypeOK CountIsExact BootsWhole NothingLeaks  ResetForgets
PROPERTIES SampleIsNewest ServerComesBack BothPair
CHECK_DEADLOCK FALSE
