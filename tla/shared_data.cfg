SPECIFICATION SharedFairSpec
CONSTANTS
    SAMPLES_PER_BATCH = 4
    STREAM_DECIM = 2
    COUNT_MAX = 65535
    N = 4
    QLen = 2
    Topics = 2
    MaxCycle = 3
    MaxSamples = 17
    QuickRestart = FALSE
    Words = {imu, roll, pitch}
    SeqMod = 4
    MaxWrites = 4
    Kinds = {range, missed}
    NoKind = NoKind
    MaxEvents = 2
INVARIANTS HalvesDisjoint FrameIsBatch NoTornRead MotorRemembered
PROPERTIES
    EveryBatchInOrder EveryBatchDelivered
    ReadIsNewest ImplementsSnapshot
    MotorIsTold
CHECK_DEADLOCK FALSE
