SPECIFICATION Spec
CONSTANTS
    SAMPLES_PER_BATCH = 4
    STREAM_DECIM = 2
    COUNT_MAX = 65535
    N = 4
    QLen = 2
    Topics = 2
    MaxCycle = 3
    MaxSamples = 17
    QuickRestart = TRUE
INVARIANT FrameIsBatch
CHECK_DEADLOCK FALSE
