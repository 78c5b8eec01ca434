SPECIFICATION Spec
CONSTANTS
    SAMPLES_PER_BATCH = 3
    STREAM_DECIM = 2
    COUNT_MAX = 65535
    N = 3
    QLen = 2
    Topics = 2
    MaxCycle = 5
    MaxSamples = 13
    QuickRestart = FALSE
INVARIANT FrameIsBatch
CHECK_DEADLOCK FALSE
