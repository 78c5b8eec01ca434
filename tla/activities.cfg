SPECIFICATION FairSpec
CONSTANTS
    GYROCAL_N = 3
    NoBias = NoBias
    MaxStarts = 3
    PLAYBACK_MAX = 2
    PLAYBACK_MAX_S = 3
    Durations = {0, 1, 2}
    NWheels = 2
    DB_MAX = 3
    DB_MAX_busy = 2
    DB_SETTLE = 1
    MaxTurns = 1
    MaxCommands = 2
    N = 2
    QLen = 2
    Topics = 2
    MaxCycle = 20
    MaxSamples = 10
INVARIANTS TypeOK BiasIsHonest InBounds SweepIsTruthful FrameNotStale
PROPERTIES ArmedIsAnsweredOrGone StepsInTurn FinishedIsFinished RunIsAnnounced SweepEnds
CHECK_DEADLOCK FALSE
