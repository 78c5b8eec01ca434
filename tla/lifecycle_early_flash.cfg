SPECIFICATION Spec
CONSTANTS
    m1 = m1
    m2 = m2
    i1 = i1
    i2 = i2
    MotorTasks <- MCMotorTasks
    ImuTasks <- MCImuTasks
    NoTask = NoTask
    BusMayHang = FALSE
    EarlyClient = TRUE
INVARIANT FlashOnlyParked
