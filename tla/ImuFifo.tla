------------------------------- MODULE ImuFifo -------------------------------
(* The MPU6050 driver (firmware/main/imu.c) as imu_task calls it: the sensor  *)
(* pushes frames of FRAME bytes into its FIFO and raises an edge, a tick that *)
(* saw edges drains the FIFO to the newest frame or, when its byte count does *)
(* not add up, clears it and reads the data registers.  Every bus transfer    *)
(* may fail, and a burst that is cut off leaves part of a frame behind.       *)
(* Bytes are numbered as the sensor makes them: the FIFO holds the last `n`   *)
(* of the `made` bytes that were ever produced.                               *)
EXTENDS Integers

CONSTANTS
    FRAME,           \* MPU_FIFO_FRAME
    MAXREAD,         \* MPU_FIFO_MAXREAD
    CAP,             \* bytes in the sensor's FIFO, of which it keeps the newest
    IMU_FAIL_LIMIT,
    MaxFrames        \* bound on the frames made

\* The longest burst leaves room for a frame more (1024, 112 and 14 bytes in the code).
ASSUME FifoAssumption ==
    /\ {FRAME, MAXREAD, CAP, IMU_FAIL_LIMIT, MaxFrames} \subseteq Nat
    /\ 0 < FRAME /\ FRAME <= MAXREAD /\ MAXREAD + FRAME <= CAP

VARIABLES
    \* the sensor
    awake, intOn, streaming, fifoOn,  \* PWR_MGMT_1, INT_ENABLE, FIFO_EN, USER_CTRL
    made, n,                          \* frames made, bytes in the FIFO
    late,                             \* the last frame is not in the FIFO yet
    edges,                            \* data-ready edges since the last tick (capped at 2)
    \* mpu6050_read_newest and its caller
    s_imu_present, stale_streak,      \* (s_mpu_ok is TRUE whenever the sensor is present)
    ipc, cnt,                         \* where it is, and the byte count it read
    atTick,                           \* frames made when the tick saw its edges
    lastByte                          \* the last byte of the newest sample handed out

sensor   == <<awake, intOn, streaming, fifoOn, made, n, late, edges>>
driver   == <<s_imu_present, stale_streak, ipc, cnt, atTick, lastByte>>
fifoVars == <<sensor, driver>>

FifoInit ==
    /\ awake = FALSE /\ intOn = FALSE /\ streaming = FALSE /\ fifoOn = FALSE
    /\ made = 0 /\ n = 0 /\ late = FALSE /\ edges = 0
    /\ s_imu_present = FALSE /\ stale_streak = 0
    /\ ipc = "off" /\ cnt = 0 /\ atTick = 0 /\ lastByte = 0

-----------------------------------------------------------------------------
Capped(x) == IF x > CAP THEN CAP ELSE x
Filling   == streaming /\ fifoOn

\* The sensor makes a frame and raises its interrupt; the frame is in the FIFO at
\* once or a moment later, so that a byte count read on its edge may miss it
\* ("INT/FIFO desync"), but no later transfer does.  A burst ends before the FIFO fills
\* up behind it: 5 ms against the 130 ms of the room that MAXREAD leaves.
MakeFrame ==
    /\ awake /\ made < MaxFrames /\ ~late
    /\ ipc = "burst" => n + FRAME <= CAP
    /\ made' = made + 1
    /\ edges' = IF intOn /\ edges < 2 THEN edges + 1 ELSE edges
    /\ \/ n' = (IF Filling THEN Capped(n + FRAME) ELSE n) /\ UNCHANGED late
       \/ Filling /\ late' = TRUE /\ UNCHANGED n
    /\ UNCHANGED <<awake, intOn, streaming, fifoOn, driver>>

PushLate ==
    /\ late
    /\ late' = FALSE /\ n' = IF Filling THEN Capped(n + FRAME) ELSE n
    /\ UNCHANGED <<awake, intOn, streaming, fifoOn, made, edges, driver>>

-----------------------------------------------------------------------------
\* mpu6050_init, from motor_task: every register write after WHO_AM_I is unchecked,
\* so any of them may have failed.  A start that finds the sensor present skips the
\* call (control.c:400): that is the choice of no write at all.  Clearing the FIFO switches it off until the next
\* write.  A sensor that is being cleared has no frame half way.
InitDevice ==
    /\ ipc = "off" /\ ~late
    /\ \E who, wake, int, en, clear, on \in BOOLEAN :
         /\ s_imu_present' = who
         /\ IF who
              THEN /\ awake' = (awake \/ wake) /\ intOn' = (intOn \/ int)
                   /\ streaming' = (streaming \/ en)
                   /\ fifoOn' = (IF on THEN TRUE ELSE fifoOn /\ ~clear)
                   /\ n' = IF clear THEN 0 ELSE n
              ELSE UNCHANGED <<awake, intOn, streaming, fifoOn, n>>
    /\ edges' = 0 /\ stale_streak' = 0 /\ ipc' = "idle"
    /\ UNCHANGED <<made, late, cnt, atTick, lastByte>>

\* A tick that ends without a fresh sample; a long run of them drops the sensor.
Stale ==
    IF stale_streak = IMU_FAIL_LIMIT
      THEN s_imu_present' = FALSE /\ stale_streak' = 0
      ELSE stale_streak' = stale_streak + 1 /\ UNCHANGED s_imu_present

\* A new tick of imu_task: no edge, no sample.
TickStale ==
    /\ ipc = "idle" /\ s_imu_present /\ edges = 0
    /\ Stale
    /\ UNCHANGED <<sensor, ipc, cnt, atTick, lastByte>>

TickFresh ==
    /\ ipc = "idle" /\ s_imu_present /\ edges > 0
    /\ edges' = 0 /\ atTick' = made /\ ipc' = "count"
    /\ UNCHANGED <<awake, intOn, streaming, fifoOn, made, n, late, s_imu_present,
                   stale_streak, cnt, lastByte>>

Fail(from) ==
    /\ ipc = from /\ ipc' = "idle" /\ Stale /\ cnt' = 0
    /\ UNCHANGED <<atTick, lastByte>>

\* The sample ends in byte `b` and makes the sensor fresh again.
Hand(b) ==
    /\ ipc' = "idle" /\ lastByte' = b /\ stale_streak' = 0 /\ cnt' = 0
    /\ UNCHANGED <<s_imu_present, atTick>>

Unusable(k) == k < FRAME \/ k > MAXREAD \/ k % FRAME # 0

ReadCount ==
    \/ /\ ipc = "count" /\ cnt' = n
       /\ ipc' = IF Unusable(n) THEN "clear" ELSE "burst"
       /\ UNCHANGED <<sensor, s_imu_present, stale_streak, atTick, lastByte>>
    \/ Fail("count") /\ UNCHANGED sensor

\* Resync: clear the FIFO (which also switches it off), switch it on, each write
\* unchecked, then read the registers, which hold the newest frame.
ClearFifo ==
    /\ ipc = "clear" /\ ~late /\ ipc' = "enable"
    /\ \/ n' = 0 /\ fifoOn' = FALSE
       \/ UNCHANGED <<n, fifoOn>>
    /\ UNCHANGED <<awake, intOn, streaming, made, late, edges, s_imu_present,
                   stale_streak, cnt, atTick, lastByte>>

EnableFifo ==
    /\ ipc = "enable" /\ ~late /\ ipc' = "registers"
    /\ fifoOn' \in {fifoOn, TRUE}
    /\ UNCHANGED <<awake, intOn, streaming, made, n, late, edges, s_imu_present,
                   stale_streak, cnt, atTick, lastByte>>

ReadRegisters ==
    /\ ~late
    /\ \/ ipc = "registers" /\ Hand(FRAME * made)
       \/ Fail("registers")
    /\ UNCHANGED sensor

\* Wrong variant of ReadBurst: the first frame of the burst is kept.
ReadBurstOldest ==
    /\ ~late
    /\ \/ ipc = "burst" /\ n' = n - cnt /\ Hand(FRAME * made - n + FRAME)
       \/ \E k \in 0 .. cnt : n' = n - k /\ Fail("burst")
    /\ UNCHANGED <<awake, intOn, streaming, fifoOn, made, late, edges>>

\* Drain `cnt` bytes and keep the last frame; a burst cut off has taken a part.
ReadBurst ==
    /\ ~late
    /\ \/ ipc = "burst" /\ n' = n - cnt /\ Hand(FRAME * made - n + cnt)
       \/ \E k \in 0 .. cnt : n' = n - k /\ Fail("burst")
    /\ UNCHANGED <<awake, intOn, streaming, fifoOn, made, late, edges>>

\* STOP between two ticks; the sensor runs on.
StopTask ==
    /\ ipc = "idle" /\ ipc' = "off"
    /\ UNCHANGED <<sensor, s_imu_present, stale_streak, cnt, atTick, lastByte>>

FifoNext ==
    \/ MakeFrame \/ PushLate \/ InitDevice \/ StopTask
    \/ TickStale \/ TickFresh
    \/ ReadCount \/ ClearFifo \/ EnableFifo \/ ReadRegisters \/ ReadBurst

FifoSpec == FifoInit /\ [][FifoNext]_fifoVars

-----------------------------------------------------------------------------
FifoTypeOK ==
    /\ {awake, intOn, streaming, fifoOn, late, s_imu_present} \subseteq BOOLEAN
    /\ made \in 0 .. MaxFrames /\ n \in 0 .. CAP /\ edges \in 0 .. 2
    /\ stale_streak \in 0 .. IMU_FAIL_LIMIT /\ cnt \in 0 .. CAP /\ atTick \in 0 .. made
    /\ ipc \in {"off", "idle", "count", "clear", "enable", "registers", "burst"}
    /\ lastByte \in 0 .. FRAME * MaxFrames

\* A sample handed to the estimator is one whole frame, never older than the sample
\* before it, and at most one frame behind what the sensor had made when the tick
\* saw its edges (imu.c:244-249, 267: "drain to the newest").
SampleIsNewest ==
    [][(ipc \in {"registers", "burst"} /\ ipc' = "idle" /\ lastByte' # lastByte) =>
         /\ lastByte' % FRAME = 0
         /\ lastByte' > lastByte
         /\ lastByte' >= FRAME * (atTick - 1)]_fifoVars
=============================================================================
