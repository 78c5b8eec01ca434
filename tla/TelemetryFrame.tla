--------------------------- MODULE TelemetryFrame ---------------------------
(* Which samples of a batch each topic's frame holds and how long the frame   *)
(* is (telemetry_topic_pack in firmware/main/telemetry.c and the streaming    *)
(* part of reporter_task in firmware/main/control.c).  TelemetryHandoff says  *)
(* when a batch is packed; this module, without state, says into what.        *)
EXTENDS Integers

CONSTANTS
    SAMPLES_PER_BATCH,
    STREAM_DECIM,
    COUNT_MAX      \* the largest sample count the two bytes of the header carry

ASSUME FrameAssumption ==
    /\ SAMPLES_PER_BATCH \in Nat \ {0} /\ STREAM_DECIM \in Nat \ {0}
    /\ COUNT_MAX \in Nat /\ SAMPLES_PER_BATCH <= COUNT_MAX

REPORT_FRAME_MAX_FIELDS == 9
REPORT_FRAME_CAP == 4 + SAMPLES_PER_BATCH * (8 + (REPORT_FRAME_MAX_FIELDS - 1) * 4) + 64

TOPICS == {"imu", "angles", "motors"}

\* The declared columns of a topic, time included, and the floats its packer writes.
fields(t) == IF t = "angles" THEN 5 ELSE 9
Floats(t) == IF t = "angles" THEN 4 ELSE 8

\* motor_ctrl: the wheel loop alone is on, and its speeds are streamed tick by tick.
stride(t, motor_ctrl) ==
    IF t = "imu" \/ (t = "motors" /\ motor_ctrl) THEN 1 ELSE STREAM_DECIM

count(t, motor_ctrl) ==
    IF t = "imu" THEN 1 ELSE SAMPLES_PER_BATCH \div stride(t, motor_ctrl)

\* The slot of the half buffer that the i-th sample of the frame is taken from.
Slot(t, motor_ctrl, i) ==
    (IF t = "imu" THEN SAMPLES_PER_BATCH - 1 ELSE 0) + i * stride(t, motor_ctrl)

\* The length the packer checks against the buffer, and the bytes it then writes.
need(t, n)    == 4 + n * (8 + (fields(t) - 1) * 4)
Written(t, n) == 4 + n * (8 + 4 * Floats(t))
=============================================================================
