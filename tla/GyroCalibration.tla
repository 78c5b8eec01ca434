-------------------------- MODULE GyroCalibration ---------------------------
(* The gyro-bias calibration: armed by a web command on core 0, run sample by *)
(* sample by imu_task on core 1, announced by the reporter on core 0         *)
(* (control.c:213-257, 666, 891-913, 1185-1191).                             *)
(*                                                                           *)
(* A gyro sample is 0 or 1 on one axis, the two further apart than the       *)
(* stillness threshold.  A stored bias is remembered as how many samples     *)
(* were summed, what the sum was divided by, and whether they were spread.   *)
EXTENDS Naturals

CONSTANTS
    GYROCAL_N,  \* samples to average
    NoBias,     \* no calibration has been stored yet
    MayRearm,   \* a second command may come before the first one's result
    MaxStarts   \* bound on commands

GyroAssumption ==
    /\ GYROCAL_N \in Nat \ {0} /\ MayRearm \in BOOLEAN /\ MaxStarts \in Nat

VARIABLES
    s_gc_active, s_gc_report, s_gc_n, s_gc_moved,
    summed,      \* samples that are in s_gc_sum
    lo, hi,      \* s_gc_min, s_gc_max
    gpc,         \* imu_task in gyrocal_step
    mean,        \* s_gc_bias: what the last complete run computed
    bias,        \* the bias the IMU driver applies
    cpc,         \* control_gyrocal_start
    starts,      \* commands given
    rpc,         \* reporter
    said,        \* last announcement: "none", "set" or "aborted"
    imu_gone     \* no good sample will come again until a restart

step    == <<summed, lo, hi, gpc, mean, bias>>
flags   == <<s_gc_active, s_gc_report, s_gc_n, s_gc_moved>>
command == <<cpc, starts>>
report  == <<rpc, said, imu_gone>>
vars    == <<step, flags, command, report>>

Init ==
    /\ s_gc_active = FALSE /\ s_gc_report = FALSE /\ s_gc_n = 0 /\ s_gc_moved = FALSE
    /\ summed = 0 /\ lo = 0 /\ hi = 0 /\ gpc = "idle" /\ mean = NoBias /\ bias = NoBias
    /\ cpc = "idle" /\ starts = 0 /\ rpc = "idle" /\ said = "none"
    /\ imu_gone = FALSE

-----------------------------------------------------------------------------
(* The command: four plain stores                                            *)

\* The operator has the result of the last run.
Quiet == gpc = "idle" /\ rpc = "idle" /\ ~s_gc_active /\ ~s_gc_report

StartCount ==
    /\ cpc = "idle" /\ starts < MaxStarts /\ (MayRearm \/ Quiet)
    /\ s_gc_n' = 0 /\ cpc' = "moved" /\ starts' = starts + 1
    /\ UNCHANGED <<step, s_gc_active, s_gc_report, s_gc_moved, report>>

StartMoved ==
    /\ cpc = "moved" /\ s_gc_moved' = FALSE /\ cpc' = "report"
    /\ UNCHANGED <<step, s_gc_active, s_gc_report, s_gc_n, starts, report>>

StartReport ==
    /\ cpc = "report" /\ s_gc_report' = FALSE /\ cpc' = "active"
    /\ UNCHANGED <<step, s_gc_active, s_gc_n, s_gc_moved, starts, report>>

StartActive ==
    /\ cpc = "active" /\ s_gc_active' = TRUE /\ cpc' = "idle"
    /\ UNCHANGED <<step, s_gc_report, s_gc_n, s_gc_moved, starts, report>>

-----------------------------------------------------------------------------
(* gyrocal_step                                                              *)

\* The driver loses the sensor for good: imu_task then marks every sample bad
\* and gyrocal_step skips it.
ImuGone ==
    /\ gpc = "idle" /\ ~imu_gone /\ imu_gone' = TRUE
    /\ UNCHANGED <<step, flags, command, rpc, said>>

\* A good sample: the first one starts the sums.
Accumulate ==
    /\ gpc = "idle" /\ s_gc_active /\ ~imu_gone
    /\ \E x \in {0, 1} :
          /\ lo' = IF s_gc_n = 0 \/ x < lo THEN x ELSE lo
          /\ hi' = IF s_gc_n = 0 \/ x > hi THEN x ELSE hi
    /\ summed' = IF s_gc_n = 0 THEN 1 ELSE summed + 1
    /\ gpc' = "count"
    /\ UNCHANGED <<mean, bias, flags, command, report>>

\* Wrong variant of Count: one sample more.
CountLong ==
    /\ gpc = "count"
    /\ s_gc_n' = s_gc_n + 1
    /\ gpc' = IF s_gc_n < GYROCAL_N THEN "idle" ELSE "fold"
    /\ UNCHANGED <<summed, lo, hi, mean, bias, s_gc_active, s_gc_report,
                   s_gc_moved, command, report>>

Count ==
    /\ gpc = "count"
    /\ s_gc_n' = s_gc_n + 1
    /\ gpc' = IF s_gc_n + 1 < GYROCAL_N THEN "idle" ELSE "fold"
    /\ UNCHANGED <<summed, lo, hi, mean, bias, s_gc_active, s_gc_report,
                   s_gc_moved, command, report>>

\* Wrong variant of Fold: the verdict of the armed run is not recomputed.
FoldKeepsVerdict ==
    /\ gpc = "fold"
    /\ mean' = [samples |-> summed, divisor |-> s_gc_n, spread |-> hi # lo]
    /\ gpc' = "decide"
    /\ UNCHANGED <<summed, lo, hi, bias, s_gc_active, s_gc_report, s_gc_n,
                   s_gc_moved, command, report>>

\* The mean is taken with the counter as it is now.
Fold ==
    /\ gpc = "fold"
    /\ mean' = [samples |-> summed, divisor |-> s_gc_n, spread |-> hi # lo]
    /\ s_gc_moved' = (hi # lo)
    /\ gpc' = "decide"
    /\ UNCHANGED <<summed, lo, hi, bias, s_gc_active, s_gc_report, s_gc_n,
                   command, report>>

Decide ==
    /\ gpc = "decide"
    /\ bias' = IF s_gc_moved THEN bias ELSE mean
    /\ gpc' = "disarm"
    /\ UNCHANGED <<summed, lo, hi, mean, flags, command, report>>

Disarm ==
    /\ gpc = "disarm" /\ s_gc_active' = FALSE /\ gpc' = "flag"
    /\ UNCHANGED <<summed, lo, hi, mean, bias, s_gc_report, s_gc_n, s_gc_moved,
                   command, report>>

\* Wrong variant of Flag: the reporter is not told.
FlagForgotten ==
    /\ gpc = "flag" /\ gpc' = "idle"
    /\ UNCHANGED <<summed, lo, hi, mean, bias, flags, command, report>>

Flag ==
    /\ gpc = "flag" /\ s_gc_report' = TRUE /\ gpc' = "idle"
    /\ UNCHANGED <<summed, lo, hi, mean, bias, s_gc_active, s_gc_n, s_gc_moved,
                   command, report>>

GyroStep == Accumulate \/ Count \/ Fold \/ Decide \/ Disarm \/ Flag

-----------------------------------------------------------------------------
(* emit_gyrocal_result                                                       *)

Notice ==
    /\ rpc = "idle" /\ s_gc_report
    /\ s_gc_report' = FALSE /\ rpc' = "say"
    /\ UNCHANGED <<step, s_gc_active, s_gc_n, s_gc_moved, command, said, imu_gone>>

Say ==
    /\ rpc = "say"
    /\ said' = IF s_gc_moved THEN "aborted" ELSE "set"
    /\ rpc' = "idle"
    /\ UNCHANGED <<step, flags, command, imu_gone>>

Start == StartMoved \/ StartReport \/ StartActive

Next == StartCount \/ Start \/ ImuGone \/ GyroStep \/ Notice \/ Say

Spec == Init /\ [][Next]_vars

\* imu_task ticks (and reads good samples while the IMU is there), the reporter
\* runs, and a command once begun is carried on.
FairSpec == Spec /\ WF_vars(Start) /\ WF_vars(GyroStep) /\ WF_vars(Notice \/ Say)

-----------------------------------------------------------------------------
Bias == [samples : Nat, divisor : Nat, spread : BOOLEAN] \cup {NoBias}

TypeOK ==
    /\ s_gc_active \in BOOLEAN /\ s_gc_report \in BOOLEAN /\ s_gc_moved \in BOOLEAN
    /\ s_gc_n \in 0 .. GYROCAL_N /\ summed \in Nat /\ lo \in {0, 1} /\ hi \in {0, 1}
    /\ gpc \in {"idle", "count", "fold", "decide", "disarm", "flag"}
    /\ mean \in Bias /\ bias \in Bias
    /\ cpc \in {"idle", "moved", "report", "active"} /\ starts \in 0 .. MaxStarts
    /\ rpc \in {"idle", "say"} /\ said \in {"none", "set", "aborted"}
    /\ imu_gone \in BOOLEAN

\* "on the last, fold the mean into the stored bias" (control.c:227) and "On motion
\* the bias is left unchanged" (control.c:891): what is stored is the sum of
\* GYROCAL_N samples divided by GYROCAL_N, none of them from a robot that moved.
BiasIsHonest ==
    bias # NoBias =>
        bias.samples = GYROCAL_N /\ bias.divisor = GYROCAL_N /\ ~bias.spread

\* "the loop runs it over GYROCAL_N ticks, the reporter emits the result"
\* (control.c:214-215): an armed calibration ends in an announcement as long as
\* the sensor lives.  Without it nothing disarms the run: a bad sample does not
\* advance the counter (control.c:232).
ArmedIsAnsweredOrGone == s_gc_active ~> (rpc = "say" \/ imu_gone)
=============================================================================
