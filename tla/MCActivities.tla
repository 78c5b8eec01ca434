---------------------------- MODULE MCActivities ----------------------------
(* Model-checking instance of the four activities whose variables are        *)
(* disjoint: the gyro calibration, a playback script, a deadband sweep and   *)
(* the telemetry of a late reporter.  They touch nothing of each other's, so *)
(* one behaviour runs one of them, `which`, and leaves the others at rest.   *)
(* Playback and the sweep come in two readings, with and without commands in *)
(* the middle of a run.                                                      *)
EXTENDS Integers, Sequences

CONSTANTS
    GYROCAL_N, NoBias, MaxStarts,
    PLAYBACK_MAX, PLAYBACK_MAX_S, Durations,
    NWheels, DB_MAX, DB_MAX_busy, DB_SETTLE, MaxTurns,
    MaxCommands,
    N, QLen, Topics, MaxCycle, MaxSamples

VARIABLES
    which,
    \* GyroCalibration
    s_gc_active, s_gc_report, s_gc_n, s_gc_moved, summed, lo, hi, gpc, mean, bias,
    cpc, starts, g_rpc, g_said, imu_gone,
    \* Playback
    s_play, s_play_len, s_play_idx, s_play_active, s_play_report, clock, p_hpc, script,
    p_given, mpc, i, p_elapsed, vL, p_out, held, run, cut, p_said,
    \* DeadbandSweep
    s_db_active, s_db_report, s_db_phase, s_db_start_cnt, d_elapsed, s_db_thresh,
    s_db_found, cnt, thr, d_out, suspended, d_hpc, d_given, peak,
    \* TelemetryHandoff
    s_buf, active, idx, s_ready_q, s_drop_count, now, began, age, t_rpc, hand, latest,
    topic, frame, delivered

gyro      == <<s_gc_active, s_gc_report, s_gc_n, s_gc_moved, summed, lo, hi, gpc, mean,
               bias, cpc, starts, g_rpc, g_said, imu_gone>>
playback  == <<s_play, s_play_len, s_play_idx, s_play_active, s_play_report, clock, p_hpc,
               script, p_given, mpc, i, p_elapsed, vL, p_out, held, run, cut, p_said>>
deadband  == <<s_db_active, s_db_report, s_db_phase, s_db_start_cnt, d_elapsed,
               s_db_thresh, s_db_found, cnt, thr, d_out, suspended, d_hpc, d_given, peak>>
telemetry == <<s_buf, active, idx, s_ready_q, s_drop_count, now, began, age, t_rpc,
               hand, latest, topic, frame, delivered>>
vars      == <<which, gyro, playback, deadband, telemetry>>

G == INSTANCE GyroCalibration WITH MayRearm <- FALSE, rpc <- g_rpc, said <- g_said

\* Commands only between runs, and at any time.
P  == INSTANCE Playback WITH Overlap <- FALSE, hpc <- p_hpc, given <- p_given,
                             elapsed <- p_elapsed, out <- p_out, said <- p_said
PB == INSTANCE Playback WITH Overlap <- TRUE, hpc <- p_hpc, given <- p_given,
                             elapsed <- p_elapsed, out <- p_out, said <- p_said

D  == INSTANCE DeadbandSweep WITH
         MayRearm <- FALSE, MaySuspend <- FALSE, MayReset <- FALSE,
         hpc <- d_hpc, given <- d_given, elapsed <- d_elapsed, out <- d_out
DB == INSTANCE DeadbandSweep WITH
         DB_MAX <- DB_MAX_busy, MayRearm <- TRUE, MaySuspend <- TRUE, MayReset <- TRUE,
         hpc <- d_hpc, given <- d_given, elapsed <- d_elapsed, out <- d_out

T == INSTANCE TelemetryHandoff WITH QuickRestart <- TRUE, rpc <- t_rpc

ASSUME ActivitiesAssumption ==
    /\ G!GyroAssumption /\ P!PlaybackAssumption /\ D!SweepAssumption /\ DB!SweepAssumption
    /\ N \in Nat \ {0} /\ QLen \in Nat \ {0} /\ Topics \in Nat \ {0}
    /\ MaxCycle \in Nat /\ MaxSamples \in Nat

Init ==
    /\ which \in {"gyro", "script", "busy script", "sweep", "busy sweep", "late reporter"}
    /\ G!Init /\ P!Init /\ T!Init
    /\ IF which = "busy sweep" THEN DB!Init ELSE D!Init
    /\ which \in {"sweep", "busy sweep"} \/ thr = D!Each(1)

\* One step A of the activity that runs.
Gyro(A)      == which = "gyro" /\ A /\ UNCHANGED <<which, playback, deadband, telemetry>>
Script(w, A) == which = w /\ A /\ UNCHANGED <<which, gyro, deadband, telemetry>>
Sweep(w, A)  == which = w /\ A /\ UNCHANGED <<which, gyro, playback, telemetry>>
Late(A)      == which = "late reporter" /\ A /\ UNCHANGED <<which, gyro, playback, deadband>>

Next ==
    \/ Gyro(G!Next)
    \/ Script("script", P!Next) \/ Script("busy script", PB!Next)
    \/ Sweep("sweep", D!Next) \/ Sweep("busy sweep", DB!Next)
    \/ Late(T!Next)

Spec == Init /\ [][Next]_vars

\* The fairness of the activity that runs, as its module states it.  The busy
\* script and the late reporter are asked for safety only.
FairSpec ==
    /\ Spec
    /\ WF_vars(Gyro(G!Start)) /\ WF_vars(Gyro(G!GyroStep)) /\ WF_vars(Gyro(G!Notice \/ G!Say))
    /\ WF_vars(Script("script", P!Tick \/ P!PlaybackStep)) /\ WF_vars(Script("script", P!Announce))
    /\ WF_vars(Script("script", P!Begin \/ P!Append1 \/ P!Start))
    /\ WF_vars(Sweep("sweep", D!Tick)) /\ WF_vars(Sweep("busy sweep", DB!Tick))
    /\ WF_vars(Sweep("sweep", D!Start)) /\ WF_vars(Sweep("busy sweep", DB!Start))
    /\ WF_vars(Sweep("sweep", D!Emit)) /\ WF_vars(Sweep("busy sweep", DB!Emit))

-----------------------------------------------------------------------------
\* Every activity keeps its variables in range.
TypeOK ==
    /\ G!TypeOK /\ P!TypeOK /\ T!TypeOK
    /\ IF which = "busy sweep" THEN DB!TypeOK ELSE D!TypeOK

\* What the calibration stores is the mean of GYROCAL_N samples of a robot at
\* rest (control.c:227, 891).
BiasIsHonest == G!BiasIsHonest

\* An armed calibration is announced, as long as the sensor lives
\* (control.c:214-215).
ArmedIsAnsweredOrGone == G!ArmedIsAnsweredOrGone

\* Between commands, each tick plays the step its time falls into
\* (web_server.c:670).
StepsInTurn == [][which = "script" => P!StepInTurn]_vars

\* Between commands, the end of a script is announced once, and only when it is
\* over (control.c:873).
FinishedIsFinished == [][which = "script" => P!AnnouncedOnce]_vars

\* Between commands, a script that was started and is left alone ends, and its end
\* is announced (control.c:361-376, 873-889).
RunIsAnnounced ==
    \A r \in 1 .. MaxCommands : (which = "script" /\ P!Playing(r)) ~> P!Answered(r)

\* No step past the array is played, whatever is uploaded, started or stopped
\* under the loop (control.c:361-376).
InBounds == PB!InBounds

\* A sweep left alone reports a duty that turned the wheel, or the ceiling it
\* really went to (control.c:198, 339).
SweepIsTruthful == which = "sweep" => D!SweepIsTruthful

\* A sweep ends by itself unless it stays suspended, also when it is armed again
\* or the encoders are reset in its course (control.c:339-352).
SweepEnds == DB!SweepEnds

\* A frame of a late reporter shows newer samples than it was handed, never older
\* ones, also across a restart of motor_task (control.c:93).
FrameNotStale == T!FrameNotStale
=============================================================================
