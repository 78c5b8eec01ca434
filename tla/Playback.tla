------------------------------ MODULE Playback ------------------------------
(* Scripted playback: httpd fills and starts a step array on core 0          *)
(* (control.c:1113-1156, web_server.c:716-744) while motor_task plays it on  *)
(* core 1 (control.c:186-195, 358-376, 527-541) and the reporter announces   *)
(* the end (control.c:873-889).  No lock joins them: each store to a shared  *)
(* variable is a step of its own.                                            *)
(*                                                                           *)
(* A step of a script is <<script, position>>, and both wheels of one step   *)
(* carry that value.  Time is counted in ticks of motor_task since the start *)
(* of the run.  A script here is an open-loop one.                           *)
EXTENDS Naturals

CONSTANTS
    PLAYBACK_MAX,    \* capacity of the step array
    PLAYBACK_MAX_S,  \* cap on the total duration, in ticks
    Durations,       \* durations a line of an upload may ask for, 0 included
    MaxCommands,     \* bound on commands
    Overlap          \* a command may come while the motor loop is at its script

PlaybackAssumption ==
    /\ PLAYBACK_MAX \in Nat \ {0} /\ PLAYBACK_MAX_S \in Nat
    /\ Durations \subseteq Nat /\ MaxCommands \in Nat /\ Overlap \in BOOLEAN

VARIABLES
    s_play,         \* the step array
    s_play_len, s_play_idx, s_play_active, s_play_report,
    clock,          \* ticks since s_play_t0_us, as far as a script can tell
    hpc, script,    \* httpd: control point, and scripts uploaded so far
    given,          \* commands given
    mpc, i, elapsed, vL,   \* motor_task in playback_step
    out,            \* what the two wheels are told
    held,           \* something with priority has the wheels (deadband, controller)
    run, cut, said  \* history: runs started, the run last cut short by a command,
                    \* and the run in which an end was last announced

shared == <<s_play, s_play_len, s_play_idx, s_play_active, s_play_report, clock>>
httpd  == <<hpc, script, given, run, cut>>
motor  == <<mpc, i, elapsed, vL, out>>
vars   == <<shared, httpd, motor, held, said>>

Cells == 0 .. PLAYBACK_MAX - 1
Zero  == <<0, 0>>

Init ==
    /\ s_play = [k \in Cells |-> [t_end |-> 0, vL |-> Zero, vR |-> Zero]]
    /\ s_play_len = 0 /\ s_play_idx = 0
    /\ s_play_active = FALSE /\ s_play_report = FALSE /\ clock = 0
    /\ hpc = "idle" /\ script = 0 /\ given = 0
    /\ mpc = "wait" /\ i = 0 /\ elapsed = 0 /\ vL = Zero /\ out = <<Zero, Zero>>
    /\ held = FALSE /\ run = 0 /\ cut = 0 /\ said = 0

-----------------------------------------------------------------------------
(* httpd: the upload, 'play' and 'play stop'                                 *)

\* A command comes at any time, or once script and announcement are over.
MayCommand ==
    /\ hpc = "idle" /\ given < MaxCommands
    /\ Overlap \/ (~s_play_active /\ ~s_play_report /\ mpc = "wait")

Command(l) == MayCommand /\ hpc' = l /\ given' = given + 1

\* control_playback_begin, with its first store.
Upload ==
    /\ Command("beginIdx")
    /\ s_play_active' = FALSE /\ script' = script + 1 /\ cut' = run
    /\ UNCHANGED <<s_play, s_play_len, s_play_idx, s_play_report, clock, run,
                   motor, held, said>>

BeginIdx ==
    /\ hpc = "beginIdx" /\ s_play_idx' = 0 /\ hpc' = "beginLen"
    /\ UNCHANGED <<s_play, s_play_len, s_play_active, s_play_report, clock,
                   script, given, run, cut, motor, held, said>>

BeginLen ==
    /\ hpc = "beginLen" /\ s_play_len' = 0 /\ hpc' = "append"
    /\ UNCHANGED <<s_play, s_play_idx, s_play_active, s_play_report, clock,
                   script, given, run, cut, motor, held, said>>

PrevEnd == IF s_play_len > 0 THEN s_play[s_play_len - 1].t_end ELSE 0

Store(field, v) == s_play' = [s_play EXCEPT ![s_play_len][field] = v]

\* control_playback_append for the next line: full (-1) and over the cap (-3)
\* end the upload, a line without duration (-2) is skipped ...
AppendEnd ==
    /\ hpc = "append"
    /\ \E dur \in Durations :
          IF s_play_len >= PLAYBACK_MAX \/ (dur > 0 /\ PrevEnd + dur > PLAYBACK_MAX_S)
          THEN hpc' = "end" /\ UNCHANGED s_play
          ELSE /\ dur > 0
               /\ Store("t_end", PrevEnd + dur) /\ hpc' = "appendL"
    /\ UNCHANGED <<s_play_len, s_play_idx, s_play_active, s_play_report, clock,
                   script, given, run, cut, motor, held, said>>

AppendL ==
    /\ hpc = "appendL" /\ Store("vL", <<script, s_play_len + 1>>) /\ hpc' = "appendR"
    /\ UNCHANGED <<s_play_len, s_play_idx, s_play_active, s_play_report, clock,
                   script, given, run, cut, motor, held, said>>

AppendR ==
    /\ hpc = "appendR" /\ Store("vR", <<script, s_play_len + 1>>) /\ hpc' = "appendLen"
    /\ UNCHANGED <<s_play_len, s_play_idx, s_play_active, s_play_report, clock,
                   script, given, run, cut, motor, held, said>>

\* ... and the length is published last.
AppendLen ==
    /\ hpc = "appendLen" /\ s_play_len' = s_play_len + 1 /\ hpc' = "append"
    /\ UNCHANGED <<s_play, s_play_idx, s_play_active, s_play_report, clock,
                   script, given, run, cut, motor, held, said>>

\* The last line was read.
UploadEnd ==
    /\ hpc = "append" /\ hpc' = "end"
    /\ UNCHANGED <<shared, script, given, run, cut, motor, held, said>>

\* A script with steps is started; without, the array is begun afresh, of which
\* only the index can differ from what it was.
Import ==
    /\ hpc = "end"
    /\ IF s_play_len > 0
       THEN hpc' = "start" /\ UNCHANGED s_play_idx
       ELSE hpc' = "idle" /\ s_play_idx' = 0
    /\ UNCHANGED <<s_play, s_play_len, s_play_active, s_play_report, clock,
                   script, given, run, cut, motor, held, said>>

Play ==
    /\ Command("start")
    /\ UNCHANGED <<shared, script, run, cut, motor, held, said>>

\* control_playback_start: a no-op on an empty array, else four stores.
StartIdx ==
    /\ hpc = "start"
    /\ IF s_play_len > 0
       THEN s_play_idx' = 0 /\ hpc' = "startReport"
       ELSE hpc' = "idle" /\ UNCHANGED s_play_idx
    /\ UNCHANGED <<s_play, s_play_len, s_play_active, s_play_report, clock,
                   script, given, run, cut, motor, held, said>>

StartReport ==
    /\ hpc = "startReport" /\ s_play_report' = FALSE /\ hpc' = "startT0"
    /\ UNCHANGED <<s_play, s_play_len, s_play_idx, s_play_active, clock,
                   script, given, run, cut, motor, held, said>>

StartT0 ==
    /\ hpc = "startT0" /\ clock' = 0 /\ hpc' = "startActive"
    /\ UNCHANGED <<s_play, s_play_len, s_play_idx, s_play_active, s_play_report,
                   script, given, run, cut, motor, held, said>>

StartActive ==
    /\ hpc = "startActive" /\ s_play_active' = TRUE /\ hpc' = "idle" /\ run' = run + 1
    /\ UNCHANGED <<s_play, s_play_len, s_play_idx, s_play_report, clock,
                   script, given, cut, motor, held, said>>

\* control_playback_stop; the manual command it also parks is zero throughout.
PlayStop ==
    /\ hpc = "idle" /\ given < MaxCommands
    /\ s_play_active' = FALSE /\ given' = given + 1 /\ cut' = run
    /\ UNCHANGED <<s_play, s_play_len, s_play_idx, s_play_report, clock,
                   hpc, script, run, motor, held, said>>

Begin   == BeginIdx \/ BeginLen
Append1 == AppendEnd \/ AppendL \/ AppendR \/ AppendLen \/ UploadEnd \/ Import
Start   == StartIdx \/ StartReport \/ StartT0 \/ StartActive

-----------------------------------------------------------------------------
(* motor_task                                                                *)

\* A tick that finds no script to play applies the manual command.
Tick ==
    /\ mpc = "wait"
    /\ clock' = IF clock <= PLAYBACK_MAX_S THEN clock + 1 ELSE clock
    /\ IF s_play_active /\ ~held
       THEN mpc' = "read" /\ UNCHANGED out
       ELSE out' = <<Zero, Zero>> /\ UNCHANGED mpc
    /\ UNCHANGED <<s_play, s_play_len, s_play_idx, s_play_active, s_play_report,
                   httpd, i, elapsed, vL, held, said>>

ReadIdx ==
    /\ mpc = "read" /\ elapsed' = clock /\ i' = s_play_idx /\ mpc' = "scan"
    /\ UNCHANGED <<shared, httpd, vL, out, held, said>>

\* Wrong variant of Scan: a step lasts to its end inclusive.
ScanInclusive ==
    /\ mpc = "scan"
    /\ IF i < s_play_len /\ elapsed > s_play[i].t_end
       THEN i' = i + 1 /\ UNCHANGED mpc
       ELSE mpc' = "store" /\ UNCHANGED i
    /\ UNCHANGED <<shared, httpd, elapsed, vL, out, held, said>>

Scan ==
    /\ mpc = "scan"
    /\ IF i < s_play_len /\ elapsed >= s_play[i].t_end
       THEN i' = i + 1 /\ UNCHANGED mpc
       ELSE mpc' = "store" /\ UNCHANGED i
    /\ UNCHANGED <<shared, httpd, elapsed, vL, out, held, said>>

\* The length is looked at once more after the index is stored.
StoreIdx ==
    /\ mpc = "store" /\ s_play_idx' = i /\ mpc' = "test"
    /\ UNCHANGED <<s_play, s_play_len, s_play_active, s_play_report, clock,
                   httpd, i, elapsed, vL, out, held, said>>

\* Wrong variant of TestEnd: off by one.
TestEndLate ==
    /\ mpc = "test"
    /\ mpc' = IF i > s_play_len THEN "endActive" ELSE "outL"
    /\ UNCHANGED <<shared, httpd, i, elapsed, vL, out, held, said>>

TestEnd ==
    /\ mpc = "test"
    /\ mpc' = IF i >= s_play_len THEN "endActive" ELSE "outL"
    /\ UNCHANGED <<shared, httpd, i, elapsed, vL, out, held, said>>

\* Wrong variant of EndActive: the script is not disarmed.
EndActiveForgets ==
    /\ mpc = "endActive" /\ mpc' = "endReport"
    /\ UNCHANGED <<shared, httpd, i, elapsed, vL, out, held, said>>

EndActive ==
    /\ mpc = "endActive" /\ s_play_active' = FALSE /\ mpc' = "endReport"
    /\ UNCHANGED <<s_play, s_play_len, s_play_idx, s_play_report, clock,
                   httpd, i, elapsed, vL, out, held, said>>

\* Wrong variant of EndReport: the reporter is not told.
EndReportForgets ==
    /\ mpc = "endReport" /\ mpc' = "wait" /\ out' = <<Zero, Zero>>
    /\ UNCHANGED <<shared, httpd, i, elapsed, vL, held, said>>

\* The end: the reporter is told and the wheels are parked.
EndReport ==
    /\ mpc = "endReport" /\ s_play_report' = TRUE /\ mpc' = "wait"
    /\ out' = <<Zero, Zero>>
    /\ UNCHANGED <<s_play, s_play_len, s_play_idx, s_play_active, clock,
                   httpd, i, elapsed, vL, held, said>>

OutL ==
    /\ mpc = "outL" /\ vL' = s_play[i].vL /\ mpc' = "outR"
    /\ UNCHANGED <<shared, httpd, i, elapsed, out, held, said>>

OutR ==
    /\ mpc = "outR" /\ out' = <<vL, s_play[i].vR>> /\ mpc' = "wait"
    /\ UNCHANGED <<shared, httpd, i, elapsed, vL, held, said>>

PlaybackStep ==
    ReadIdx \/ Scan \/ StoreIdx \/ TestEnd \/ EndActive \/ EndReport \/ OutL \/ OutR

\* The controller or a deadband sweep takes the wheels, or gives them back.
Hold ==
    /\ mpc = "wait" /\ held' = ~held
    /\ UNCHANGED <<shared, httpd, motor, said>>

\* emit_playback_result
Announce ==
    /\ s_play_report /\ s_play_report' = FALSE /\ said' = run
    /\ UNCHANGED <<s_play, s_play_len, s_play_idx, s_play_active, clock,
                   httpd, motor, held>>

Next ==
    \/ Upload \/ Play \/ PlayStop \/ Begin \/ Append1 \/ Start
    \/ Tick \/ PlaybackStep \/ Hold \/ Announce

Spec == Init /\ [][Next]_vars

\* The loop ticks, a command once begun is carried out, the reporter runs.
FairSpec ==
    /\ Spec /\ WF_vars(Tick \/ PlaybackStep) /\ WF_vars(Announce)
    /\ WF_vars(Begin \/ Append1 \/ Start)

-----------------------------------------------------------------------------
Values == (0 .. MaxCommands) \X (0 .. PLAYBACK_MAX)

TypeOK ==
    /\ s_play \in [Cells -> [t_end : 0 .. PLAYBACK_MAX_S, vL : Values, vR : Values]]
    /\ s_play_len \in 0 .. PLAYBACK_MAX /\ s_play_idx \in 0 .. PLAYBACK_MAX
    /\ s_play_active \in BOOLEAN /\ s_play_report \in BOOLEAN
    /\ clock \in 0 .. PLAYBACK_MAX_S + 1 /\ elapsed \in 0 .. PLAYBACK_MAX_S + 1
    /\ hpc \in {"idle", "beginIdx", "beginLen", "append", "appendL", "appendR",
                "appendLen", "end", "start", "startReport", "startT0", "startActive"}
    /\ script \in 0 .. MaxCommands /\ given \in 0 .. MaxCommands
    /\ run \in 0 .. MaxCommands /\ cut \in 0 .. MaxCommands /\ said \in 0 .. MaxCommands
    /\ mpc \in {"wait", "read", "scan", "store", "test", "endActive", "endReport",
                "outL", "outR"}
    /\ i \in 0 .. PLAYBACK_MAX
    /\ vL \in Values /\ out \in Values \X Values /\ held \in BOOLEAN

\* playback_step never reads past the array, whatever is refilled under it
\* (control.c:361-376).
InBounds == mpc \in {"outL", "outR"} => i < PLAYBACK_MAX

\* Whenever a step is played, its interval holds the time of the tick.
InTurn ==
    /\ out[1][2] > 0
    /\ LET k == out[1][2] - 1 IN
       /\ elapsed < s_play[k].t_end
       /\ k > 0 => s_play[k - 1].t_end <= elapsed

\* "The loop plays each step in turn" (web_server.c:670): each tick plays the
\* step its time falls into, so none is skipped, repeated or entered early, also
\* when the script was held up in between.
StepInTurn  == mpc = "outR" /\ mpc' = "wait" => InTurn'
StepsInTurn == [][StepInTurn]_vars

\* "Announce that a playback script ran to completion, once" (control.c:873):
\* an end is announced once for a run, and never while a run is going on.
AnnouncedOnce ==
    s_play_report /\ ~s_play_report' /\ hpc' = hpc => ~s_play_active /\ said # run

FinishedIsFinished == [][AnnouncedOnce]_vars

\* A started script ends, and its end is announced, unless a command comes or
\* something else takes the wheels (control.c:361-376, 873-889).
Playing(r)  == run = r /\ s_play_active
Answered(r) == said = r \/ run # r \/ held \/ cut = r

RunIsAnnounced == \A r \in 1 .. MaxCommands : Playing(r) ~> Answered(r)
=============================================================================
