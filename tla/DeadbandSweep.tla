--------------------------- MODULE DeadbandSweep ----------------------------
(* The deadband sweep (control.c:197-209, 302-356, 846-871, 1162-1183): armed*)
(* and disarmed by httpd on core 0, run tick by tick by motor_task, reported *)
(* by the reporter.  Each wheel is ramped up, forward and then in reverse,   *)
(* and the duty at which its encoder first moves is latched.                 *)
(*                                                                           *)
(* Time is counted in levels of the ramp, each of which takes many ticks of  *)
(* the loop.  A tick is one step and so is each store of a command, all of   *)
(* which together take next to no time.  cnt counts the encoder in units of  *)
(* DB_MOVE_COUNTS.  thr is the plant: the duty from which a wheel turns,     *)
(* DB_MAX + 1 if it needs more than the sweep gives.                         *)
EXTENDS Integers

CONSTANTS
    NWheels,
    DB_MAX,       \* ramp ceiling, in levels
    DB_SETTLE,    \* park time between the phases
    MaxCommands,  \* bound on commands
    MaxTurns,     \* bound on the encoder counts
    MayRearm,     \* 'deadband' may come before the last sweep is reported
                  \* and its wheels are at rest
    MaySuspend,   \* 'ctrl on', or 'control stop', may come while one is running
    MayReset      \* 'enc reset' may come while one is running

SweepAssumption ==
    /\ NWheels \in Nat \ {0} /\ DB_MAX \in Nat \ {0} /\ DB_SETTLE \in Nat
    /\ MaxCommands \in Nat /\ MaxTurns \in Nat
    /\ {MayRearm, MaySuspend, MayReset} \subseteq BOOLEAN

Wheels == 1 .. NWheels
Dirs   == {0, 1}

VARIABLES
    s_db_active, s_db_report, s_db_phase, s_db_start_cnt,
    elapsed,             \* time since s_db_t0_us, as far as the sweep can tell
    s_db_thresh, s_db_found,
    cnt, thr,            \* encoders, plant
    out,                 \* duty of each wheel, signed
    suspended,           \* the tick does not reach the sweep
    hpc, given,          \* httpd: place in control_deadband_start; commands given
    peak                 \* history: highest duty a wheel was given, per direction,
                         \* since the sweep was armed

sweep == <<s_db_phase, s_db_start_cnt, s_db_thresh, s_db_found>>
flags == <<s_db_active, s_db_report>>
httpd == <<hpc, given>>
plant == <<cnt, thr>>
vars  == <<sweep, flags, elapsed, plant, out, suspended, httpd, peak>>

Each(v)   == [w \in Wheels |-> v]
PerDir(v) == [w \in Wheels |-> [d \in Dirs |-> v]]

Init ==
    /\ s_db_active = FALSE /\ s_db_report = FALSE /\ s_db_phase = "fwd"
    /\ s_db_start_cnt = Each(0) /\ elapsed = 0
    /\ s_db_thresh = PerDir(0) /\ s_db_found = PerDir(FALSE)
    /\ cnt = Each(0) /\ thr \in [Wheels -> 1 .. DB_MAX + 1] /\ out = Each(0)
    /\ suspended = FALSE /\ hpc = "idle" /\ given = 0 /\ peak = PerDir(0)

Abs(n) == IF n < 0 THEN -n ELSE n

-----------------------------------------------------------------------------
(* httpd                                                                     *)

Command ==
    /\ hpc = "idle" /\ given < MaxCommands /\ given' = given + 1

\* 'deadband': the gate, then the stores of control_deadband_start, the
\* activation last.
StartClear ==
    /\ Command /\ ~suspended /\ hpc' = "phase"
    /\ MayRearm \/ (~s_db_active /\ ~s_db_report /\ out = Each(0))
    /\ s_db_thresh' = PerDir(0) /\ s_db_found' = PerDir(FALSE) /\ peak' = PerDir(0)
    /\ UNCHANGED <<s_db_phase, s_db_start_cnt, flags, elapsed, plant, out, suspended>>

StartPhase ==
    /\ hpc = "phase" /\ s_db_phase' = "fwd" /\ hpc' = "t0"
    /\ UNCHANGED <<s_db_start_cnt, s_db_thresh, s_db_found, flags, elapsed, plant, out,
                   suspended, given, peak>>

StartT0 ==
    /\ hpc = "t0" /\ elapsed' = 0 /\ hpc' = "counts"
    /\ UNCHANGED <<sweep, flags, plant, out, suspended, given, peak>>

StartCounts ==
    /\ hpc = "counts" /\ s_db_start_cnt' = cnt /\ hpc' = "report"
    /\ UNCHANGED <<s_db_phase, s_db_thresh, s_db_found, flags, elapsed, plant, out,
                   suspended, given, peak>>

StartReport ==
    /\ hpc = "report" /\ s_db_report' = FALSE /\ hpc' = "active"
    /\ UNCHANGED <<sweep, s_db_active, elapsed, plant, out, suspended, given, peak>>

StartActive ==
    /\ hpc = "active" /\ s_db_active' = TRUE /\ hpc' = "idle"
    /\ UNCHANGED <<sweep, s_db_report, elapsed, plant, out, suspended, given, peak>>

Start == StartPhase \/ StartT0 \/ StartCounts \/ StartReport \/ StartActive

\* 'deadband stop'
Stop ==
    /\ Command /\ s_db_active' = FALSE
    /\ UNCHANGED <<sweep, s_db_report, elapsed, plant, out, suspended, hpc, peak>>

\* The controller is switched on, or control is stopped; and back.  Neither
\* looks at the sweep.
Suspend ==
    /\ MaySuspend /\ Command /\ suspended' = ~suspended
    /\ UNCHANGED <<sweep, flags, elapsed, plant, out, hpc, peak>>

\* 'enc reset': both counters to zero.
EncReset ==
    /\ MayReset /\ Command /\ cnt' = Each(0)
    /\ UNCHANGED <<sweep, flags, elapsed, thr, out, suspended, hpc, peak>>

-----------------------------------------------------------------------------
(* motor_task                                                                *)

\* What one tick does, at time t of the phase.
Dir == IF s_db_phase = "fwd" THEN 0 ELSE 1
Sgn == IF s_db_phase = "fwd" THEN 1 ELSE -1
Duty(t) == IF t > DB_MAX THEN DB_MAX ELSE t

Moved(w) == Abs(cnt[w] - s_db_start_cnt[w]) >= 1
Found(w) == s_db_found[w][Dir] \/ Moved(w)

\* Wrong variant of Settle: the reverse phase keeps the baseline of the first.
SettleNoBaseline(t) ==
    /\ s_db_phase = "settle"
    /\ out' = Each(0)
    /\ IF t >= DB_SETTLE
       THEN s_db_phase' = "rev" /\ elapsed' = 0
       ELSE elapsed' = t /\ UNCHANGED s_db_phase
    /\ UNCHANGED <<s_db_start_cnt, flags, s_db_thresh, s_db_found, peak>>

\* The wheels are parked, then the encoders are read afresh for the reverse phase.
Settle(t) ==
    /\ s_db_phase = "settle"
    /\ out' = Each(0)
    /\ IF t >= DB_SETTLE
       THEN s_db_phase' = "rev" /\ elapsed' = 0 /\ s_db_start_cnt' = cnt
       ELSE elapsed' = t /\ UNCHANGED <<s_db_phase, s_db_start_cnt>>
    /\ UNCHANGED <<flags, s_db_thresh, s_db_found, peak>>

\* Wrong variant of Done: the ceiling does not end a phase.
DoneFound(t) == \A w \in Wheels : Found(w)

\* A phase is over when both wheels turned or the ramp is at its ceiling.
Done(t) == (\A w \in Wheels : Found(w)) \/ Duty(t) >= DB_MAX

\* A wheel that turned keeps the duty at which it did; one that never did gets
\* the ceiling.
Latch(t) ==
    /\ s_db_found' = [w \in Wheels |-> [s_db_found[w] EXCEPT ![Dir] = Found(w)]]
    /\ s_db_thresh' = [w \in Wheels |-> [s_db_thresh[w] EXCEPT ![Dir] =
          IF s_db_found[w][Dir] THEN @
          ELSE IF Moved(w) THEN Duty(t)
          ELSE IF Done(t) THEN DB_MAX ELSE @]]

Ramp(t) ==
    /\ s_db_phase # "settle"
    /\ Latch(t)
    /\ out' = [w \in Wheels |-> IF Done(t) \/ Found(w) THEN 0 ELSE Sgn * Duty(t)]
    /\ peak' = [w \in Wheels |-> [peak[w] EXCEPT ![Dir] =
                  IF Abs(out'[w]) > @ THEN Abs(out'[w]) ELSE @]]
    /\ IF ~Done(t)
       THEN elapsed' = t /\ UNCHANGED <<s_db_phase, flags>>
       ELSE IF s_db_phase = "fwd"
       THEN s_db_phase' = "settle" /\ elapsed' = 0 /\ UNCHANGED flags
       ELSE s_db_active' = FALSE /\ s_db_report' = TRUE /\ elapsed' = t /\ UNCHANGED s_db_phase
    /\ UNCHANGED s_db_start_cnt

\* The time of this tick: no level passes within the stores of a command.
Now == IF hpc = "idle" /\ elapsed <= DB_MAX + DB_SETTLE THEN elapsed + 1 ELSE elapsed

\* One tick: the sweep, or whatever else has the wheels, which is taken to
\* leave them at rest.
Tick ==
    /\ IF s_db_active /\ ~suspended
       THEN Settle(Now) \/ Ramp(Now)
       ELSE /\ out' = Each(0) /\ elapsed' = Now
            /\ UNCHANGED <<sweep, flags, peak>>
    /\ UNCHANGED <<plant, suspended, httpd>>

\* The plant: a wheel driven hard enough turns by DB_MOVE_COUNTS, sooner or later.
Turn(w) ==
    /\ Abs(out[w]) >= thr[w]
    /\ cnt' = [cnt EXCEPT ![w] = IF out[w] > 0 THEN @ + 1 ELSE @ - 1]
    /\ Abs(cnt'[w]) <= MaxTurns
    /\ UNCHANGED <<sweep, flags, elapsed, thr, out, suspended, httpd, peak>>

\* emit_deadband_result
Emit ==
    /\ s_db_report /\ s_db_report' = FALSE
    /\ UNCHANGED <<sweep, s_db_active, elapsed, plant, out, suspended, httpd, peak>>

Next ==
    \/ StartClear \/ Start \/ Stop \/ Suspend \/ EncReset
    \/ Tick \/ Emit \/ \E w \in Wheels : Turn(w)

Spec == Init /\ [][Next]_vars

\* The loop ticks and a command once begun is carried out.
FairSpec == Spec /\ WF_vars(Tick) /\ WF_vars(Start) /\ WF_vars(Emit)

-----------------------------------------------------------------------------
TypeOK ==
    /\ s_db_active \in BOOLEAN /\ s_db_report \in BOOLEAN
    /\ s_db_phase \in {"fwd", "settle", "rev"}
    /\ s_db_start_cnt \in [Wheels -> Int] /\ cnt \in [Wheels -> Int]
    /\ elapsed \in 0 .. DB_MAX + DB_SETTLE + 1
    /\ s_db_thresh \in [Wheels -> [Dirs -> 0 .. DB_MAX]]
    /\ s_db_found \in [Wheels -> [Dirs -> BOOLEAN]]
    /\ thr \in [Wheels -> 1 .. DB_MAX + 1] /\ out \in [Wheels -> -DB_MAX .. DB_MAX]
    /\ suspended \in BOOLEAN /\ given \in 0 .. MaxCommands
    /\ hpc \in {"idle", "phase", "t0", "counts", "report", "active"}
    /\ peak \in [Wheels -> [Dirs -> 0 .. DB_MAX]]

\* "latch the duty where each wheel first turns" (control.c:198) and "never moved"
\* (control.c:339): what is reported for a wheel that moved is a duty at which that
\* wheel turns, and the ceiling is reported only for a wheel that was driven up to
\* it, in both directions ("forward then reverse", control.c:303-304).
SweepIsTruthful ==
    s_db_report =>
        \A w \in Wheels, d \in Dirs :
            IF s_db_found[w][d] THEN s_db_thresh[w][d] >= thr[w] ELSE peak[w][d] >= DB_MAX - 1

\* A sweep ends by itself, whether a wheel turns or not and whatever was reset or
\* armed again meanwhile, unless it stays suspended (control.c:339-352).
SweepEnds == s_db_active ~> (~s_db_active \/ suspended)
=============================================================================
