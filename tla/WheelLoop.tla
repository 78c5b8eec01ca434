----------------------------- MODULE WheelLoop ------------------------------
(* Who drives the wheels: one motor_task tick (control.c:477-546), one       *)
(* imu_task tick (control.c:669-713) and the commands that set the feature   *)
(* flags and setpoints from core 0 (web_server.c handle_command, the button).*)
(*                                                                           *)
(* A speed or a duty is abstracted to where it came from: "zero", "user" (a  *)
(* speed or motor command), "script" (playback) or "bal" (the balance loop). *)
(* Core 0 interleaves with the steps of a tick and each of its own writes is *)
(* a step; imu_task, below motor_task on one core, runs while that waits.    *)
EXTENDS Naturals, Sequences

LOCAL INSTANCE Functions

CONSTANTS
    NWheels,     \* wheels, set one after the other
    Clients,     \* threads of core 0 that give commands: httpd, button
    Commands,    \* commands a run uses
    MaxCommands, \* bound on commands given
    Starts       \* experiments ("exp ..." commands) a run starts in

AllCommands ==
    {"balance on", "balance off", "exp motors", "exp motor-ctrl", "exp angles",
     "exp balance", "est on", "est off", "ctrl on", "ctrl off", "speed", "stop",
     "motor", "speedseq", "motorseq", "play", "play stop", "deadband",
     "deadband stop", "button", "control stop", "control start"}

ASSUME WheelAssumption ==
    /\ NWheels \in Nat \ {0} /\ MaxCommands \in Nat
    /\ Commands \subseteq AllCommands
    /\ Starts \subseteq {"exp motors", "exp motor-ctrl", "exp angles", "exp balance"}

VARIABLES
    flag,       \* s_est_enabled, s_ctrl_enabled, s_bal_enabled, s_play_active,
                \* s_db_active, "speed": s_play_kind = PLAY_SPEED, "loaded": s_play_len > 0
    wset,       \* s_w_set: setpoint of each wheel
    cmd,        \* open-loop command of each wheel
    s_bal_w_common, s_bal_cut,
    running,    \* START_CONTROL: both tasks exist
    tilt,       \* the robot: "ok" or "over" BALANCE_MAX_TILT
    s_imu_present,
    pwm,        \* what the wheels get: "zero" or "driven"
    pi,         \* integrators of the wheel loop
    mpc, src, wheel, ctrl_was, cut_was,   \* motor_task
    ipc, pitch, out,                      \* imu_task
    todo,       \* what is left of each client's command
    given       \* commands given

motor   == <<pwm, pi, mpc, src, wheel, ctrl_was, cut_was>>
imu     == <<s_bal_w_common, s_bal_cut, ipc, pitch, out>>
robot   == <<running, tilt, s_imu_present>>
shared  == <<flag, wset, cmd>>
clients == <<todo, given>>
vars    == <<motor, imu, robot, shared, clients>>

Wheels == 0 .. NWheels - 1
Flags  == {"est", "ctrl", "bal", "play", "db", "speed", "loaded"}
AllWheels(v) == [w \in Wheels |-> v]

-----------------------------------------------------------------------------
(* Commands: each is a sequence of single writes, in the order of the code.  *)

Set(f, v)     == <<[reg |-> f, wheel |-> 0, val |-> v]>>
SetAll(r, v)  == [i \in 1 .. NWheels |-> [reg |-> r, wheel |-> i - 1, val |-> v]]
Preset(e, c, b) == Set("est", e) \o Set("ctrl", c) \o Set("bal", b)

BalanceOff == Set("bal", "off") \o SetAll("wset", "zero")

PlayStop == Set("play", "off") \o SetAll("cmd", "zero") \o SetAll("wset", "zero")

\* An uploaded script: playback_begin, the steps, playback_start.
Upload(kind) == Set("play", "off") \o Set("loaded", "off") \o Set("speed", kind)
                \o Set("loaded", "on") \o Set("play", "on")

\* The feature flags, one by one or as an experiment preset.
FlagCommand(c) ==
    CASE c \in {"balance on", "exp balance"} -> Preset("on", "on", "on")
      [] c = "balance off"    -> BalanceOff
      [] c = "exp motors"     -> Preset("off", "off", "off")
      [] c = "exp motor-ctrl" -> Preset("off", "on", "off")
      [] c = "exp angles"     -> Preset("on", "off", "off")
      [] c = "est on"         -> Set("est", "on")
      [] c = "est off"        -> Set("est", "off")
      [] c = "ctrl on"        -> Set("ctrl", "on")
      [] c = "ctrl off"       -> Set("ctrl", "off")
      [] c = "button"         -> IF flag["bal"] THEN BalanceOff ELSE Preset("on", "on", "on")

\* Manual speeds and duties.
MotorCommand(c) ==
    CASE c = "speed" -> SetAll("wset", "user")
      [] c = "motor" -> IF running THEN SetAll("cmd", "user") ELSE <<>>
      [] c = "stop"  -> SetAll("cmd", "zero") \o SetAll("wset", "zero")

\* Scripts and the sweep, gated by the mode and the experiment.
TestMotors == running /\ ~flag["est"] /\ ~flag["ctrl"]
ScriptCommand(c) ==
    CASE c = "speedseq"      -> IF running /\ flag["ctrl"] /\ ~flag["bal"]
                                THEN Upload("on") ELSE <<>>
      [] c = "motorseq"      -> IF TestMotors THEN Upload("off") ELSE <<>>
      [] c = "play"          -> IF flag["loaded"] THEN Set("play", "on") ELSE <<>>
      [] c = "play stop"     -> PlayStop
      [] c = "deadband"      -> IF TestMotors THEN Set("play", "off") \o Set("db", "on") ELSE <<>>
      [] c = "deadband stop" -> Set("db", "off") \o SetAll("cmd", "zero")

Program(c) ==
    IF c \in {"speed", "motor", "stop"} THEN MotorCommand(c)
    ELSE IF c \in {"speedseq", "motorseq", "play", "play stop", "deadband", "deadband stop"}
         THEN ScriptCommand(c) ELSE FlagCommand(c)

\* The loops have just come up, in the experiment chosen while they were stopped.
Init ==
    /\ \E k \in Starts : flag = [f \in Flags |-> Set(f, "on")[1] \in Range(Program(k))]
    /\ wset = AllWheels("zero") /\ cmd = AllWheels("zero")
    /\ s_bal_w_common = "zero" /\ s_bal_cut = FALSE
    /\ running = TRUE /\ tilt = "ok" /\ s_imu_present \in BOOLEAN
    /\ pwm = "zero" /\ pi = "clean"
    /\ mpc = "wait" /\ src = "zero" /\ wheel = 0 /\ ctrl_was = FALSE /\ cut_was = FALSE
    /\ ipc = "wait" /\ pitch = "nan" /\ out = "zero"
    /\ todo = [c \in Clients |-> <<>>] /\ given = 0

Lifecycle == {"control stop", "control start"}

\* The button task only toggles balance.
Gives(c) == Commands \ (IF c = "button" THEN AllCommands \ {"button"} ELSE {"button"})

Begin(c) ==
    /\ todo[c] = <<>> /\ given < MaxCommands
    /\ \E k \in Gives(c) \ Lifecycle : todo' = [todo EXCEPT ![c] = Program(k)]
    /\ given' = given + 1
    /\ UNCHANGED <<motor, imu, robot, shared>>

\* One write of a command.
Do(c) ==
    /\ todo[c] # <<>>
    /\ LET op == Head(todo[c]) IN
       /\ flag' = IF op.reg \in Flags THEN [flag EXCEPT ![op.reg] = (op.val = "on")] ELSE flag
       /\ wset' = IF op.reg = "wset" THEN [wset EXCEPT ![op.wheel] = op.val] ELSE wset
       /\ cmd'  = IF op.reg = "cmd"  THEN [cmd  EXCEPT ![op.wheel] = op.val] ELSE cmd
    /\ todo' = [todo EXCEPT ![c] = Tail(@)]
    /\ UNCHANGED <<motor, imu, robot, given>>

\* STOP_CONTROL and START_CONTROL as ControlLifecycle has them: both tasks leave
\* at the top of a tick with the motors parked, and come back with new locals.
ControlStop(c) ==
    /\ todo[c] = <<>> /\ given < MaxCommands /\ "control stop" \in Gives(c)
    /\ running /\ mpc = "wait" /\ ipc = "wait"
    /\ running' = FALSE /\ pwm' = "zero" /\ given' = given + 1
    /\ UNCHANGED <<pi, mpc, src, wheel, ctrl_was, cut_was,
                   imu, tilt, s_imu_present, shared, todo>>

ControlStart(c) ==
    /\ todo[c] = <<>> /\ given < MaxCommands /\ "control start" \in Gives(c)
    /\ ~running
    /\ running' = TRUE /\ given' = given + 1
    /\ ctrl_was' = FALSE /\ cut_was' = FALSE
    /\ s_imu_present' \in BOOLEAN /\ (s_imu_present => s_imu_present')
    /\ UNCHANGED <<pwm, pi, mpc, src, wheel, s_bal_w_common, s_bal_cut, ipc,
                   pitch, out, tilt, shared, todo>>

-----------------------------------------------------------------------------
(* motor_task: one tick                                                      *)

MGo(l) == mpc' = l /\ UNCHANGED <<imu, robot, clients>>

\* The controller flag decides the branch; a rising edge clears the PI.
MotorBegin ==
    /\ running /\ mpc = "wait"
    /\ pi' = IF flag["ctrl"] /\ ~ctrl_was THEN "clean" ELSE pi
    /\ MGo(IF flag["ctrl"] THEN "play" ELSE "open")
    /\ UNCHANGED <<pwm, src, wheel, ctrl_was, cut_was, shared>>

\* Setpoint source 1: a running speed script, which may be at its end.  The three
\* flags are volatile reads of one condition, taken here in one step.
MotorPlay ==
    /\ mpc = "play"
    /\ flag["play"] /\ flag["speed"] /\ ~flag["bal"]
    /\ wheel' = 0
    /\ \/ src' = "script" /\ UNCHANGED flag
       \/ src' = "zero" /\ flag' = [flag EXCEPT !["play"] = FALSE]
    /\ MGo("write")
    /\ UNCHANGED <<pwm, pi, ctrl_was, cut_was, wset, cmd>>

MotorNoPlay ==
    /\ mpc = "play"
    /\ ~(flag["play"] /\ flag["speed"] /\ ~flag["bal"])
    /\ MGo("bal")
    /\ UNCHANGED <<pwm, pi, src, wheel, ctrl_was, cut_was, shared>>

\* Source 2: the balance loop's output, or its cut.  Source 3: what is there.
MotorBal ==
    /\ mpc = "bal"
    /\ src' = s_bal_w_common /\ wheel' = 0
    /\ MGo(IF ~flag["bal"] THEN "pi" ELSE IF s_bal_cut THEN "cut" ELSE "write")
    /\ UNCHANGED <<pwm, pi, ctrl_was, cut_was, shared>>

\* Wrong variant of MotorWrite: the wheel index runs past the last wheel.
MotorWriteOverrun ==
    /\ mpc = "write"
    /\ wset' = [wset EXCEPT ![wheel] = src]
    /\ wheel' = wheel + 1
    /\ MGo(IF wheel + 1 = NWheels THEN "pi" ELSE "write")
    /\ UNCHANGED <<pwm, pi, src, ctrl_was, cut_was, flag, cmd>>

MotorWrite ==
    /\ mpc = "write"
    /\ wset' = [wset EXCEPT ![wheel] = src]
    /\ wheel' = (wheel + 1) % NWheels
    /\ MGo(IF wheel + 1 = NWheels THEN "pi" ELSE "write")
    /\ UNCHANGED <<pwm, pi, src, ctrl_was, cut_was, flag, cmd>>

\* Wrong variant of MotorCut: the PI is not reset.
MotorCutNoReset ==
    /\ mpc = "cut"
    /\ pwm' = "zero" /\ cut_was' = TRUE
    /\ MGo("out")
    /\ UNCHANGED <<pi, src, wheel, ctrl_was, shared>>

\* Wrong variant of MotorCut: the wheels keep their last command.
MotorCutNoPark ==
    /\ mpc = "cut"
    /\ pi' = IF cut_was THEN pi ELSE "clean"
    /\ cut_was' = TRUE
    /\ MGo("out")
    /\ UNCHANGED <<pwm, src, wheel, ctrl_was, shared>>

MotorCut ==
    /\ mpc = "cut"
    /\ pi' = IF cut_was THEN pi ELSE "clean"
    /\ pwm' = "zero" /\ cut_was' = TRUE
    /\ MGo("out")
    /\ UNCHANGED <<src, wheel, ctrl_was, shared>>

MotorPi ==
    /\ mpc = "pi"
    /\ pi' = "wound" /\ pwm' = "driven" /\ cut_was' = FALSE
    /\ MGo("out")
    /\ UNCHANGED <<src, wheel, ctrl_was, shared>>

\* Open loop: the deadband sweep, which may be at its end ...
MotorSweep ==
    /\ mpc = "open" /\ flag["db"]
    /\ \/ pwm' \in {"zero", "driven"} /\ UNCHANGED flag
       \/ pwm' = "zero" /\ flag' = [flag EXCEPT !["db"] = FALSE]
    /\ MGo("out")
    /\ UNCHANGED <<pi, src, wheel, ctrl_was, cut_was, wset, cmd>>

\* ... or a duty script, which parks the manual command at its end ...
DutyScript == flag["play"] /\ ~flag["speed"]

MotorDuty ==
    /\ mpc = "open" /\ ~flag["db"] /\ DutyScript
    /\ \/ pwm' = "driven" /\ UNCHANGED <<flag, cmd>>
       \/ /\ pwm' = "zero" /\ cmd' = AllWheels("zero")
          /\ flag' = [flag EXCEPT !["play"] = FALSE]
    /\ MGo("out")
    /\ UNCHANGED <<pi, src, wheel, ctrl_was, cut_was, wset>>

\* Wrong variant of MotorManual: a zero command is not sent to the H-bridge.
MotorManualSkipsZero ==
    /\ mpc = "open" /\ ~flag["db"] /\ ~DutyScript
    /\ pwm' = IF cmd = AllWheels("zero") THEN pwm ELSE "driven"
    /\ MGo("out")
    /\ UNCHANGED <<pi, src, wheel, ctrl_was, cut_was, shared>>

\* ... or the manual command.
MotorManual ==
    /\ mpc = "open" /\ ~flag["db"] /\ ~DutyScript
    /\ pwm' = IF cmd = AllWheels("zero") THEN "zero" ELSE "driven"
    /\ MGo("out")
    /\ UNCHANGED <<pi, src, wheel, ctrl_was, cut_was, shared>>

\* The edge detector is fed from a second look at the flag.
MotorEnd ==
    /\ mpc = "out"
    /\ ctrl_was' = flag["ctrl"]
    /\ MGo("wait")
    /\ UNCHANGED <<pwm, pi, src, wheel, cut_was, shared>>

MotorStep ==
    \/ MotorBegin \/ MotorPlay \/ MotorNoPlay \/ MotorBal \/ MotorWrite \/ MotorCut
    \/ MotorPi \/ MotorSweep \/ MotorDuty \/ MotorManual \/ MotorEnd

-----------------------------------------------------------------------------
(* imu_task: one tick, while motor_task waits                                *)

IGo(l) == mpc = "wait" /\ ipc' = l /\ UNCHANGED <<motor, tilt, running, shared, clients>>

\* The tilt estimate after a good sample; a bad one holds it, seeded or not.
Estimate(good) ==
    IF flag["est"] /\ s_imu_present' THEN IF good THEN tilt ELSE pitch ELSE "nan"

\* The sample (the IMU may turn out to be gone) and the tilt estimate, which may
\* also lag behind the tilt.
ImuBegin ==
    /\ running /\ ipc = "wait"
    /\ s_imu_present' \in BOOLEAN /\ (s_imu_present' => s_imu_present)
    /\ \E good \in BOOLEAN : pitch' = Estimate(good)
    /\ IGo("bal")
    /\ UNCHANGED <<s_bal_w_common, s_bal_cut, out>>

\* The balance step: a setpoint if the tilt is known and small, else a cut.
\* The PID's own integrator is not modelled: every step that is not taken, and
\* every first one, starts it from zero.
HaveTheta == s_imu_present /\ flag["est"] /\ pitch = "ok"

ImuBalance ==
    /\ ipc = "bal"
    /\ out' = IF flag["bal"] /\ HaveTheta THEN "bal" ELSE "zero"
    /\ IGo("pubW")
    /\ UNCHANGED <<s_imu_present, s_bal_w_common, s_bal_cut, pitch>>

ImuPublishW ==
    /\ ipc = "pubW"
    /\ s_bal_w_common' = out
    /\ IGo("pubCut")
    /\ UNCHANGED <<s_imu_present, s_bal_cut, pitch, out>>

\* Wrong variant of ImuPublishCut: the cut is never withdrawn.
ImuPublishCutSticky ==
    /\ ipc = "pubCut"
    /\ s_bal_cut' = (s_bal_cut \/ out = "zero")
    /\ IGo("out")
    /\ UNCHANGED <<s_imu_present, s_bal_w_common, pitch, out>>

ImuPublishCut ==
    /\ ipc = "pubCut"
    /\ s_bal_cut' = (out = "zero")
    /\ IGo("out")
    /\ UNCHANGED <<s_imu_present, s_bal_w_common, pitch, out>>

ImuEnd ==
    /\ ipc = "out"
    /\ IGo("wait")
    /\ UNCHANGED <<s_imu_present, s_bal_w_common, s_bal_cut, pitch, out>>

ImuStep == ImuBegin \/ ImuBalance \/ ImuPublishW \/ ImuPublishCut \/ ImuEnd

-----------------------------------------------------------------------------
\* The robot falls, or is stood up again.
Tilt ==
    /\ tilt' \in {"ok", "over"} \ {tilt}
    /\ UNCHANGED <<motor, imu, running, s_imu_present, shared, clients>>

Next ==
    \/ MotorStep \/ ImuStep \/ Tilt
    \/ \E c \in Clients : Begin(c) \/ Do(c) \/ ControlStop(c) \/ ControlStart(c)

Spec == Init /\ [][Next]_vars

\* The timers keep both loops ticking and a command once begun is carried out.
\* imu_task gets its turn between two ticks of motor_task, whose work takes a
\* fraction of its period: its steps are enabled again and again, not always.
\* An IMU that gives no good sample for long is declared lost, so the estimate
\* catches up or is dropped.
ImuCatchesUp == ImuBegin /\ pitch' = Estimate(TRUE)

Fairness ==
    /\ WF_vars(MotorStep) /\ SF_vars(ImuStep) /\ SF_vars(ImuCatchesUp)
    /\ \A c \in Clients : WF_vars(Do(c))

FairSpec == Spec /\ Fairness

-----------------------------------------------------------------------------
Sources == {"zero", "user", "script", "bal"}

TypeOK ==
    /\ flag \in [Flags -> BOOLEAN]
    /\ wset \in [Wheels -> Sources] /\ cmd \in [Wheels -> {"zero", "user"}]
    /\ s_bal_w_common \in {"zero", "bal"} /\ s_bal_cut \in BOOLEAN
    /\ running \in BOOLEAN /\ tilt \in {"ok", "over"} /\ s_imu_present \in BOOLEAN
    /\ pwm \in {"zero", "driven"}
    /\ pi \in {"clean", "wound"}
    /\ mpc \in {"wait", "play", "bal", "write", "cut", "pi", "open", "out"}
    /\ src \in {"zero", "script", "bal"} /\ wheel \in Wheels
    /\ ctrl_was \in BOOLEAN /\ cut_was \in BOOLEAN
    /\ ipc \in {"wait", "bal", "pubW", "pubCut", "out"}
    /\ pitch \in {"nan", "ok", "over"} /\ out \in {"zero", "bal"}
    /\ given \in 0 .. MaxCommands

\* "On a balance cut, zero the wheels and reset the PI once so it doesn't wind
\* up while parked" (control.c:493-494): from the first tick of a cut to the
\* next tick that drives, across any commands, the integrator stays empty.
CutKeepsClean == cut_was => pi = "clean"

\* A robot that has fallen, lost its IMU or lost its estimate is parked and
\* stays parked while the balance loop is in charge (control.c:684-685, 511-514).
FallenIsParked ==
    <>[](running /\ flag["ctrl"] /\ flag["bal"]
         /\ (tilt = "over" \/ ~s_imu_present \/ ~flag["est"]))
        => <>[](pwm = "zero")

\* Standing up with all three loops on, the balance loop gets the wheels and
\* keeps them, whatever cut, script or command came before (control.c:489-524).
BalanceTakesOver ==
    <>[](running /\ flag["est"] /\ flag["ctrl"] /\ flag["bal"] /\ tilt = "ok" /\ s_imu_present)
        => <>[](wset = AllWheels("bal") /\ pwm = "driven")

\* In open loop, with no sweep and no script, the manual command has the wheels in
\* the end, whatever had them before: they rest when it is zero and turn when it is
\* not, a command given long ago included (control.c:527-542).
OpenLoopObeys ==
    \A v \in {"zero", "user"} :
        <>[](running /\ ~flag["ctrl"] /\ ~flag["db"] /\ ~DutyScript /\ cmd = AllWheels(v))
            => <>[](pwm = IF v = "zero" THEN "zero" ELSE "driven")

\* Nobody is in the middle of a command or of a tick.
Settled == mpc = "wait" /\ \A c \in Clients : todo[c] = <<>>

\* Turning balance off drops "the setpoint the balancer owned" (control.c:987-989,
\* web_server.c:196), and without script or balance "the last 'speed' command
\* persists" (control.c:492): no setpoint of the balance loop outlives it.
BalancerLetsGo ==
    Settled /\ ~flag["bal"] => \A w \in Wheels : wset[w] # "bal"
=============================================================================
