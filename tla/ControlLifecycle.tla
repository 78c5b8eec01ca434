-------------------------- MODULE ControlLifecycle --------------------------
(* The START_CONTROL / STOP_CONTROL lifecycle of the two real-time tasks     *)
(* (control.c), the boot order (app_main.c) and the OTA gate (web_server.c). *)
(*                                                                           *)
(* Four actors interleave: app_main and the httpd task on core 0, which both *)
(* call control_set_mode; motor_task and imu_task on core 1, woken by the    *)
(* alarm ISRs of two GPTimers.  A second motor_task can exist when START is  *)
(* taken twice, so tasks are instances drawn from a finite pool and the      *)
(* handles s_motor_task / s_imu_task name the instance last created.         *)
EXTENDS Naturals

CONSTANTS
    MotorTasks,   \* pool of motor_task instances
    ImuTasks,     \* pool of imu_task instances
    NoTask,       \* a NULL task handle
    BusMayHang,   \* the first i2c_scan may outlast the 200 x 2 ms stop wait
    EarlyClient   \* a request may reach httpd before app_main has returned

ASSUME LifecycleAssumption ==
    /\ NoTask \notin MotorTasks /\ NoTask \notin ImuTasks
    /\ MotorTasks \cap ImuTasks = {}
    /\ BusMayHang \in BOOLEAN /\ EarlyClient \in BOOLEAN

VARIABLES
    pc,             \* control point of each core-0 thread
    s_mode,         \* lifecycle mode reported by control_mode()
    s_stop_req,     \* both loops are asked to exit
    s_motor_task,   \* handle the motor alarm ISR notifies
    s_imu_task,     \* handle the imu alarm ISR notifies
    mpc,            \* control point of each motor_task instance
    ipc,            \* control point of each imu_task instance
    notified,       \* task notification pending
    s_timer,        \* 500 Hz GPTimer
    s_imu_timer,    \* 250 Hz GPTimer
    busUp,          \* i2c_init has taken the I2C port
    s_periph_ready, \* peripherals brought up
    s_imu_present,  \* the IMU answered its last probe and has not been lost
    pwm,            \* what the H-bridge is told
    panicked        \* an ESP_ERROR_CHECK failed: abort, then reset

core0 == <<pc, s_mode, s_stop_req>>
tasks == <<s_motor_task, s_imu_task, mpc, ipc, notified>>
hw    == <<s_timer, s_imu_timer, busUp, s_periph_ready, s_imu_present, pwm>>
vars  == <<core0, tasks, hw, panicked>>

Threads   == {"app", "httpd"}
ThreadPC  == {"boot", "webUp", "done", "down", "idle", "arm", "spawn",
              "stopWait", "otaRecv", "restart"}
BringUp   == {"entry", "scan", "probe", "spawnImu", "startImuTimer", "startTimer"}
MotorPC   == {"none", "wait", "tick", "stopTimer", "park", "leave"} \cup BringUp
ImuPC     == {"none", "wait", "tick", "stopTimer", "leave"}
TimerState == {"absent", "stopped", "running"}

Init ==
    /\ pc = [c \in Threads |-> IF c = "app" THEN "boot" ELSE "down"]
    /\ s_mode = "STOP" /\ s_stop_req = FALSE
    /\ s_motor_task = NoTask /\ s_imu_task = NoTask
    /\ mpc = [t \in MotorTasks |-> "none"]
    /\ ipc = [i \in ImuTasks |-> "none"]
    /\ notified = [t \in MotorTasks \cup ImuTasks |-> FALSE]
    /\ s_timer = "absent" /\ s_imu_timer = "absent"
    /\ busUp = FALSE /\ s_periph_ready = FALSE /\ s_imu_present = FALSE
    /\ pwm = "off" /\ panicked = FALSE

Goto(c, l)  == pc' = [pc EXCEPT ![c] = l]
MGoto(t, l) == mpc' = [mpc EXCEPT ![t] = l]
IGoto(i, l) == ipc' = [ipc EXCEPT ![i] = l]

\* ESP_ERROR_CHECK: abort unless ok.
EspErrorCheck(ok) == panicked' = ~ok

\* Where the caller of control_set_mode goes on return.
Return(c) == Goto(c, IF c = "app" THEN "done" ELSE "idle")

-----------------------------------------------------------------------------
(* Core 0: boot and the lifecycle commands                                   *)

\* app_main: softAP and web server come up before the control loops.
StartWebserver ==
    /\ ~panicked /\ pc["app"] = "boot"
    /\ pc' = [pc EXCEPT !["app"] = "webUp", !["httpd"] = "idle"]
    /\ UNCHANGED <<s_mode, s_stop_req, tasks, hw, panicked>>

\* A thread is about to make a lifecycle call: app_main once, from
\* control_start; httpd for each request, which reaches it early or not.
MayCall(c) ==
    \/ c = "app" /\ pc[c] = "webUp"
    \/ c = "httpd" /\ pc[c] = "idle" /\ (EarlyClient \/ pc["app"] = "done")

\* Wrong variant of StartCheck: no "already running" return.
StartCheckAlways(c) ==
    /\ ~panicked /\ MayCall(c)
    /\ Goto(c, "arm")
    /\ UNCHANGED <<s_mode, s_stop_req, tasks, hw, panicked>>

\* control_set_mode(START_CONTROL): read the mode, then set it, then create the
\* task.  Nothing holds a lock between the three.
StartCheck(c) ==
    /\ ~panicked /\ MayCall(c)
    /\ IF s_mode = "START" THEN Return(c) ELSE Goto(c, "arm")
    /\ UNCHANGED <<s_mode, s_stop_req, tasks, hw, panicked>>

StartArm(c) ==
    /\ ~panicked /\ pc[c] = "arm"
    /\ s_stop_req' = FALSE /\ s_mode' = "START"
    /\ Goto(c, "spawn")
    /\ UNCHANGED <<tasks, hw, panicked>>

\* xTaskCreate stores the handle before the new task can run.
StartSpawn(c) ==
    /\ ~panicked /\ pc[c] = "spawn"
    /\ \E t \in MotorTasks :
          /\ mpc[t] = "none"
          /\ MGoto(t, "entry")
          /\ s_motor_task' = t
          /\ notified' = [notified EXCEPT ![t] = FALSE]
    /\ Return(c)
    /\ UNCHANGED <<s_mode, s_stop_req, s_imu_task, ipc, hw, panicked>>

\* control_set_mode(STOP_CONTROL): raise the request ...
StopRaise ==
    /\ ~panicked /\ MayCall("httpd") /\ s_mode = "START"
    /\ s_stop_req' = TRUE
    /\ Goto("httpd", "stopWait")
    /\ UNCHANGED <<s_mode, tasks, hw, panicked>>

StopReturn ==
    /\ s_stop_req' = FALSE /\ s_mode' = "STOP"
    /\ Goto("httpd", "idle")
    /\ UNCHANGED <<tasks, hw, panicked>>

\* Wrong variant of StopSeesBothGone: the poll watches one handle only.
StopSeesMotorGone ==
    /\ ~panicked /\ pc["httpd"] = "stopWait"
    /\ s_motor_task = NoTask
    /\ StopReturn

\* ... and return once the poll sees both handles cleared ...
StopSeesBothGone ==
    /\ ~panicked /\ pc["httpd"] = "stopWait"
    /\ s_motor_task = NoTask /\ s_imu_task = NoTask
    /\ StopReturn

\* ... or when the 200 polls run out.  A loop that is asked to exit does so
\* within a tick or two, far inside the wait: it runs out only while the
\* first bring-up scans a hung bus, or when another thread withdrew the request.
StopGivesUp ==
    /\ ~panicked /\ pc["httpd"] = "stopWait"
    /\ s_motor_task # NoTask \/ s_imu_task # NoTask
    /\ \/ BusMayHang /\ \E t \in MotorTasks : mpc[t] = "scan"
       \/ ~s_stop_req
    /\ StopReturn

\* Wrong variant of OtaGate: the upload is accepted in either mode.
OtaGateOpen ==
    /\ ~panicked /\ MayCall("httpd")
    /\ Goto("httpd", "otaRecv")
    /\ UNCHANGED <<s_mode, s_stop_req, tasks, hw, panicked>>

\* POST /ota: the gate, the receive/write loop, and its two ends.
OtaGate ==
    /\ ~panicked /\ MayCall("httpd") /\ s_mode = "STOP"
    /\ Goto("httpd", "otaRecv")
    /\ UNCHANGED <<s_mode, s_stop_req, tasks, hw, panicked>>

OtaEnd ==
    /\ ~panicked /\ pc["httpd"] = "otaRecv"
    /\ \E l \in {"idle", "restart"} : Goto("httpd", l)
    /\ UNCHANGED <<s_mode, s_stop_req, tasks, hw, panicked>>

\* The rollback command, accepted in either mode.
Rollback ==
    /\ ~panicked /\ MayCall("httpd")
    /\ Goto("httpd", "restart")
    /\ UNCHANGED <<s_mode, s_stop_req, tasks, hw, panicked>>

\* esp_restart, or the reset that follows an abort: everything starts afresh.
Reboot ==
    /\ panicked \/ pc["httpd"] = "restart"
    /\ pc' = [c \in Threads |-> IF c = "app" THEN "boot" ELSE "down"]
    /\ s_mode' = "STOP" /\ s_stop_req' = FALSE
    /\ s_motor_task' = NoTask /\ s_imu_task' = NoTask
    /\ mpc' = [t \in MotorTasks |-> "none"]
    /\ ipc' = [i \in ImuTasks |-> "none"]
    /\ notified' = [t \in MotorTasks \cup ImuTasks |-> FALSE]
    /\ s_timer' = "absent" /\ s_imu_timer' = "absent"
    /\ busUp' = FALSE /\ s_periph_ready' = FALSE /\ s_imu_present' = FALSE
    /\ pwm' = "off" /\ panicked' = FALSE

-----------------------------------------------------------------------------
(* Core 1: motor_task                                                        *)

\* First start: encoders, motors (parked) and the I2C port, which can be taken
\* once; a restart goes straight to the IMU probe.
MotorEntry(t) ==
    /\ ~panicked /\ mpc[t] = "entry"
    /\ IF s_periph_ready
       THEN MGoto(t, "probe") /\ UNCHANGED <<busUp, pwm, panicked>>
       ELSE /\ MGoto(t, "scan")
            /\ pwm' = "off" /\ busUp' = TRUE
            /\ EspErrorCheck(~busUp)
    /\ UNCHANGED <<core0, s_motor_task, s_imu_task, ipc, notified,
                   s_timer, s_imu_timer, s_periph_ready, s_imu_present>>

MotorScanned(t) ==
    /\ ~panicked /\ mpc[t] = "scan"
    /\ s_periph_ready' = TRUE
    /\ MGoto(t, "probe")
    /\ UNCHANGED <<core0, s_motor_task, s_imu_task, ipc, notified,
                   s_timer, s_imu_timer, busUp, s_imu_present, pwm, panicked>>

\* A missing IMU is probed again on every start.
MotorProbe(t) ==
    /\ ~panicked /\ mpc[t] = "probe"
    /\ \/ s_imu_present /\ UNCHANGED s_imu_present
       \/ ~s_imu_present /\ s_imu_present' \in BOOLEAN
    /\ MGoto(t, "spawnImu")
    /\ UNCHANGED <<core0, s_motor_task, s_imu_task, ipc, notified,
                   s_timer, s_imu_timer, busUp, s_periph_ready, pwm, panicked>>

MotorSpawnImu(t) ==
    /\ ~panicked /\ mpc[t] = "spawnImu"
    /\ \E i \in ImuTasks :
          /\ ipc[i] = "none"
          /\ IGoto(i, "wait")
          /\ s_imu_task' = i
          /\ notified' = [notified EXCEPT ![i] = FALSE]
    /\ MGoto(t, "startImuTimer")
    /\ UNCHANGED <<core0, s_motor_task, hw, panicked>>

\* start_timer, or gptimer_start on the existing timer: starting a running
\* timer is ESP_ERR_INVALID_STATE, and ESP_ERROR_CHECK aborts.
MotorStartImuTimer(t) ==
    /\ ~panicked /\ mpc[t] = "startImuTimer"
    /\ EspErrorCheck(s_imu_timer # "running")
    /\ s_imu_timer' = "running"
    /\ MGoto(t, "startTimer")
    /\ UNCHANGED <<core0, s_motor_task, s_imu_task, ipc, notified,
                   s_timer, busUp, s_periph_ready, s_imu_present, pwm>>

\* Wrong variant of MotorStartTimer: an existing timer is not started again.
MotorStartTimerOnce(t) ==
    /\ ~panicked /\ mpc[t] = "startTimer"
    /\ EspErrorCheck(s_timer # "running")
    /\ s_timer' = IF s_timer = "absent" THEN "running" ELSE s_timer
    /\ MGoto(t, "wait")
    /\ UNCHANGED <<core0, s_motor_task, s_imu_task, ipc, notified,
                   s_imu_timer, busUp, s_periph_ready, s_imu_present, pwm>>

MotorStartTimer(t) ==
    /\ ~panicked /\ mpc[t] = "startTimer"
    /\ EspErrorCheck(s_timer # "running")
    /\ s_timer' = "running"
    /\ MGoto(t, "wait")
    /\ UNCHANGED <<core0, s_motor_task, s_imu_task, ipc, notified,
                   s_imu_timer, busUp, s_periph_ready, s_imu_present, pwm>>

\* The alarm ISR wakes whichever task the handle names, if any.
MotorAlarm ==
    /\ ~panicked /\ s_timer = "running" /\ s_motor_task # NoTask
    /\ notified' = [notified EXCEPT ![s_motor_task] = TRUE]
    /\ UNCHANGED <<core0, s_motor_task, s_imu_task, mpc, ipc, hw, panicked>>

MotorTake(t) ==
    /\ ~panicked /\ mpc[t] = "wait" /\ notified[t]
    /\ notified' = [notified EXCEPT ![t] = FALSE]
    /\ MGoto(t, IF s_stop_req THEN "stopTimer" ELSE "tick")
    /\ UNCHANGED <<core0, s_motor_task, s_imu_task, ipc, hw, panicked>>

\* The rest of the tick, up to motor_set; what it commands is not modelled here.
MotorTick(t) ==
    /\ ~panicked /\ mpc[t] = "tick"
    /\ pwm' \in {"off", "driving"}
    /\ MGoto(t, "wait")
    /\ UNCHANGED <<core0, s_motor_task, s_imu_task, ipc, notified,
                   s_timer, s_imu_timer, busUp, s_periph_ready, s_imu_present, panicked>>

\* Wrong variant of MotorStopTimer: the handle is cleared before the park.
MotorStopTimerClears(t) ==
    /\ ~panicked /\ mpc[t] = "stopTimer"
    /\ EspErrorCheck(s_timer = "running")
    /\ s_timer' = "stopped" /\ s_motor_task' = NoTask
    /\ MGoto(t, "park")
    /\ UNCHANGED <<core0, s_imu_task, ipc, notified,
                   s_imu_timer, busUp, s_periph_ready, s_imu_present, pwm>>

\* The way out: stop the timer, park the motors, clear the handle and go.
MotorStopTimer(t) ==
    /\ ~panicked /\ mpc[t] = "stopTimer"
    /\ EspErrorCheck(s_timer = "running")
    /\ s_timer' = "stopped"
    /\ MGoto(t, "park")
    /\ UNCHANGED <<core0, s_motor_task, s_imu_task, ipc, notified,
                   s_imu_timer, busUp, s_periph_ready, s_imu_present, pwm>>

MotorPark(t) ==
    /\ ~panicked /\ mpc[t] = "park"
    /\ pwm' = "off"
    /\ MGoto(t, "leave")
    /\ UNCHANGED <<core0, s_motor_task, s_imu_task, ipc, notified,
                   s_timer, s_imu_timer, busUp, s_periph_ready, s_imu_present, panicked>>

MotorLeave(t) ==
    /\ ~panicked /\ mpc[t] = "leave"
    /\ s_motor_task' = NoTask
    /\ MGoto(t, "none")
    /\ UNCHANGED <<core0, s_imu_task, ipc, notified, hw, panicked>>

MotorStep(t) ==
    \/ MotorEntry(t) \/ MotorScanned(t) \/ MotorProbe(t) \/ MotorSpawnImu(t)
    \/ MotorStartImuTimer(t) \/ MotorStartTimer(t)
    \/ MotorTake(t) \/ MotorTick(t)
    \/ MotorStopTimer(t) \/ MotorPark(t) \/ MotorLeave(t)

-----------------------------------------------------------------------------
(* Core 1: imu_task                                                          *)

ImuAlarm ==
    /\ ~panicked /\ s_imu_timer = "running" /\ s_imu_task # NoTask
    /\ notified' = [notified EXCEPT ![s_imu_task] = TRUE]
    /\ UNCHANGED <<core0, s_motor_task, s_imu_task, mpc, ipc, hw, panicked>>

ImuTake(i) ==
    /\ ~panicked /\ ipc[i] = "wait" /\ notified[i]
    /\ notified' = [notified EXCEPT ![i] = FALSE]
    /\ IGoto(i, IF s_stop_req THEN "stopTimer" ELSE "tick")
    /\ UNCHANGED <<core0, s_motor_task, s_imu_task, mpc, hw, panicked>>

\* A tick reads the sensor and may find it gone.
ImuTick(i) ==
    /\ ~panicked /\ ipc[i] = "tick"
    /\ s_imu_present' \in BOOLEAN /\ (s_imu_present' => s_imu_present)
    /\ IGoto(i, "wait")
    /\ UNCHANGED <<core0, s_motor_task, s_imu_task, mpc, notified,
                   s_timer, s_imu_timer, busUp, s_periph_ready, pwm, panicked>>

\* Wrong variant of ImuStopTimer: the timer is left running.
ImuStopTimerForgets(i) ==
    /\ ~panicked /\ ipc[i] = "stopTimer"
    /\ IGoto(i, "leave")
    /\ UNCHANGED <<core0, s_motor_task, s_imu_task, mpc, notified, hw, panicked>>

ImuStopTimer(i) ==
    /\ ~panicked /\ ipc[i] = "stopTimer"
    /\ EspErrorCheck(s_imu_timer = "running")
    /\ s_imu_timer' = "stopped"
    /\ IGoto(i, "leave")
    /\ UNCHANGED <<core0, s_motor_task, s_imu_task, mpc, notified,
                   s_timer, busUp, s_periph_ready, s_imu_present, pwm>>

\* Wrong variant of ImuLeave: the handle is not cleared.
ImuLeaveKeepsHandle(i) ==
    /\ ~panicked /\ ipc[i] = "leave"
    /\ IGoto(i, "none")
    /\ UNCHANGED <<core0, s_motor_task, s_imu_task, mpc, notified, hw, panicked>>

ImuLeave(i) ==
    /\ ~panicked /\ ipc[i] = "leave"
    /\ s_imu_task' = NoTask
    /\ IGoto(i, "none")
    /\ UNCHANGED <<core0, s_motor_task, mpc, notified, hw, panicked>>

ImuStep(i) == ImuTake(i) \/ ImuTick(i) \/ ImuStopTimer(i) \/ ImuLeave(i)

-----------------------------------------------------------------------------
StartStep(c) == StartArm(c) \/ StartSpawn(c)
StopStep     == StopSeesBothGone \/ StopGivesUp

Core0Step ==
    \/ StartWebserver
    \/ \E c \in Threads : StartCheck(c) \/ StartStep(c)
    \/ StopRaise \/ StopStep
    \/ OtaGate \/ OtaEnd \/ Rollback

Core1Step ==
    \/ MotorAlarm \/ ImuAlarm
    \/ \E t \in MotorTasks : MotorStep(t)
    \/ \E i \in ImuTasks : ImuStep(i)

Next == Core0Step \/ Core1Step \/ Reboot

Spec == Init /\ [][Next]_vars

\* The scheduler runs every ready task, timers keep firing, calls that were
\* begun are carried on.  Requests from the network are under no obligation.
Fairness ==
    /\ WF_vars(StartWebserver)
    /\ WF_vars(pc["app"] = "webUp" /\ StartCheck("app"))
    /\ \A c \in Threads : WF_vars(StartStep(c))
    /\ WF_vars(StopStep)
    /\ WF_vars(MotorAlarm) /\ WF_vars(ImuAlarm)
    /\ \A t \in MotorTasks : WF_vars(MotorStep(t))
    /\ \A i \in ImuTasks : WF_vars(ImuStep(i))
    /\ WF_vars(Reboot)

FairSpec == Spec /\ Fairness

-----------------------------------------------------------------------------
(* Properties                                                                *)

ThreadTypes ==
    /\ pc \in [Threads -> ThreadPC]
    /\ s_mode \in {"STOP", "START"} /\ s_stop_req \in BOOLEAN
TaskTypes ==
    /\ s_motor_task \in MotorTasks \cup {NoTask}
    /\ s_imu_task \in ImuTasks \cup {NoTask}
    /\ mpc \in [MotorTasks -> MotorPC]
    /\ ipc \in [ImuTasks -> ImuPC]
    /\ notified \in [MotorTasks \cup ImuTasks -> BOOLEAN]
HardwareTypes ==
    /\ s_timer \in TimerState /\ s_imu_timer \in TimerState
    /\ busUp \in BOOLEAN /\ s_periph_ready \in BOOLEAN /\ s_imu_present \in BOOLEAN
    /\ pwm \in {"off", "driving"} /\ panicked \in BOOLEAN

TypeOK == ThreadTypes /\ TaskTypes /\ HardwareTypes

Parked ==
    /\ \A t \in MotorTasks : mpc[t] = "none"
    /\ \A i \in ImuTasks : ipc[i] = "none"
    /\ s_timer # "running" /\ s_imu_timer # "running"
    /\ pwm = "off"

\* STOP_CONTROL: "both tasks fully stopped (deleted, not suspended), motors
\* off" (control.h:18), and "callers know control stopped on return"
\* (control.c:1074): whenever the mode reads STOP both tasks are gone, both
\* timers are stopped and the motors are parked.
StopMeansGone == s_mode = "STOP" => Parked

\* The OTA gate (web_server.c:568): while firmware is being written, no control
\* task runs and the motors are parked, from the gate to the end of the upload.
FlashOnlyParked == pc["httpd"] = "otaRecv" => Parked

\* One motor_task and one imu_task at a time, each the one its handle names:
\* the ISRs never wake a task other than the live one (control.c:408, 1069).
OneOwner ==
    /\ \A t \in MotorTasks : mpc[t] # "none" <=> s_motor_task = t
    /\ \A i \in ImuTasks : ipc[i] # "none" <=> s_imu_task = i

\* "on_motor_alarm never notifies a NULL handle", nor a deleted task
\* (control.c:594, 1069): a handle the ISRs may use always names a live task,
\* whatever the interleaving of starts and stops.
HandlesLive ==
    /\ s_motor_task # NoTask => mpc[s_motor_task] # "none"
    /\ s_imu_task # NoTask => ipc[s_imu_task] # "none"

\* No ESP_ERROR_CHECK on the lifecycle path fails: a timer is never started
\* while it runs nor stopped while it does not, and the I2C port is taken once
\* (control.c:416-419, 596, 723; imu.c:106).
NoPanic == ~panicked

\* START_CONTROL leads to two running loops, or to a stop or reset that came
\* first: nothing in the bring-up can leave a started system without its loops.
LoopsUp ==
    \E t \in MotorTasks, i \in ImuTasks :
        /\ mpc[t] \in {"wait", "tick"} /\ s_motor_task = t /\ s_timer = "running"
        /\ ipc[i] \in {"wait", "tick"} /\ s_imu_task = i /\ s_imu_timer = "running"
StartLeadsToLoops ==
    (s_mode = "START") ~> (LoopsUp \/ s_mode = "STOP" \/ s_stop_req)

-----------------------------------------------------------------------------
(* Why the safety properties hold when bring-up fits the stop wait and no     *)
(* request comes before app_main is done: an inductive invariant.             *)

\* A control point of the one motor_task instance its handle names.
MotorAt(S) == s_motor_task # NoTask /\ mpc[s_motor_task] \in S
ImuAt(S)   == s_imu_task # NoTask /\ ipc[s_imu_task] \in S

\* The core-0 threads: which points each can be at, and what the mode and the
\* stop request are there.
ThreadsInv ==
    /\ pc["app"] \in {"boot", "webUp", "arm", "spawn", "done"}
    /\ pc["httpd"] \notin {"boot", "webUp", "done"}
    /\ pc["httpd"] = "down" <=> pc["app"] = "boot"
    /\ pc["app"] \in {"webUp", "arm", "spawn"} => pc["httpd"] = "idle"
    /\ pc["app"] \in {"boot", "webUp"} => s_mode = "STOP"
    /\ \A c \in Threads : pc[c] = "arm" => s_mode = "STOP"
    /\ \A c \in Threads : pc[c] = "spawn" => s_mode = "START"
    /\ pc["httpd"] = "otaRecv" => s_mode = "STOP"
    /\ pc["httpd"] = "stopWait" => s_mode = "START"
    /\ s_stop_req <=> pc["httpd"] = "stopWait"

\* Nothing runs while stopped, nor between setting the mode and creating a task.
QuietInv ==
    (s_mode = "STOP" \/ \E c \in Threads : pc[c] = "spawn") =>
        s_motor_task = NoTask /\ s_imu_task = NoTask

\* A timer runs exactly while the task it wakes is in its loop or about to
\* stop it; the IMU timer's task is there before the timer.
TimerInv ==
    /\ s_timer = "running" <=> MotorAt({"wait", "tick", "stopTimer"})
    /\ s_imu_timer = "running" => ImuAt({"wait", "tick", "stopTimer"})
    /\ ImuAt({"tick", "stopTimer"}) => s_imu_timer = "running"
    /\ ImuAt({"wait"}) /\ notified[s_imu_task] => s_imu_timer = "running"
    /\ MotorAt({"entry", "scan", "probe", "spawnImu"}) => s_imu_task = NoTask
    /\ MotorAt({"startImuTimer"}) => ImuAt({"wait"}) /\ s_imu_timer # "running"

\* The I2C port is taken by the one first start; the wheels turn only between
\* the first tick and the park.
HardwareInv ==
    /\ busUp /\ ~s_periph_ready => MotorAt({"scan"})
    /\ pwm = "driving" => MotorAt({"wait", "tick", "stopTimer", "park"})

\* The inductive invariant of the lifecycle under a bounded bring-up and no
\* early client (control.c:384-601, 1061-1084): threads, tasks, timers and
\* hardware agree at every step, not only where a caller can look.
IInv == TypeOK /\ NoPanic /\ ThreadsInv /\ QuietInv /\ OneOwner /\ TimerInv /\ HardwareInv

\* The detailed lifecycle implements the contract its callers rely on.
Contract == INSTANCE ControlContract WITH
    phase  <- IF pc["httpd"] = "otaRecv" THEN "flashing"
              ELSE IF s_mode = "START" THEN "running" ELSE "stopped",
    moving <- (pwm = "driving")
ImplementsContract == Contract!CSpec
=============================================================================
