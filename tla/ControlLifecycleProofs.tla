----------------------- MODULE ControlLifecycleProofs -----------------------
(* Proofs about ControlLifecycle for any pool of task instances.             *)
EXTENDS ControlLifecycle, TLAPS

USE DEF Threads, NoPanic

\* At power-up, before app_main runs, every variable has its type.
LEMMA InitTypeOK == Init => TypeOK
<1>1. Init => ThreadTypes
  BY DEF Init, ThreadTypes, ThreadPC
<1>2. Init => TaskTypes
  BY DEF Init, TaskTypes, MotorPC, ImuPC
<1>3. Init => HardwareTypes
  BY DEF Init, HardwareTypes, TimerState
<1> QED
  BY <1>1, <1>2, <1>3 DEF TypeOK

\* At power-up neither task exists and nothing is armed, so the inductive
\* invariant holds (control.c:165-180).
LEMMA InitIInv == Init => IInv
<1>1. Init => ThreadsInv /\ QuietInv /\ OneOwner
  BY LifecycleAssumption DEF Init, ThreadsInv, QuietInv, OneOwner
<1>2. Init => NoPanic /\ TimerInv /\ HardwareInv
  BY DEF Init, TimerInv, HardwareInv, MotorAt, ImuAt
<1> QED
  BY InitTypeOK, <1>1, <1>2 DEF IInv

\* With a bring-up that fits the stop wait and no request before app_main has
\* returned, every step of the two cores keeps the inductive invariant.
LEMMA StepIInv ==
  ASSUME ~BusMayHang, ~EarlyClient, IInv, [Next]_vars
  PROVE  IInv'
<1> USE LifecycleAssumption DEF IInv, TypeOK, ThreadTypes, TaskTypes, HardwareTypes, ThreadPC,
            ThreadsInv, QuietInv, OneOwner, TimerInv, HardwareInv,
            MotorAt, ImuAt, MotorPC, ImuPC, BringUp, TimerState,
            core0, tasks, hw, Goto, MGoto, IGoto, Return, MayCall, EspErrorCheck
<1>1. CASE StartWebserver  BY <1>1 DEF StartWebserver
<1>2. ASSUME NEW c \in Threads, StartCheck(c) PROVE IInv'  BY <1>2 DEF StartCheck
<1>3. ASSUME NEW c \in Threads, StartArm(c) PROVE IInv'  BY <1>3 DEF StartArm
<1>4. ASSUME NEW c \in Threads, StartSpawn(c) PROVE IInv'  BY <1>4 DEF StartSpawn
<1>5. CASE StopRaise  BY <1>5 DEF StopRaise
<1>6. CASE StopSeesBothGone  BY <1>6 DEF StopSeesBothGone, StopReturn
<1>7. CASE StopGivesUp  BY <1>7 DEF StopGivesUp
<1>8. CASE OtaGate  BY <1>8 DEF OtaGate
<1>9. CASE OtaEnd  BY <1>9 DEF OtaEnd
<1>10. CASE Rollback  BY <1>10 DEF Rollback
<1>11. CASE Reboot  BY <1>11 DEF Reboot
<1>20. ASSUME NEW t \in MotorTasks, MotorEntry(t) PROVE IInv'
  <2>1. CASE s_periph_ready
    BY <1>20, <2>1 DEF MotorEntry
  <2>2. CASE ~s_periph_ready
    <3>1. ~busUp
      BY <1>20, <2>2 DEF MotorEntry
    <3> QED
      BY <1>20, <2>2, <3>1 DEF MotorEntry
  <2> QED
    BY <2>1, <2>2
<1>21. ASSUME NEW t \in MotorTasks, MotorScanned(t) PROVE IInv'  BY <1>21 DEF MotorScanned
<1>22. ASSUME NEW t \in MotorTasks, MotorProbe(t) PROVE IInv'  BY <1>22 DEF MotorProbe
<1>23. ASSUME NEW t \in MotorTasks, MotorSpawnImu(t) PROVE IInv'  BY <1>23 DEF MotorSpawnImu
<1>24. ASSUME NEW t \in MotorTasks, MotorStartImuTimer(t) PROVE IInv'
  BY <1>24 DEF MotorStartImuTimer
<1>25. ASSUME NEW t \in MotorTasks, MotorStartTimer(t) PROVE IInv'
  BY <1>25 DEF MotorStartTimer
<1>26. CASE MotorAlarm  BY <1>26 DEF MotorAlarm
<1>27. ASSUME NEW t \in MotorTasks, MotorTake(t) PROVE IInv'  BY <1>27 DEF MotorTake
<1>28. ASSUME NEW t \in MotorTasks, MotorTick(t) PROVE IInv'  BY <1>28 DEF MotorTick
<1>29. ASSUME NEW t \in MotorTasks, MotorStopTimer(t) PROVE IInv'  BY <1>29 DEF MotorStopTimer
<1>30. ASSUME NEW t \in MotorTasks, MotorPark(t) PROVE IInv'  BY <1>30 DEF MotorPark
<1>31. ASSUME NEW t \in MotorTasks, MotorLeave(t) PROVE IInv'  BY <1>31 DEF MotorLeave
<1>40. CASE ImuAlarm  BY <1>40 DEF ImuAlarm
<1>41. ASSUME NEW i \in ImuTasks, ImuTake(i) PROVE IInv'  BY <1>41 DEF ImuTake
<1>42. ASSUME NEW i \in ImuTasks, ImuTick(i) PROVE IInv'  BY <1>42 DEF ImuTick
<1>43. ASSUME NEW i \in ImuTasks, ImuStopTimer(i) PROVE IInv'  BY <1>43 DEF ImuStopTimer
<1>44. ASSUME NEW i \in ImuTasks, ImuLeave(i) PROVE IInv'  BY <1>44 DEF ImuLeave
<1>50. CASE UNCHANGED vars  BY <1>50 DEF vars
<1> QED
  BY <1>1, <1>2, <1>3, <1>4, <1>5, <1>6, <1>7, <1>8, <1>9, <1>10, <1>11,
     <1>20, <1>21, <1>22, <1>23, <1>24, <1>25, <1>26, <1>27, <1>28, <1>29,
     <1>30, <1>31, <1>40, <1>41, <1>42, <1>43, <1>44, <1>50
  DEF Next, Core0Step, Core1Step, StartStep, StopStep, MotorStep, ImuStep

\* Between a stop and the next start, and through an upload, nothing runs.
LEMMA IInvImpliesSafety == IInv => StopMeansGone /\ FlashOnlyParked /\ OneOwner
<1> SUFFICES ASSUME IInv PROVE StopMeansGone /\ FlashOnlyParked /\ OneOwner
  OBVIOUS
<1> USE DEF IInv, OneOwner, TimerInv, HardwareInv, QuietInv, MotorAt, ImuAt
<1>1. ASSUME s_mode = "STOP" PROVE Parked
  BY LifecycleAssumption, <1>1 DEF Parked, TypeOK, TaskTypes, HardwareTypes
<1>2. pc["httpd"] = "otaRecv" => s_mode = "STOP"
  BY DEF ThreadsInv
<1> QED
  BY <1>1, <1>2 DEF StopMeansGone, FlashOnlyParked

\* STOP_CONTROL keeps its word, flashing happens with the robot parked, each
\* loop has one owner and no ESP_ERROR_CHECK fails, for any number of restarts,
\* provided the bring-up fits the stop wait and no request comes before
\* app_main has returned (control.c:384-601, 1061-1084; web_server.c:568-577).
THEOREM LifecycleSafety ==
  ASSUME ~BusMayHang, ~EarlyClient
  PROVE  Spec => [](StopMeansGone /\ FlashOnlyParked /\ OneOwner /\ NoPanic)
<1>1. IInv /\ [Next]_vars => IInv'
  BY StepIInv
<1>2. IInv => StopMeansGone /\ FlashOnlyParked /\ OneOwner /\ NoPanic
  BY IInvImpliesSafety DEF IInv
<1> QED
  BY InitIInv, <1>1, <1>2, PTL DEF Spec

\* Firmware is written only while no control task runs and the motors are parked, for
\* the whole upload (web_server.c:568).
COROLLARY FlashIsSafe ==
  ASSUME ~BusMayHang, ~EarlyClient
  PROVE  Spec => []FlashOnlyParked
<1> QED
  BY LifecycleSafety, PTL

\* However starts and stops follow each other, each loop has one live task and its
\* handle names it (control.c:408, 1069).
COROLLARY EachLoopHasOneOwner ==
  ASSUME ~BusMayHang, ~EarlyClient
  PROVE  Spec => []OneOwner
<1> QED
  BY LifecycleSafety, PTL

\* No ESP_ERROR_CHECK on the lifecycle path fails, over any number of restarts
\* (control.c:416-419, 596, 723; imu.c:106).
COROLLARY NothingPanics ==
  ASSUME ~BusMayHang, ~EarlyClient
  PROVE  Spec => []NoPanic
<1> QED
  BY LifecycleSafety, PTL

-----------------------------------------------------------------------------
(* What holds whatever the bus and the clients do.                           *)

\* The handle an ISR may use names a live task, in every interleaving: the
\* handle is stored before the task can run and cleared before it is deleted
\* (control.c:408-412, 599, 724, 1069-1071).
HandleInv == TaskTypes /\ HandlesLive

\* What the threads of core 0 are at keeps its type: the actions of each family,
\* in groups that touch the same variables.
LEMMA StepThreadTypes == ThreadTypes /\ [Next]_vars => ThreadTypes'
<1> SUFFICES ASSUME ThreadTypes, [Next]_vars PROVE ThreadTypes'
  OBVIOUS
<1> USE DEF ThreadTypes, ThreadPC, core0, Goto, Return
<1>1. CASE StartWebserver \/ StopRaise \/ StopStep \/ OtaGate \/ OtaEnd \/ Rollback \/ Reboot
  BY <1>1 DEF StartWebserver, StopRaise, StopStep, StopSeesBothGone, StopGivesUp,
              StopReturn, OtaGate, OtaEnd, Rollback, Reboot
<1>2. ASSUME NEW c \in Threads, StartCheck(c) \/ StartStep(c) PROVE ThreadTypes'
  BY <1>2 DEF StartCheck, StartStep, StartArm, StartSpawn
<1>3. ASSUME Core1Step PROVE UNCHANGED core0
  BY <1>3 DEF Core1Step, MotorAlarm, ImuAlarm, MotorStep, MotorEntry, MotorScanned,
              MotorProbe, MotorSpawnImu, MotorStartImuTimer, MotorStartTimer, MotorTake,
              MotorTick, MotorStopTimer, MotorPark, MotorLeave, ImuStep, ImuTake, ImuTick,
              ImuStopTimer, ImuLeave
<1> QED
  BY <1>1, <1>2, <1>3 DEF Next, Core0Step, vars

\* No step lets an alarm find a deleted task: each task clears its handle before
\* it deletes itself (control.c:594-600, 722-725).
LEMMA StepHandleInv == HandleInv /\ [Next]_vars => HandleInv'
<1> SUFFICES ASSUME HandleInv, [Next]_vars PROVE HandleInv'
  OBVIOUS
<1> USE LifecycleAssumption
    DEF HandleInv, HandlesLive, TaskTypes, MotorPC, ImuPC, BringUp, tasks, MGoto, IGoto
<1>1. CASE StartWebserver \/ StopRaise \/ StopStep \/ OtaGate \/ OtaEnd \/ Rollback
  BY <1>1 DEF StartWebserver, StopRaise, StopStep, StopSeesBothGone, StopGivesUp,
              StopReturn, OtaGate, OtaEnd, Rollback
<1>2. ASSUME NEW c \in Threads, StartCheck(c) \/ StartStep(c) PROVE HandleInv'
  BY <1>2 DEF StartCheck, StartStep, StartArm, StartSpawn
<1>3. CASE Reboot
  BY <1>3 DEF Reboot
<1>4. CASE MotorAlarm \/ ImuAlarm
  BY <1>4 DEF MotorAlarm, ImuAlarm
<1>5. ASSUME NEW t \in MotorTasks, MotorStep(t) PROVE HandleInv'
  <2>1. CASE MotorEntry(t) \/ MotorScanned(t) \/ MotorProbe(t)
    BY <2>1 DEF MotorEntry, MotorScanned, MotorProbe
  <2>2. CASE MotorSpawnImu(t)
    BY <2>2 DEF MotorSpawnImu
  <2>3. CASE MotorStartImuTimer(t) \/ MotorStartTimer(t) \/ MotorTake(t) \/ MotorTick(t)
    BY <2>3 DEF MotorStartImuTimer, MotorStartTimer, MotorTake, MotorTick
  <2>4. CASE MotorStopTimer(t) \/ MotorPark(t) \/ MotorLeave(t)
    BY <2>4 DEF MotorStopTimer, MotorPark, MotorLeave
  <2> QED
    BY <1>5, <2>1, <2>2, <2>3, <2>4 DEF MotorStep
<1>6. ASSUME NEW i \in ImuTasks, ImuStep(i) PROVE HandleInv'
  BY <1>6 DEF ImuStep, ImuTake, ImuTick, ImuStopTimer, ImuLeave
<1>7. CASE UNCHANGED vars
  BY <1>7 DEF vars
<1> QED
  BY <1>1, <1>2, <1>3, <1>4, <1>5, <1>6, <1>7 DEF Next, Core0Step, Core1Step

\* Timers, PWM and the bus keep their types, whatever else does not.
LEMMA StepHardwareTypes == HardwareTypes /\ [Next]_vars => HardwareTypes'
<1> SUFFICES ASSUME HardwareTypes, [Next]_vars PROVE HardwareTypes'
  OBVIOUS
<1> USE DEF HardwareTypes, TimerState, hw, EspErrorCheck
<1>1. CASE Core0Step
  BY <1>1 DEF Core0Step, StartWebserver, StartCheck, StartStep, StartArm, StartSpawn,
              StopRaise, StopStep, StopSeesBothGone, StopGivesUp, StopReturn,
              OtaGate, OtaEnd, Rollback
<1>2. CASE Reboot
  BY <1>2 DEF Reboot
<1>3. CASE MotorAlarm \/ ImuAlarm
  BY <1>3 DEF MotorAlarm, ImuAlarm
<1>4. ASSUME NEW t \in MotorTasks, MotorStep(t) PROVE HardwareTypes'
  <2>1. CASE MotorEntry(t)
    BY <2>1 DEF MotorEntry
  <2>2. CASE MotorScanned(t) \/ MotorProbe(t) \/ MotorSpawnImu(t) \/ MotorTake(t)
    BY <2>2 DEF MotorScanned, MotorProbe, MotorSpawnImu, MotorTake
  <2>3. CASE MotorStartImuTimer(t) \/ MotorStartTimer(t) \/ MotorTick(t)
    BY <2>3 DEF MotorStartImuTimer, MotorStartTimer, MotorTick
  <2>4. CASE MotorStopTimer(t) \/ MotorPark(t) \/ MotorLeave(t)
    BY <2>4 DEF MotorStopTimer, MotorPark, MotorLeave
  <2> QED
    BY <1>4, <2>1, <2>2, <2>3, <2>4 DEF MotorStep
<1>5. ASSUME NEW i \in ImuTasks, ImuStep(i) PROVE HardwareTypes'
  BY <1>5 DEF ImuStep, ImuTake, ImuTick, ImuStopTimer, ImuLeave
<1>6. CASE UNCHANGED vars
  BY <1>6 DEF vars
<1> QED
  BY <1>1, <1>2, <1>3, <1>4, <1>5, <1>6 DEF Next, Core1Step

\* Every variable keeps its type, and the alarm ISRs never use the handle of a
\* deleted task, with no assumption on the bus or on when requests arrive.
THEOREM IsrHandles == Spec => [](TypeOK /\ HandlesLive)
<1>1. Init => HandleInv
  BY InitTypeOK DEF Init, HandleInv, HandlesLive, TypeOK
<1> QED
  BY InitTypeOK, <1>1, StepThreadTypes, StepHandleInv, StepHardwareTypes, PTL
  DEF Spec, HandleInv, TypeOK

-----------------------------------------------------------------------------
(* The lifecycle implements the contract its callers rely on.                *)

\* Power-up is the initial state of the contract: stopped, parked, not flashing.
LEMMA InitContract == Init => Contract!CInit
  BY DEF Init, Contract!CInit

\* Each step of the two cores is a step of the contract, or changes nothing
\* the contract's callers can see.
LEMMA StepContract ==
  ASSUME ~BusMayHang, ~EarlyClient, IInv, IInv', [Next]_vars
  PROVE  [Contract!CNext]_(Contract!cvars)
<1> USE LifecycleAssumption
    DEF Contract!CNext, Contract!cvars, Contract!Start, Contract!Drive, Contract!Stop,
        Contract!Flash, Contract!FlashEnd, Contract!Reset,
        IInv, TypeOK, ThreadTypes, ThreadPC, HardwareTypes, ThreadsInv, core0, tasks, hw,
        Goto, MGoto, IGoto, Return, MayCall, EspErrorCheck
<1>1. CASE StartWebserver \/ StopRaise \/ Rollback
  BY <1>1 DEF StartWebserver, StopRaise, Rollback
<1>2. ASSUME NEW c \in Threads, StartCheck(c) \/ StartStep(c)
      PROVE  [Contract!CNext]_(Contract!cvars)
  BY <1>2 DEF StartCheck, StartStep, StartArm, StartSpawn
<1>3. CASE StopStep
  <2>1. s_mode' = "STOP" /\ pwm' = pwm
    BY <1>3 DEF StopStep, StopSeesBothGone, StopGivesUp, StopReturn
  <2>2. pwm = "off"
    BY <2>1, IInvImpliesSafety DEF QuietInv, HardwareInv, MotorAt
  <2> QED
    BY <1>3, <2>2 DEF StopStep, StopSeesBothGone, StopGivesUp, StopReturn
<1>4. CASE OtaGate \/ OtaEnd
  BY <1>4 DEF OtaGate, OtaEnd
<1>5. CASE Reboot
  BY <1>5 DEF Reboot
<1>6. CASE MotorAlarm \/ ImuAlarm
  BY <1>6 DEF MotorAlarm, ImuAlarm
<1>7. ASSUME NEW t \in MotorTasks, MotorStep(t)
      PROVE  [Contract!CNext]_(Contract!cvars)
  <2>1. s_mode = "START" /\ pc' = pc /\ s_mode' = s_mode
    BY <1>7 DEF QuietInv, OneOwner, MotorStep, MotorEntry, MotorScanned, MotorProbe, MotorSpawnImu,
                MotorStartImuTimer, MotorStartTimer, MotorTake, MotorTick,
                MotorStopTimer, MotorPark, MotorLeave
  <2>2. pc["httpd"] # "otaRecv"
    BY <2>1
  <2> QED
    BY <2>1, <2>2
<1>8. ASSUME NEW i \in ImuTasks, ImuStep(i)
      PROVE  [Contract!CNext]_(Contract!cvars)
  BY <1>8 DEF ImuStep, ImuTake, ImuTick, ImuStopTimer, ImuLeave
<1>9. CASE UNCHANGED vars
  BY <1>9 DEF vars
<1> QED
  BY <1>1, <1>2, <1>3, <1>4, <1>5, <1>6, <1>7, <1>8, <1>9 DEF Next, Core0Step, Core1Step

\* The detailed lifecycle, tasks, timers and reboots included, implements
\* ControlContract: driven only while started, stopped only when parked, flashed
\* only while stopped (control.h:16-20, 34-37; web_server.c:568).
THEOREM LifecycleImplementsContract ==
  ASSUME ~BusMayHang, ~EarlyClient
  PROVE  Spec => ImplementsContract
<1>1. IInv /\ [Next]_vars => IInv'
  BY StepIInv
<1>2. IInv /\ IInv' /\ [Next]_vars => [Contract!CNext]_(Contract!cvars)
  BY StepContract
<1> QED
  BY InitIInv, InitContract, <1>1, <1>2, PTL
  DEF Spec, ImplementsContract, Contract!CSpec
=============================================================================
