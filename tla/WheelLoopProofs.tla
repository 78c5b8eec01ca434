--------------------------- MODULE WheelLoopProofs ---------------------------
(* Types of the wheel loop and the integrator of a cut, for any number of    *)
(* wheels, clients and commands.                                             *)
EXTENDS WheelLoop, Integers, SequenceTheorems, TLAPS

\* The writes that commands are made of: a flag, or a value for one wheel.
FlagOps  == [reg : Flags, wheel : {0}, val : {"on", "off"}]
WheelOps == [reg : {"wset", "cmd"}, wheel : Wheels, val : {"zero", "user"}]
Ops      == FlagOps \cup WheelOps

\* Clients have nothing but such writes before them.
TodoInv == todo \in [Clients -> Seq(Ops)]

IInv == TypeOK /\ TodoInv /\ CutKeepsClean

LEMMA Sizes == NWheels \in Nat /\ NWheels > 0 /\ MaxCommands \in Nat /\ 0 \in Wheels
<1>1. NWheels \in Nat \ {0} /\ MaxCommands \in Nat
      BY WheelAssumption
<1>2. NWheels > 0
      BY <1>1
<1>3. 0 \in Wheels
      BY <1>1, <1>2 DEF Wheels
<1> QED BY <1>1, <1>2, <1>3

-----------------------------------------------------------------------------
(* Commands are sequences of writes                                          *)

LEMMA ConcatOps ==
    ASSUME NEW s \in Seq(Ops), NEW t \in Seq(Ops)
    PROVE  s \o t \in Seq(Ops)
<1> QED BY ConcatProperties

\* One flag.
LEMMA SetOps ==
    ASSUME NEW f \in Flags, NEW v \in {"on", "off"}
    PROVE  Set(f, v) \in Seq(Ops)
<1>1. [reg |-> f, wheel |-> 0, val |-> v] \in Ops
      BY DEF Ops, FlagOps
<1> QED BY <1>1 DEF Set

\* Every wheel.
LEMMA SetAllOps ==
    ASSUME NEW r \in {"wset", "cmd"}, NEW v \in {"zero", "user"}
    PROVE  SetAll(r, v) \in Seq(Ops)
<1>1. NWheels \in Nat
      BY WheelAssumption
<1>2. ASSUME NEW i \in 1 .. NWheels
      PROVE  [reg |-> r, wheel |-> i - 1, val |-> v] \in Ops
  <2>1. i - 1 \in Wheels
        BY <1>1 DEF Wheels
  <2> QED BY <2>1 DEF Ops, WheelOps
<1>3. SetAll(r, v) \in [1 .. NWheels -> Ops]
      BY <1>2 DEF SetAll
<1> QED BY <1>1, <1>3, SeqDef

\* The combinations the commands use.
LEMMA PresetOps ==
    ASSUME NEW e \in {"on", "off"}, NEW c \in {"on", "off"}, NEW b \in {"on", "off"}
    PROVE  Preset(e, c, b) \in Seq(Ops)
<1>1. Set("est", e) \in Seq(Ops) /\ Set("ctrl", c) \in Seq(Ops) /\ Set("bal", b) \in Seq(Ops)
      BY SetOps DEF Flags
<1> QED BY <1>1, ConcatOps DEF Preset

LEMMA BalanceOffOps == BalanceOff \in Seq(Ops)
<1>1. Set("bal", "off") \in Seq(Ops) /\ SetAll("wset", "zero") \in Seq(Ops)
      BY SetOps, SetAllOps DEF Flags
<1> QED BY <1>1, ConcatOps DEF BalanceOff

LEMMA PlayStopOps == PlayStop \in Seq(Ops)
<1>1. /\ Set("play", "off") \in Seq(Ops)
      /\ SetAll("cmd", "zero") \in Seq(Ops) /\ SetAll("wset", "zero") \in Seq(Ops)
      BY SetOps, SetAllOps DEF Flags
<1> QED BY <1>1, ConcatOps DEF PlayStop

LEMMA UploadOps ==
    ASSUME NEW kind \in {"on", "off"}
    PROVE  Upload(kind) \in Seq(Ops)
<1>1. /\ Set("play", "off") \in Seq(Ops) /\ Set("loaded", "off") \in Seq(Ops)
      /\ Set("speed", kind) \in Seq(Ops)
      /\ Set("loaded", "on") \in Seq(Ops) /\ Set("play", "on") \in Seq(Ops)
      BY SetOps DEF Flags
<1> QED BY <1>1, ConcatOps DEF Upload

\* Whatever the flags are when a command begins, it consists of such writes.
LEMMA ProgramOps ==
    ASSUME NEW k \in AllCommands \ Lifecycle
    PROVE  Program(k) \in Seq(Ops)
<1>0. <<>> \in Seq(Ops)
      OBVIOUS
<1>1. CASE k \in {"speed", "motor", "stop"}
  <2>1. /\ SetAll("wset", "user") \in Seq(Ops) /\ SetAll("cmd", "user") \in Seq(Ops)
        /\ SetAll("cmd", "zero") \o SetAll("wset", "zero") \in Seq(Ops)
        BY SetAllOps, ConcatOps
  <2> QED BY <1>0, <1>1, <2>1 DEF Program, MotorCommand
<1>2. CASE k \in {"speedseq", "motorseq", "play", "play stop", "deadband", "deadband stop"}
  <2>1. Upload("on") \in Seq(Ops) /\ Upload("off") \in Seq(Ops) /\ PlayStop \in Seq(Ops)
        BY UploadOps, PlayStopOps
  <2>2. Set("play", "on") \in Seq(Ops)
        BY SetOps DEF Flags
  <2>3. Set("play", "off") \in Seq(Ops) /\ Set("db", "on") \in Seq(Ops)
        BY SetOps DEF Flags
  <2>4. Set("play", "off") \o Set("db", "on") \in Seq(Ops)
        BY <2>3, ConcatOps
  <2>5. Set("db", "off") \in Seq(Ops) /\ SetAll("cmd", "zero") \in Seq(Ops)
        BY SetOps, SetAllOps DEF Flags
  <2>6. Set("db", "off") \o SetAll("cmd", "zero") \in Seq(Ops)
        BY <2>5, ConcatOps
  <2>7. Program(k) = ScriptCommand(k)
        BY <1>2 DEF Program
  <2> HIDE DEF Ops
  <2> QED BY <1>0, <1>2, <2>1, <2>2, <2>4, <2>6, <2>7 DEF ScriptCommand
<1>3. CASE k \in {"balance on", "balance off", "exp motors", "exp motor-ctrl", "exp angles",
                  "exp balance", "est on", "est off", "ctrl on", "ctrl off", "button"}
  <2>1. /\ Preset("on", "on", "on") \in Seq(Ops) /\ Preset("off", "off", "off") \in Seq(Ops)
        /\ Preset("off", "on", "off") \in Seq(Ops) /\ Preset("on", "off", "off") \in Seq(Ops)
        /\ BalanceOff \in Seq(Ops)
        BY PresetOps, BalanceOffOps
  <2>2. /\ Set("est", "on") \in Seq(Ops) /\ Set("est", "off") \in Seq(Ops)
        /\ Set("ctrl", "on") \in Seq(Ops) /\ Set("ctrl", "off") \in Seq(Ops)
        BY SetOps DEF Flags
  <2>3. Program(k) = FlagCommand(k)
        BY <1>3 DEF Program
  <2> QED BY <1>3, <2>1, <2>2, <2>3 DEF FlagCommand
<1> QED BY <1>1, <1>2, <1>3 DEF AllCommands, Lifecycle

-----------------------------------------------------------------------------
(* The invariant                                                             *)

\* It holds when the loops come up, in whatever experiment.
LEMMA InitIInv == Init => IInv
<1> SUFFICES ASSUME Init PROVE IInv
    OBVIOUS
<1>1. flag \in [Flags -> BOOLEAN]
  <2>1. PICK S : flag = [f \in Flags |-> Set(f, "on")[1] \in S]
        BY Zenon DEF Init
  <2>2. ASSUME NEW f \in Flags
        PROVE  flag[f] \in BOOLEAN
    <3>1. flag[f] = (Set(f, "on")[1] \in S)
          BY <2>1, Zenon
    <3> QED BY <3>1
  <2>3. flag = [f \in Flags |-> flag[f]]
        BY <2>1, Zenon
  <2> QED BY <2>2, <2>3
<1>2. NWheels \in Nat /\ NWheels > 0 /\ MaxCommands \in Nat /\ 0 \in Wheels
      BY Sizes
<1>3. wset = [w \in Wheels |-> "zero"] /\ cmd = [w \in Wheels |-> "zero"]
      BY DEF Init, AllWheels
<1>4. TypeOK
  <2>1. wset \in [Wheels -> Sources] /\ cmd \in [Wheels -> {"zero", "user"}]
        BY <1>3 DEF Sources
  <2>2. given \in 0 .. MaxCommands
        BY <1>2 DEF Init
  <2> QED BY <1>1, <1>2, <2>1, <2>2 DEF Init, TypeOK
<1>5. TodoInv
      BY DEF Init, TodoInv
<1>6. CutKeepsClean
      BY DEF Init, CutKeepsClean
<1> QED BY <1>4, <1>5, <1>6 DEF IInv

\* A tick of motor_task: the integrator is wound only where the cut is over.
LEMMA MotorKeepsIInv ==
    ASSUME IInv, MotorStep
    PROVE  IInv'
<1>0. TypeOK /\ CutKeepsClean /\ NWheels \in Nat /\ NWheels > 0 /\ 0 \in Wheels
      BY Sizes DEF IInv
<1>1. TodoInv'
      BY DEF IInv, TodoInv, MotorStep, MotorBegin, MotorPlay, MotorNoPlay, MotorBal, MotorWrite,
             MotorCut, MotorPi, MotorSweep, MotorDuty, MotorManual, MotorEnd, MGo, clients
<1> USE DEF MGo, imu, robot, clients, shared
<1>2. CASE MotorBegin
      BY <1>0, <1>1, <1>2 DEF MotorBegin, IInv, TypeOK, CutKeepsClean
<1>3. CASE MotorPlay
  <2>1. flag' \in [Flags -> BOOLEAN]
        BY <1>0, <1>3 DEF MotorPlay, TypeOK
  <2> QED BY <1>0, <1>1, <1>3, <2>1 DEF MotorPlay, IInv, TypeOK, CutKeepsClean
<1>4. CASE MotorNoPlay
      BY <1>0, <1>1, <1>4 DEF MotorNoPlay, IInv, TypeOK, CutKeepsClean
<1>5. CASE MotorBal
      BY <1>0, <1>1, <1>5 DEF MotorBal, IInv, TypeOK, CutKeepsClean
<1>6. CASE MotorWrite
  <2>1. wset' \in [Wheels -> Sources]
        BY <1>0, <1>6 DEF MotorWrite, TypeOK, Sources
  <2>2. wheel' \in Wheels
        BY <1>0, <1>6, SMT DEF MotorWrite, TypeOK, Wheels
  <2> QED BY <1>0, <1>1, <1>6, <2>1, <2>2 DEF MotorWrite, IInv, TypeOK, CutKeepsClean
<1>7. CASE MotorCut
      BY <1>0, <1>1, <1>7 DEF MotorCut, IInv, TypeOK, CutKeepsClean
<1>8. CASE MotorPi
  <2>1. TypeOK'
    <3>1. /\ cut_was' \in BOOLEAN /\ pi' \in {"clean", "wound"} /\ pwm' \in {"zero", "driven"}
          /\ mpc' \in {"wait", "play", "bal", "write", "cut", "pi", "open", "out"}
          /\ UNCHANGED <<src, wheel, ctrl_was, flag, wset, cmd, imu, robot, given>>
          BY <1>8, Zenon DEF MotorPi
    <3> QED BY <1>0, <3>1 DEF TypeOK
  <2>2. CutKeepsClean'
        BY <1>8 DEF MotorPi, CutKeepsClean
  <2> QED BY <1>1, <2>1, <2>2 DEF IInv
<1>9. CASE MotorSweep
  <2>1. flag' \in [Flags -> BOOLEAN] /\ pwm' \in {"zero", "driven"}
        BY <1>0, <1>9 DEF MotorSweep, TypeOK
  <2> QED BY <1>0, <1>1, <1>9, <2>1 DEF MotorSweep, IInv, TypeOK, CutKeepsClean
<1>10. CASE MotorDuty
  <2>1. flag' \in [Flags -> BOOLEAN] /\ pwm' \in {"zero", "driven"}
        BY <1>0, <1>10 DEF MotorDuty, TypeOK
  <2>2. cmd' \in [Wheels -> {"zero", "user"}]
        BY <1>0, <1>10 DEF MotorDuty, TypeOK, AllWheels
  <2> QED BY <1>0, <1>1, <1>10, <2>1, <2>2 DEF MotorDuty, IInv, TypeOK, CutKeepsClean
<1>11. CASE MotorManual
      BY <1>0, <1>1, <1>11 DEF MotorManual, IInv, TypeOK, CutKeepsClean
<1>12. CASE MotorEnd
  <2>1. ctrl_was' \in BOOLEAN
        BY <1>0, <1>12 DEF MotorEnd, TypeOK, Flags
  <2>2. TypeOK' /\ CutKeepsClean'
        BY <1>0, <1>12, <2>1 DEF MotorEnd, TypeOK, CutKeepsClean
  <2> QED BY <1>1, <2>2 DEF IInv
<1> QED BY <1>2, <1>3, <1>4, <1>5, <1>6, <1>7, <1>8, <1>9, <1>10, <1>11, <1>12 DEF MotorStep

\* A tick of imu_task, which has neither integrator nor setpoint of a wheel.
LEMMA ImuKeepsIInv ==
    ASSUME IInv, ImuStep
    PROVE  IInv'
<1> USE DEF IGo, motor, shared, clients, IInv, TypeOK, TodoInv, CutKeepsClean
<1>1. CASE ImuBegin
  <2>1. pitch' \in {"nan", "ok", "over"} /\ s_imu_present' \in BOOLEAN
        BY <1>1 DEF ImuBegin, Estimate
  <2> QED BY <1>1, <2>1 DEF ImuBegin
<1>2. CASE ImuBalance
      BY <1>2 DEF ImuBalance
<1>3. CASE ImuPublishW
      BY <1>3 DEF ImuPublishW
<1>4. CASE ImuPublishCut
      BY <1>4 DEF ImuPublishCut
<1>5. CASE ImuEnd
      BY <1>5 DEF ImuEnd
<1> QED BY <1>1, <1>2, <1>3, <1>4, <1>5 DEF ImuStep

\* A command begun is a sequence of writes.
LEMMA BeginKeepsIInv ==
    ASSUME IInv, NEW c \in Clients, Begin(c)
    PROVE  IInv'
<1>1. TodoInv'
  <2>1. PICK k \in Gives(c) \ Lifecycle : todo' = [todo EXCEPT ![c] = Program(k)]
        BY DEF Begin
  <2>2. k \in AllCommands \ Lifecycle
        BY <2>1, WheelAssumption DEF Gives
  <2>3. Program(k) \in Seq(Ops)
        BY <2>2, ProgramOps
  <2> QED BY <2>1, <2>3 DEF IInv, TodoInv
<1>2. given' \in 0 .. MaxCommands
      BY Sizes DEF Begin, IInv, TypeOK
<1> QED BY <1>1, <1>2 DEF Begin, IInv, TypeOK, CutKeepsClean, motor, imu, robot, shared

\* One write: a flag, a setpoint or an open-loop command.
LEMMA DoKeepsIInv ==
    ASSUME IInv, NEW c \in Clients, Do(c)
    PROVE  IInv'
<1>1. todo[c] \in Seq(Ops) /\ todo[c] # <<>>
      BY DEF Do, IInv, TodoInv
<1> DEFINE op == Head(todo[c])
<1>2. op \in Ops /\ Tail(todo[c]) \in Seq(Ops)
      BY <1>1, HeadTailProperties
<1>3. /\ flag' = IF op.reg \in Flags THEN [flag EXCEPT ![op.reg] = (op.val = "on")] ELSE flag
      /\ wset' = IF op.reg = "wset" THEN [wset EXCEPT ![op.wheel] = op.val] ELSE wset
      /\ cmd'  = IF op.reg = "cmd"  THEN [cmd  EXCEPT ![op.wheel] = op.val] ELSE cmd
      /\ todo' = [todo EXCEPT ![c] = Tail(todo[c])]
      /\ UNCHANGED <<motor, imu, robot, given>>
      BY DEF Do
<1> HIDE DEF op
<1>4. flag' \in [Flags -> BOOLEAN]
  <2>1. flag \in [Flags -> BOOLEAN] /\ (op.val = "on") \in BOOLEAN
        BY DEF IInv, TypeOK
  <2> QED BY <1>3, <2>1
<1>5. op.reg \in {"wset", "cmd"} => op.wheel \in Wheels /\ op.val \in {"zero", "user"}
      BY <1>2 DEF Ops, FlagOps, WheelOps, Flags
<1>6. wset' \in [Wheels -> Sources] /\ cmd' \in [Wheels -> {"zero", "user"}]
      BY <1>3, <1>5 DEF IInv, TypeOK, Sources
<1>7. TodoInv'
      BY <1>2, <1>3 DEF IInv, TodoInv
<1> QED BY <1>3, <1>4, <1>6, <1>7 DEF IInv, TypeOK, CutKeepsClean, motor, imu, robot

\* A stop and a start, and the robot that falls: the start forgets the cut.
LEMMA LifecycleKeepsIInv ==
    ASSUME IInv, Tilt \/ \E c \in Clients : ControlStop(c) \/ ControlStart(c)
    PROVE  IInv'
<1>0. TypeOK /\ CutKeepsClean /\ TodoInv /\ given \in 0 .. MaxCommands /\ MaxCommands \in Nat
      BY Sizes DEF IInv, TypeOK
<1> USE DEF motor, imu, shared, clients
<1>1. CASE Tilt
  <2>1. TypeOK'
        BY <1>0, <1>1 DEF Tilt, TypeOK
  <2> QED BY <1>0, <1>1, <2>1 DEF Tilt, IInv, TodoInv, CutKeepsClean
<1>2. ASSUME NEW c \in Clients, ControlStop(c)
      PROVE  IInv'
  <2>1. given' \in 0 .. MaxCommands
    <3>1. given < MaxCommands /\ given' = given + 1
          BY <1>2, Zenon DEF ControlStop
    <3> QED BY <1>0, <3>1
  <2>2. TypeOK'
        BY <1>0, <1>2, <2>1 DEF ControlStop, TypeOK
  <2> QED BY <1>0, <1>2, <2>2 DEF ControlStop, IInv, TodoInv, CutKeepsClean
<1>3. ASSUME NEW c \in Clients, ControlStart(c)
      PROVE  IInv'
  <2>1. given' \in 0 .. MaxCommands
    <3>1. given < MaxCommands /\ given' = given + 1
          BY <1>3, Zenon DEF ControlStart
    <3> QED BY <1>0, <3>1
  <2>2. TypeOK'
    <3>1. /\ running' \in BOOLEAN /\ ctrl_was' \in BOOLEAN /\ cut_was' \in BOOLEAN
          /\ s_imu_present' \in BOOLEAN
          /\ UNCHANGED <<pwm, pi, mpc, src, wheel, s_bal_w_common, s_bal_cut, ipc, pitch, out,
                         tilt, flag, wset, cmd>>
          BY <1>3, Zenon DEF ControlStart
    <3> QED BY <1>0, <2>1, <3>1 DEF TypeOK
  <2>3. CutKeepsClean'
        BY <1>3 DEF ControlStart, CutKeepsClean
  <2> QED BY <1>0, <1>3, <2>2, <2>3 DEF ControlStart, IInv, TodoInv
<1> QED BY <1>1, <1>2, <1>3

LEMMA StepIInv == IInv /\ [Next]_vars => IInv'
<1> SUFFICES ASSUME IInv, [Next]_vars PROVE IInv'
    OBVIOUS
<1>1. CASE UNCHANGED vars
      BY <1>1 DEF vars, motor, imu, robot, shared, clients, IInv, TypeOK, TodoInv, CutKeepsClean
<1> QED BY <1>1, MotorKeepsIInv, ImuKeepsIInv, BeginKeepsIInv, DoKeepsIInv, LifecycleKeepsIInv
        DEF Next

\* Every variable keeps its type, whatever commands cut into whatever tick: no
\* setpoint, duty or flag is written out of range (control.c:477-546, 669-713).
THEOREM WheelTypes == Spec => []TypeOK
<1>1. IInv => TypeOK
      BY DEF IInv
<1> QED BY <1>1, InitIInv, StepIInv, PTL DEF Spec

\* From the first tick of a cut to the next tick that drives, across commands,
\* restarts and mode changes, the integrators stay empty (control.c:493-494).
THEOREM CutStaysClean == Spec => []CutKeepsClean
<1>1. IInv => CutKeepsClean
      BY DEF IInv
<1> QED BY <1>1, InitIInv, StepIInv, PTL DEF Spec
=============================================================================
