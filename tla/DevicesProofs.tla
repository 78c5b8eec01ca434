---------------------------- MODULE DevicesProofs ----------------------------
(* The devices and services that share nothing: the controllers stay within    *)
(* their clamps, the HTTP server never makes an unverified image bootable and  *)
(* never leaks, every press of the button toggles balance once, and the IMU    *)
(* hands out whole frames in order.  At the end, that each of them behaves as  *)
(* its own specification says where the model checker runs them side by side.  *)
EXTENDS MCDevices, EncodersProofs, TLAPS

-----------------------------------------------------------------------------
(* The controllers                                                           *)

\* The state of one wheel's controller.
WheelState ==
    [i : -DUTY_MAX .. DUTY_MAX, filt : Int, ref : -WSET_MAX .. WSET_MAX, primed : BOOLEAN]

PiTypes ==
    /\ pi \in [Wheels -> WheelState] /\ duty \in [Wheels -> -DUTY_MAX .. DUTY_MAX]
    /\ alike \in BOOLEAN /\ pid \in -W_MAX .. W_MAX /\ wCommon \in -W_MAX .. W_MAX

PiInv == PiTypes /\ ResetForgets

-----------------------------------------------------------------------------
(* The operators                                                             *)

LEMMA ClampIn ==
    ASSUME NEW x \in Int, NEW m \in Nat
    PROVE  Clamp(x, m) \in -m .. m
  BY DEF Clamp

\* Conditional integration keeps an integral within its clamp.
LEMMA IntegrateIn ==
    ASSUME NEW m \in Nat, NEW acc \in -m .. m, NEW inc \in Int, NEW e, NEW u, NEW sat
    PROVE  Integrate(acc, inc, e, u, sat, m) \in -m .. m
<1>1. acc + inc \in Int
  OBVIOUS
<1>2. Clamp(acc + inc, m) \in -m .. m
  BY <1>1, ClampIn
<1> QED
  BY <1>2, Zenon DEF Integrate

LEMMA FeedInt ==
    ASSUME NEW w \in Int, NEW k \in Int
    PROVE  Feed(w, k) \in Int
<1>1. CASE k = 0
  BY <1>1 DEF Feed
<1>2. CASE k > 0
  <2>1. w \div k \in Int
    BY <1>2, SMT
  <2> QED
    BY <1>2, <2>1 DEF Feed
<1>3. CASE k < 0
  <2>1. -k \in Int /\ -k > 0
    BY <1>3
  <2>2. w \div (-k) \in Int
    BY <2>1, SMT
  <2> QED
    BY <1>3, <2>2 DEF Feed
<1> QED
  BY <1>1, <1>2, <1>3

LEMMA CompensateInt ==
    ASSUME NEW u \in Int
    PROVE  Compensate(u) \in Int
  BY ControllersAssumption DEF Compensate, Abs

\* The reference never leaves the reachable speeds, slewed or not.
LEMMA RefIn ==
    ASSUME NEW s \in WheelState, NEW k \in Settings
    PROVE  Ref(s, k) \in -WSET_MAX .. WSET_MAX
<1>1. s.ref \in -WSET_MAX .. WSET_MAX /\ WSET_MAX \in Nat
  BY ControllersAssumption DEF WheelState
<1>2. k.slew \in {0, 1}
  BY DEF Settings
<1>3. k.set \in -WSET_MAX .. WSET_MAX
  <2>1. PICK w \in Speeds : k.set = Clamp(w, WSET_MAX)
    BY DEF Settings
  <2> QED
    BY <2>1, ClampIn, ControllersAssumption
<1> QED
  BY <1>1, <1>2, <1>3 DEF Ref, Clamp

LEMMA UnclampedInt ==
    ASSUME NEW s \in WheelState, NEW k \in Settings, NEW f \in Int
    PROVE  Unclamped(s, k, f) \in Int
<1>1. Ref(s, k) \in Int
  BY RefIn, ControllersAssumption
<1>2. s.i \in Int
  BY ControllersAssumption DEF WheelState
<1>3. k.kff \in Int /\ k.kp \in Int /\ k.b \in Int
  <2>1. k.kff \in Gains /\ k.kp \in Gains
    BY DEF Settings
  <2>2. Gains \subseteq Int
    BY Zenon, ControllersAssumption
  <2>3. k.kff \in Int /\ k.kp \in Int
    BY <2>1, <2>2, Zenon
  <2>4. k.b \in {0, 1}
    BY DEF Settings
  <2>5. k.b \in Int
    BY <2>4
  <2> QED
    BY <2>3, <2>5
<1>4. Feed(Ref(s, k), k.kff) \in Int
  BY <1>1, <1>3, FeedInt
<1>5. k.kp * (k.b * Ref(s, k) - f) \in Int
  <2>1. \A kp, b, r \in Int : kp * (b * r - f) \in Int
    OBVIOUS
  <2> QED
    BY <1>1, <1>3, <2>1, Zenon
<1>6. Raw(s, k, f) \in Int
  BY <1>2, <1>4, <1>5 DEF Raw
<1>7. Compensate(Raw(s, k, f)) \in Int
  BY <1>6, CompensateInt
<1> QED
  BY <1>6, <1>7 DEF Unclamped

\* One step of one wheel, under any settings.
LEMMA WheelStepIn ==
    ASSUME NEW s \in WheelState, NEW k \in Settings, NEW f \in Int
    PROVE  Stepped(s, k, f) \in WheelState /\ Duty(s, k, f) \in -DUTY_MAX .. DUTY_MAX
<1>1. DUTY_MAX \in Nat
  BY ControllersAssumption
<1>2. Duty(s, k, f) \in -DUTY_MAX .. DUTY_MAX
  BY <1>1, UnclampedInt, ClampIn DEF Duty
<1> DEFINE e   == Ref(s, k) - f
           acc == Integrate(s.i, k.ki * e, e, Unclamped(s, k, f), Duty(s, k, f), DUTY_MAX)
<1>3. e \in Int
  BY RefIn, ControllersAssumption
<1>4. acc \in -DUTY_MAX .. DUTY_MAX
  <2>1. s.i \in -DUTY_MAX .. DUTY_MAX
    BY DEF WheelState
  <2>2. k.ki * e \in Int
    <3>1. k.ki \in Int
      BY ControllersAssumption DEF Settings
    <3> HIDE DEF e
    <3> QED
      BY <1>3, <3>1
  <2> QED
    BY <1>1, <2>1, <2>2, IntegrateIn, Zenon
<1>5. Stepped(s, k, f) = [i |-> acc, filt |-> f, ref |-> Ref(s, k), primed |-> TRUE]
  BY Zenon DEF Stepped
<1> HIDE DEF acc
<1> QED
  BY <1>2, <1>4, <1>5, RefIn DEF WheelState

\* Where a filter lands is a number.
LEMMA FilteredInt ==
    ASSUME NEW s \in WheelState, NEW k, NEW w \in Int, NEW f \in Filtered(s, k, w)
    PROVE  f \in Int
<1>1. s.filt \in Int
  BY DEF WheelState
<1> QED
  BY <1>1 DEF Filtered, Between

-----------------------------------------------------------------------------
(* The steps                                                                 *)

LEMMA FreshIn == Fresh \in WheelState
  BY ControllersAssumption DEF Fresh, WheelState

LEMMA InitPiInv == PiInit => PiInv
<1> SUFFICES ASSUME PiInit PROVE PiInv
  OBVIOUS
<1>1. pi \in [Wheels -> WheelState]
  BY FreshIn, Zenon DEF PiInit
<1>2. duty \in [Wheels -> -DUTY_MAX .. DUTY_MAX] /\ 0 \in -W_MAX .. W_MAX
  BY ControllersAssumption DEF PiInit
<1> QED
  BY <1>1, <1>2 DEF PiInit, PiInv, PiTypes, ResetForgets, Wheels

LEMMA DriveWheelPiInv ==
    ASSUME PiInv, NEW x \in Wheels, DriveWheel(x)
    PROVE  PiInv'
<1>1. PICK k \in Settings, w \in Speeds : \E f \in Filtered(pi[x], k, w) :
         /\ pi' = [pi EXCEPT ![x] = Stepped(pi[x], k, f)]
         /\ duty' = [duty EXCEPT ![x] = Duty(pi[x], k, f)]
  BY Zenon DEF DriveWheel
<1>2. PICK f \in Filtered(pi[x], k, w) :
         /\ pi' = [pi EXCEPT ![x] = Stepped(pi[x], k, f)]
         /\ duty' = [duty EXCEPT ![x] = Duty(pi[x], k, f)]
  BY <1>1
<1>3. pi[x] \in WheelState /\ w \in Int
  BY ControllersAssumption DEF PiInv, PiTypes
<1>4. Stepped(pi[x], k, f) \in WheelState /\ Duty(pi[x], k, f) \in -DUTY_MAX .. DUTY_MAX
  BY <1>3, FilteredInt, WheelStepIn
<1>5. pi' \in [Wheels -> WheelState] /\ duty' \in [Wheels -> -DUTY_MAX .. DUTY_MAX]
  BY <1>2, <1>4, Zenon DEF PiInv, PiTypes
<1> QED
  BY <1>5 DEF PiInv, PiTypes, ResetForgets, DriveWheel, balance

LEMMA DriveAlikePiInv ==
    ASSUME PiInv, DriveAlike
    PROVE  PiInv'
<1>1. PICK k \in Settings, w \in Speeds : \E f \in Filtered(pi[0], k, w) :
         /\ f \in Filtered(pi[1], k, w)
         /\ pi' = [x \in Wheels |-> Stepped(pi[x], k, f)]
         /\ duty' = [x \in Wheels |-> Duty(pi[x], k, f)]
  BY Zenon DEF DriveAlike
<1>2. PICK f \in Filtered(pi[0], k, w) :
         /\ pi' = [x \in Wheels |-> Stepped(pi[x], k, f)]
         /\ duty' = [x \in Wheels |-> Duty(pi[x], k, f)]
  BY <1>1
<1>3. pi[0] \in WheelState /\ w \in Int
  BY ControllersAssumption DEF PiInv, PiTypes, Wheels
<1>4. f \in Int
  BY <1>3, FilteredInt
<1>5. \A x \in Wheels : /\ Stepped(pi[x], k, f) \in WheelState
                        /\ Duty(pi[x], k, f) \in -DUTY_MAX .. DUTY_MAX
  BY <1>4, WheelStepIn DEF PiInv, PiTypes
<1>6. pi' \in [Wheels -> WheelState] /\ duty' \in [Wheels -> -DUTY_MAX .. DUTY_MAX]
  BY <1>2, <1>5, Zenon
<1>7. pi[0] = pi[1]
  BY DEF PiInv, ResetForgets, DriveAlike
<1>8. pi'[0] = pi'[1] /\ duty'[0] = duty'[1]
  BY <1>2, <1>7, Zenon DEF Wheels
<1> QED
  BY <1>6, <1>8 DEF PiInv, PiTypes, ResetForgets, DriveAlike, balance

LEMMA WheelResetPiInv ==
    ASSUME PiInv, WheelReset
    PROVE  PiInv'
<1>1. pi' \in [Wheels -> WheelState]
  BY FreshIn, Zenon DEF WheelReset
<1>2. duty' \in [Wheels -> -DUTY_MAX .. DUTY_MAX]
  BY ControllersAssumption DEF WheelReset
<1> QED
  BY <1>1, <1>2 DEF WheelReset, PiInv, PiTypes, ResetForgets, Wheels, balance

LEMMA BalancePiInv ==
    ASSUME PiInv, BalanceStep \/ BalanceReset
    PROVE  PiInv'
<1>1. W_MAX \in Nat
  BY ControllersAssumption
<1>2. CASE BalanceStep
  <2>1. PICK kp \in Gains, ki \in Gains, kd \in Gains, e \in Tilts, rate \in Tilts :
          LET u == kp * e + pid + kd * rate
          IN  /\ wCommon' = Clamp(u, W_MAX)
              /\ pid' = Integrate(pid, ki * e, e, u, wCommon', W_MAX)
    BY <1>2, Zenon DEF BalanceStep
  <2>2. kp \in Int /\ ki \in Int /\ kd \in Int /\ e \in Int /\ rate \in Int /\ pid \in Int
    <3>1. kp \in Int /\ ki \in Int /\ kd \in Int /\ e \in Int /\ rate \in Int
      BY Zenon, ControllersAssumption
    <3>2. pid \in Int
      BY <1>1 DEF PiInv, PiTypes
    <3> QED
      BY <3>1, <3>2
  <2>3. kp * e + pid + kd * rate \in Int /\ ki * e \in Int
    BY <2>2
  <2>4. wCommon' \in -W_MAX .. W_MAX
    BY <1>1, <2>1, <2>3, ClampIn
  <2>5. pid \in -W_MAX .. W_MAX
    BY DEF PiInv, PiTypes
  <2>6. pid' \in -W_MAX .. W_MAX
    BY <1>1, <2>1, <2>3, <2>5, IntegrateIn, Zenon
  <2> QED
    BY <1>2, <2>4, <2>6 DEF BalanceStep, PiInv, PiTypes, ResetForgets, wheelPi
<1>3. CASE BalanceReset
  BY <1>1, <1>3 DEF BalanceReset, PiInv, PiTypes, ResetForgets, wheelPi
<1> QED
  BY <1>2, <1>3

LEMMA PiStep == PiInv /\ [PiNext]_piVars => PiInv'
<1> SUFFICES ASSUME PiInv, [PiNext]_piVars PROVE PiInv'
  OBVIOUS
<1>1. CASE \E x \in Wheels : DriveWheel(x)
  BY <1>1, DriveWheelPiInv
<1>2. CASE DriveAlike
  BY <1>2, DriveAlikePiInv
<1>3. CASE WheelReset
  BY <1>3, WheelResetPiInv
<1>4. CASE BalanceStep \/ BalanceReset
  BY <1>4, BalancePiInv
<1>5. CASE UNCHANGED piVars
  BY <1>5 DEF PiInv, PiTypes, ResetForgets, piVars, wheelPi, balance
<1> QED
  BY <1>1, <1>2, <1>3, <1>4, <1>5 DEF PiNext

\* Duties and integrals stay within their clamps for any gains, setpoints, slew rates
\* and speeds (wheel_pi.c:173-195, balance_pid.c:64-78), and two wheels that are driven
\* alike since a reset get the same duty, whatever they did before it (wheel_pi.c:73-82).
THEOREM ControllersSafe == PiSpec => [](PiTypes /\ ResetForgets)
<1>1. PiInv => PiTypes /\ ResetForgets
  BY DEF PiInv
<1> QED
  BY InitPiInv, PiStep, <1>1, PTL DEF PiSpec

-----------------------------------------------------------------------------
(* The two OTA slots                                                         *)

\* Until the moment of the restart the slot that boots is the one that runs, so an
\* upload, which writes to the other, cannot touch it.
FlashInv ==
    /\ running \in Slots /\ boot \in Slots
    /\ slot \in [Slots -> {"whole", "part", "blank"}]
    /\ slot[running] = "whole" /\ slot[boot] = "whole"
    /\ boot = running \/ srv = "restart"
    /\ srv = "ota boot" => slot[1 - running] = "whole"

LEMMA TargetIsOther ==
    ASSUME running \in Slots
    PROVE  target \in Slots /\ target # running /\ target = 1 - running
  BY DEF target, Slots

LEMMA InitFlashInv == HttpInit => FlashInv
  BY DEF HttpInit, FlashInv, Slots

\* What can happen to the flash while the state of the task and the slots of the step
\* are as given: nothing, ...
LEMMA FlashUntouched ==
    ASSUME FlashInv, UNCHANGED flash, srv' # "ota boot",
           boot = running \/ srv' = "restart"
    PROVE  FlashInv'
  BY DEF FlashInv, flash

\* ... a write to the other slot, which becomes bootable only when it is whole, ...
LEMMA FlashWritten ==
    ASSUME FlashInv, srv # "restart", UNCHANGED <<running, boot>>,
           NEW v \in {"whole", "part"}, slot' = [slot EXCEPT ![target] = v],
           srv' = "ota boot" => v = "whole"
    PROVE  FlashInv'
<1>1. target \in Slots /\ target # running /\ target = 1 - running /\ boot = running
  BY TargetIsOther, Zenon DEF FlashInv
<1>2. slot' \in [Slots -> {"whole", "part", "blank"}] /\ slot'[running] = slot[running]
  BY <1>1 DEF FlashInv
<1>3. slot'[target] = v
  BY <1>1 DEF FlashInv
<1> QED
  BY <1>1, <1>2, <1>3 DEF FlashInv

\* ... or a new slot to boot, after a verification, and the restart.
LEMMA FlashChosen ==
    ASSUME FlashInv, SetBoot, UNCHANGED <<slot, running>>, srv # "restart"
    PROVE  FlashInv'
<1>1. target \in Slots /\ target = 1 - running
  BY TargetIsOther, Zenon DEF FlashInv
<1> QED
  BY <1>1 DEF FlashInv, SetBoot

\* Every step is one of them, or a reset.
LEMMA FlashStep ==
    ASSUME FlashInv, [HttpNext]_httpVars
    PROVE  FlashInv'
<1>1. ASSUME NEW r \in Requests, Ask(r) PROVE FlashInv'
  BY <1>1 DEF Ask, FlashInv, flash
<1>2. ASSUME NEW l, LinkTo(l) PROVE FlashInv'
  BY <1>2 DEF LinkTo, FlashInv, flash
<1>3. ASSUME NEW c, NEW s, ClientTo(c, s) PROVE FlashInv'
  BY <1>3 DEF ClientTo, FlashInv, flash
<1>4. CASE Allocate \/ Queue
  BY <1>4 DEF Allocate, Queue, FlashInv, flash
<1>5. CASE TakeWork \/ Sent
  <2>1. UNCHANGED flash /\ srv' # "ota boot" /\ srv # "restart"
    BY <1>5 DEF TakeWork, Sent
  <2> QED
    BY <2>1, FlashUntouched DEF FlashInv
<1>6. ASSUME NEW c \in Clients, SendTo(c) PROVE FlashInv'
  BY <1>6 DEF SendTo, FlashInv, flash
<1>7. ASSUME NEW r, Command(r) PROVE FlashInv'
  BY <1>7 DEF Command, Serve, FlashInv, flash
<1>8. CASE OtaPost \/ OtaBuffer \/ SeqPost \/ SeqRecv
  <2>1. UNCHANGED flash /\ srv' # "ota boot" /\ srv # "restart"
    BY <1>8 DEF OtaPost, OtaBuffer, SeqPost, SeqRecv, Serve, Over
  <2> QED
    BY <2>1, FlashUntouched DEF FlashInv
<1>9. CASE OtaRecv \/ OtaEnd
  <2>1. UNCHANGED <<running, boot>> /\ srv # "restart"
    BY <1>9 DEF OtaRecv, OtaEnd
  <2>2. CASE UNCHANGED slot /\ srv' # "ota boot"
    BY <2>1, <2>2, FlashUntouched DEF FlashInv, flash
  <2>3. CASE /\ slot' = [slot EXCEPT ![target] = "part"]
             /\ srv' # "ota boot"
    BY <2>1, <2>3, FlashWritten
  <2>4. CASE slot' = [slot EXCEPT ![target] = "whole"]
    BY <2>1, <2>4, FlashWritten
  <2> QED
    BY <1>9, <2>2, <2>3, <2>4 DEF OtaRecv, OtaEnd, Over
<1>10. CASE OtaBoot \/ Rollback
  BY <1>10, FlashChosen DEF OtaBoot, Rollback, Serve
<1>11. CASE Reset \/ Restart
  BY <1>11 DEF Reset, Restart, FlashInv
<1>12. CASE UNCHANGED httpVars
  BY <1>12 DEF httpVars, FlashInv, flash
<1> QED
  BY <1>1, <1>2, <1>3, <1>4, <1>5, <1>6, <1>7, <1>8, <1>9, <1>10, <1>11, <1>12
  DEF HttpNext, ServerStep

\* Whatever fails and whenever the power goes, the slot that boots next and the one that
\* runs hold a verified image: "a bad upload can't brick the board"
\* (web_server.c:557-560).
THEOREM NeverBricked == HttpSpec => []BootsWhole
<1>1. FlashInv => BootsWhole
  BY DEF FlashInv, BootsWhole
<1> QED
  BY InitFlashInv, FlashStep, <1>1, PTL DEF HttpSpec

-----------------------------------------------------------------------------
(* Blocks, buffers and handles                                               *)

Blocks ==
    /\ work \in Int /\ live \in Int
    /\ live = work + (IF rep THEN 1 ELSE 0) + (IF srv = "send" THEN 1 ELSE 0)
Buffers == body <=> srv \in Receiving
Handles == handle # "closed" <=> srv \in {"ota buffer", "ota recv"}

LEMMA InitLeakInv == HttpInit => Blocks /\ Buffers /\ Handles
  BY DEF HttpInit, Blocks, Buffers, Handles, Receiving

\* Each block is taken or given back in the step that moves the message.
LEMMA BlocksStep ==
    ASSUME Blocks, [HttpNext]_httpVars
    PROVE  Blocks'
<1>1. ASSUME NEW r, Ask(r) \/ Command(r) PROVE Blocks'
  BY <1>1 DEF Ask, Command, Serve, Blocks, request, broadcast
<1>2. ASSUME NEW l, LinkTo(l) PROVE Blocks'
  BY <1>2 DEF LinkTo, Blocks, broadcast
<1>3. ASSUME NEW c, (\E s \in {"open", "wedged"} : ClientTo(c, s)) \/ SendTo(c) PROVE Blocks'
  BY <1>3 DEF ClientTo, SendTo, Blocks, request
<1>4. CASE Allocate
  BY <1>4 DEF Allocate, Blocks, request
<1>5. CASE Queue
  BY <1>5 DEF Queue, Blocks, request
<1>6. CASE TakeWork \/ Sent
  BY <1>6 DEF TakeWork, Sent, Blocks, request
<1>7. CASE OtaPost
  BY <1>7 DEF OtaPost, Serve, Over, Blocks, broadcast
<1>8. CASE OtaBuffer
  BY <1>8 DEF OtaBuffer, Over, Blocks, broadcast
<1>9. CASE OtaRecv
  BY <1>9 DEF OtaRecv, Over, Blocks, broadcast
<1>10. CASE OtaEnd
  BY <1>10 DEF OtaEnd, Over, Blocks, broadcast
<1>11. CASE OtaBoot
  BY <1>11 DEF OtaBoot, SetBoot, Blocks, request, broadcast
<1>12. CASE Rollback
  BY <1>12 DEF Rollback, SetBoot, Serve, Blocks, broadcast
<1>13. CASE SeqPost
  BY <1>13 DEF SeqPost, Serve, Over, Blocks, broadcast
<1>14. CASE SeqRecv
  BY <1>14 DEF SeqRecv, Over, Blocks, broadcast
<1>15. CASE Reset \/ Restart
  BY <1>15 DEF Reset, Restart, Blocks
<1>16. CASE UNCHANGED httpVars
  BY <1>16 DEF httpVars, Blocks, request, broadcast
<1> QED
  BY <1>1, <1>2, <1>3, <1>4, <1>5, <1>6, <1>7, <1>8, <1>9, <1>10, <1>11, <1>12, <1>13,
     <1>14, <1>15, <1>16
  DEF HttpNext, ServerStep

\* Each error path of a request frees the buffer, ...
LEMMA BuffersStep ==
    ASSUME Buffers, [HttpNext]_httpVars
    PROVE  Buffers'
<1>1. ASSUME NEW r, Ask(r) \/ Command(r) PROVE Buffers'
  BY <1>1 DEF Ask, Command, Serve, Buffers, Receiving, request, broadcast
<1>2. ASSUME NEW l, LinkTo(l) PROVE Buffers'
  BY <1>2 DEF LinkTo, Buffers, Receiving, broadcast
<1>3. ASSUME NEW c, (\E s \in {"open", "wedged"} : ClientTo(c, s)) \/ SendTo(c) PROVE Buffers'
  BY <1>3 DEF ClientTo, SendTo, Buffers, Receiving, request
<1>4. CASE Allocate
  BY <1>4 DEF Allocate, Buffers, Receiving, request
<1>5. CASE Queue
  BY <1>5 DEF Queue, Buffers, Receiving, request
<1>6. CASE TakeWork \/ Sent
  <2>1. /\ UNCHANGED request /\ srv \in {"idle", "send"} /\ srv' \in {"idle", "send"}
    BY <1>6 DEF TakeWork, Sent
  <2> QED
    BY <2>1 DEF Buffers, Receiving, request
<1>7. CASE OtaPost
  BY <1>7 DEF OtaPost, Serve, Over, Buffers, Receiving, broadcast
<1>8. CASE OtaBuffer
  BY <1>8 DEF OtaBuffer, Over, Buffers, Receiving, broadcast
<1>9. CASE OtaRecv
  BY <1>9 DEF OtaRecv, Over, Buffers, Receiving, broadcast
<1>10. CASE OtaEnd
  BY <1>10 DEF OtaEnd, Over, Buffers, Receiving, broadcast
<1>11. CASE OtaBoot
  BY <1>11 DEF OtaBoot, SetBoot, Buffers, Receiving, request, broadcast
<1>12. CASE Rollback
  BY <1>12 DEF Rollback, SetBoot, Serve, Buffers, Receiving, broadcast
<1>13. CASE SeqPost
  BY <1>13 DEF SeqPost, Serve, Over, Buffers, Receiving, broadcast
<1>14. CASE SeqRecv
  BY <1>14 DEF SeqRecv, Over, Buffers, Receiving, broadcast
<1>15. CASE Reset \/ Restart
  BY <1>15 DEF Reset, Restart, Buffers, Receiving
<1>16. CASE UNCHANGED httpVars
  BY <1>16 DEF httpVars, Buffers, Receiving, request, broadcast
<1> QED
  BY <1>1, <1>2, <1>3, <1>4, <1>5, <1>6, <1>7, <1>8, <1>9, <1>10, <1>11, <1>12, <1>13,
     <1>14, <1>15, <1>16
  DEF HttpNext, ServerStep

\* ... and aborts the update.
LEMMA HandlesStep ==
    ASSUME Handles, [HttpNext]_httpVars
    PROVE  Handles'
<1>1. ASSUME NEW r, Ask(r) \/ Command(r) PROVE Handles'
  BY <1>1 DEF Ask, Command, Serve, Handles, request, broadcast
<1>2. ASSUME NEW l, LinkTo(l) PROVE Handles'
  BY <1>2 DEF LinkTo, Handles, broadcast
<1>3. ASSUME NEW c, (\E s \in {"open", "wedged"} : ClientTo(c, s)) \/ SendTo(c) PROVE Handles'
  BY <1>3 DEF ClientTo, SendTo, Handles, request
<1>4. CASE Allocate
  BY <1>4 DEF Allocate, Handles, request
<1>5. CASE Queue
  BY <1>5 DEF Queue, Handles, request
<1>6. CASE TakeWork \/ Sent
  BY <1>6 DEF TakeWork, Sent, Handles, request
<1>7. CASE OtaPost
  BY <1>7 DEF OtaPost, Serve, Over, Handles, broadcast
<1>8. CASE OtaBuffer
  BY <1>8 DEF OtaBuffer, Over, Handles, broadcast
<1>9. CASE OtaRecv
  BY <1>9 DEF OtaRecv, Over, Handles, broadcast
<1>10. CASE OtaEnd
  BY <1>10 DEF OtaEnd, Over, Handles, broadcast
<1>11. CASE OtaBoot
  BY <1>11 DEF OtaBoot, SetBoot, Handles, request, broadcast
<1>12. CASE Rollback
  BY <1>12 DEF Rollback, SetBoot, Serve, Handles, broadcast
<1>13. CASE SeqPost
  BY <1>13 DEF SeqPost, Serve, Over, Handles, broadcast
<1>14. CASE SeqRecv
  BY <1>14 DEF SeqRecv, Over, Handles, broadcast
<1>15. CASE Reset \/ Restart
  BY <1>15 DEF Reset, Restart, Handles
<1>16. CASE UNCHANGED httpVars
  BY <1>16 DEF httpVars, Handles, request, broadcast
<1> QED
  BY <1>1, <1>2, <1>3, <1>4, <1>5, <1>6, <1>7, <1>8, <1>9, <1>10, <1>11, <1>12, <1>13,
     <1>14, <1>15, <1>16
  DEF HttpNext, ServerStep

\* Every message block is in the reporter's hand, queued or being sent, and a request
\* that is over has left neither buffer nor OTA handle behind, on any error path
\* (web_server.c:540, 592-628).
THEOREM NothingIsLeftBehind == HttpSpec => []NothingLeaks
<1>1. Blocks /\ Buffers /\ Handles => NothingLeaks
  BY DEF Blocks, Buffers, Handles, NothingLeaks
<1> QED
  BY InitLeakInv, BlocksStep, BuffersStep, HandlesStep, <1>1, PTL DEF HttpSpec

-----------------------------------------------------------------------------
(* Types of the server                                                       *)

ServerPlaces == {"idle", "send", "ota buffer", "ota boot", "restart"} \cup Receiving

HttpPlaces  ==
    /\ srv \in ServerPlaces /\ link \in {"up", "stalled", "down"}
    /\ handle \in {"closed", "open", "written"}
HttpNumbers == left \in 0 .. CHUNKS /\ work \in 0 .. QMAX
HttpSets    ==
    /\ asked \subseteq Requests /\ todo \subseteq Clients
    /\ conn \in [Clients -> {"open", "wedged", "closed"}]
HttpFlags == body \in BOOLEAN /\ rep \in BOOLEAN /\ parked \in BOOLEAN

HttpTypes == HttpPlaces /\ HttpNumbers /\ HttpSets /\ HttpFlags

LEMMA InitHttpTypes == HttpInit => HttpTypes
<1> SUFFICES ASSUME HttpInit PROVE HttpTypes
  OBVIOUS
<1>1. QMAX \in Nat /\ CHUNKS \in Nat
  BY HttpAssumption
<1>2. HttpFlags
  BY Zenon DEF HttpInit, HttpFlags
<1>3. HttpNumbers
  BY <1>1 DEF HttpInit, HttpNumbers
<1>4. HttpPlaces /\ HttpSets
  BY DEF HttpInit, HttpPlaces, ServerPlaces, HttpSets
<1> QED
  BY <1>2, <1>3, <1>4 DEF HttpTypes

LEMMA HttpFlagsStep ==
    ASSUME HttpFlags, [HttpNext]_httpVars
    PROVE  HttpFlags'
<1> USE DEF HttpFlags
<1>1. ASSUME NEW r, Ask(r) PROVE HttpFlags'
  BY <1>1, Zenon DEF Ask, request, broadcast
<1>2. ASSUME NEW l, LinkTo(l) PROVE HttpFlags'
  BY <1>2, Zenon DEF LinkTo, broadcast
<1>3. ASSUME NEW c, NEW s, ClientTo(c, s) \/ SendTo(c) PROVE HttpFlags'
  BY <1>3, Zenon DEF ClientTo, SendTo, request
<1>4. CASE Allocate \/ Queue \/ TakeWork \/ Sent
  BY <1>4, Zenon DEF Allocate, Queue, TakeWork, Sent, request
<1>5. ASSUME NEW r, Command(r) PROVE HttpFlags'
  BY <1>5, Zenon DEF Command, broadcast
<1>6. CASE OtaPost \/ OtaBuffer \/ OtaRecv \/ OtaEnd \/ OtaBoot
  BY <1>6, Zenon DEF OtaPost, OtaBuffer, OtaRecv, OtaEnd, OtaBoot, request, broadcast
<1>7. CASE Rollback \/ SeqPost \/ SeqRecv \/ Reset \/ Restart
  BY <1>7, Zenon DEF Rollback, SeqPost, SeqRecv, Reset, Restart, broadcast
<1>8. CASE UNCHANGED httpVars
  BY <1>8, Zenon DEF httpVars, request, broadcast
<1> QED
  BY <1>1, <1>2, <1>3, <1>4, <1>5, <1>6, <1>7, <1>8 DEF HttpNext, ServerStep

LEMMA HttpNumbersStep ==
    ASSUME HttpNumbers, [HttpNext]_httpVars
    PROVE  HttpNumbers'
<1>1. QMAX \in Nat /\ CHUNKS \in Nat
  BY HttpAssumption
<1>2. CASE UNCHANGED <<left, work>>
  BY <1>2 DEF HttpNumbers
<1>3. ASSUME NEW r, Ask(r) \/ Command(r) PROVE HttpNumbers'
  BY <1>2, <1>3 DEF Ask, Command, request, broadcast
<1>4. ASSUME NEW l, LinkTo(l) PROVE HttpNumbers'
  BY <1>2, <1>4 DEF LinkTo, broadcast
<1>5. ASSUME NEW c, (\E s \in {"open", "wedged"} : ClientTo(c, s)) \/ SendTo(c)
      PROVE  HttpNumbers'
  BY <1>2, <1>5 DEF ClientTo, SendTo, request
<1>6. CASE Queue \/ TakeWork
  <2>1. UNCHANGED left
    BY <1>6 DEF Queue, TakeWork, request
  <2>2. \/ work < QMAX /\ work' = work + 1
        \/ work > 0 /\ work' = work - 1
        \/ work' = work
    BY <1>6 DEF Queue, TakeWork
  <2> QED
    BY <1>1, <2>1, <2>2 DEF HttpNumbers
<1>7. CASE OtaPost \/ OtaBuffer \/ OtaRecv \/ OtaEnd \/ SeqPost \/ SeqRecv
  <2>1. UNCHANGED work
    BY <1>7 DEF OtaPost, OtaBuffer, OtaRecv, OtaEnd, SeqPost, SeqRecv, broadcast
  <2>2. left' \in 0 .. CHUNKS \/ left' = left \/ left' = 0 \/ (left > 0 /\ left' = left - 1)
    <3>1. 1 .. CHUNKS \subseteq 0 .. CHUNKS
      BY <1>1
    <3>2. CASE OtaPost
      BY <3>2, Zenon DEF OtaPost, Over
    <3>3. CASE OtaBuffer
      BY <3>3, Zenon DEF OtaBuffer, Over
    <3>4. CASE OtaRecv \/ OtaEnd
      BY <3>4, Zenon DEF OtaRecv, OtaEnd, Over
    <3>5. CASE SeqPost \/ SeqRecv
      BY <3>1, <3>5, Zenon DEF SeqPost, SeqRecv, Over
    <3> QED
      BY <1>7, <3>2, <3>3, <3>4, <3>5
  <2> QED
    BY <1>1, <2>1, <2>2 DEF HttpNumbers
<1>8. CASE Allocate \/ Sent \/ OtaBoot \/ Rollback
  BY <1>2, <1>8 DEF Allocate, Sent, OtaBoot, Rollback, request, broadcast
<1>9. CASE Reset \/ Restart
  BY <1>1, <1>9 DEF Reset, Restart, HttpNumbers
<1>10. CASE UNCHANGED httpVars
  BY <1>2, <1>10 DEF httpVars, request, broadcast
<1> QED
  BY <1>3, <1>4, <1>5, <1>6, <1>7, <1>8, <1>9, <1>10 DEF HttpNext, ServerStep

LEMMA HttpSetsStep ==
    ASSUME HttpSets, [HttpNext]_httpVars
    PROVE  HttpSets'
<1> USE DEF HttpSets
<1>1. ASSUME NEW r \in Requests, Ask(r) PROVE HttpSets'
  BY <1>1 DEF Ask, broadcast
<1>2. CASE UNCHANGED <<todo, conn>> /\ (asked' = asked \/ \E r : asked' = asked \ {r})
  BY <1>2
<1>3. ASSUME NEW l, LinkTo(l) PROVE HttpSets'
  BY <1>2, <1>3 DEF LinkTo, broadcast
<1>4. ASSUME NEW c \in Clients, NEW s \in {"open", "wedged"}, ClientTo(c, s) PROVE HttpSets'
  BY <1>4 DEF ClientTo
<1>5. ASSUME NEW c \in Clients, SendTo(c) PROVE HttpSets'
  BY <1>5 DEF SendTo
<1>6. CASE Allocate \/ Queue \/ Sent
  BY <1>2, <1>6 DEF Allocate, Queue, Sent
<1>7. CASE TakeWork
  BY <1>7 DEF TakeWork
<1>8. ASSUME NEW r, Command(r) PROVE HttpSets'
  BY <1>2, <1>8 DEF Command, Serve, broadcast
<1>9. CASE OtaPost \/ Rollback \/ SeqPost
  BY <1>2, <1>9 DEF OtaPost, Rollback, SeqPost, Serve, broadcast
<1>10. CASE OtaBuffer \/ OtaRecv \/ OtaEnd \/ OtaBoot \/ SeqRecv
  BY <1>2, <1>10 DEF OtaBuffer, OtaRecv, OtaEnd, OtaBoot, SeqRecv, broadcast
<1>11. CASE Reset \/ Restart
  BY <1>11 DEF Reset, Restart
<1>12. CASE UNCHANGED httpVars
  BY <1>2, <1>12 DEF httpVars, broadcast
<1> QED
  BY <1>1, <1>3, <1>4, <1>5, <1>6, <1>7, <1>8, <1>9, <1>10, <1>11, <1>12
  DEF HttpNext, ServerStep

LEMMA HttpPlacesStep ==
    ASSUME HttpPlaces, [HttpNext]_httpVars
    PROVE  HttpPlaces'
<1> USE DEF HttpPlaces, ServerPlaces, Receiving
<1>1. CASE UNCHANGED <<srv, link, handle>>
  BY <1>1
<1>2. ASSUME NEW r, Ask(r) \/ Command(r) PROVE HttpPlaces'
  BY <1>2 DEF Ask, Command, Serve, request
<1>3. ASSUME NEW l \in {"up", "stalled", "down"}, LinkTo(l) PROVE HttpPlaces'
  BY <1>3 DEF LinkTo
<1>4. ASSUME NEW c, (\E s \in {"open", "wedged"} : ClientTo(c, s)) \/ SendTo(c)
      PROVE  HttpPlaces'
  BY <1>1, <1>4 DEF ClientTo, SendTo, request
<1>5. CASE Allocate \/ Queue
  BY <1>1, <1>5 DEF Allocate, Queue, request
<1>6. CASE TakeWork \/ Sent
  BY <1>6 DEF TakeWork, Sent, request
<1>7. CASE OtaPost \/ OtaBuffer
  BY <1>7 DEF OtaPost, OtaBuffer, Serve, Over
<1>8. CASE OtaRecv
  BY <1>8 DEF OtaRecv, Over
<1>9. CASE OtaEnd
  BY <1>9 DEF OtaEnd, Over
<1>10. CASE OtaBoot \/ Rollback
  BY <1>10 DEF OtaBoot, Rollback, SetBoot, Serve, request
<1>11. CASE SeqPost \/ SeqRecv
  BY <1>11 DEF SeqPost, SeqRecv, Serve, Over
<1>12. CASE Reset \/ Restart
  BY <1>12 DEF Reset, Restart
<1>13. CASE UNCHANGED httpVars
  BY <1>1, <1>13 DEF httpVars, request
<1> QED
  BY <1>2, <1>3, <1>4, <1>5, <1>6, <1>7, <1>8, <1>9, <1>10, <1>11, <1>12, <1>13
  DEF HttpNext, ServerStep

LEMMA HttpTypesStep == HttpTypes /\ [HttpNext]_httpVars => HttpTypes'
  BY HttpPlacesStep, HttpNumbersStep, HttpSetsStep, HttpFlagsStep DEF HttpTypes

\* A block per message bounds them: the queue, one in the reporter's hand, one being sent.
LEMMA HttpTyped == HttpTypes /\ FlashInv /\ Blocks => HttpTypeOK
<1> SUFFICES ASSUME HttpTypes, FlashInv, Blocks PROVE HttpTypeOK
  OBVIOUS
<1>1. live \in 0 .. QMAX + 2
  BY HttpAssumption DEF HttpTypes, HttpNumbers, Blocks
<1>2. {running, boot} \subseteq Slots /\ slot \in [Slots -> {"whole", "part", "blank"}]
  BY DEF FlashInv
<1>3. {body, rep, parked} \subseteq BOOLEAN
  BY Zenon DEF HttpTypes, HttpFlags
<1> QED
  BY <1>1, <1>2, <1>3, Zenon
  DEF HttpTypes, HttpPlaces, HttpNumbers, HttpSets, ServerPlaces, HttpTypeOK

-----------------------------------------------------------------------------
(* The balance button                                                        *)

\* button_task's locals against the polls themselves: the candidate is the level seen
\* last, the stable level the one held last, and the count the length of the stretch
\* that has not been held long enough yet.
DebounceInv ==
    /\ stable \in {0, 1} /\ cand \in {0, 1} /\ nPolls \in 0 .. BTN_DEBOUNCE_N - 1
    /\ same \in 1 .. BTN_DEBOUNCE_N
    /\ cand = level /\ held = stable
    /\ cand = stable => nPolls = 0
    /\ cand # stable => nPolls = same

\* The pattern the LEDs play, or are about to.
Shows(on) == IF mailbox = "empty" THEN shown = Pattern(on) ELSE mailbox = Pattern(on)

\* While no two calls have met, the one inside, if any, brings the flag and the LEDs to
\* what is wanted.
LedInv ==
    /\ bpc \in [Setters -> {"out", "test", "set"}] /\ bWants \in [Setters -> BOOLEAN]
    /\ {s_bal_enabled, want} \subseteq BOOLEAN
    /\ ~booted => /\ ~met /\ s_bal_enabled = FALSE /\ want = FALSE
                  /\ \A t \in Setters : bpc[t] = "out"
    /\ ~met =>
         /\ \A t, u \in Setters : bpc[t] # "out" /\ bpc[u] # "out" => t = u
         /\ \A t \in Setters :
              /\ bpc[t] # "out" => want = bWants[t]
              /\ bpc[t] = "test" /\ bWants[t] = s_bal_enabled => Shows(s_bal_enabled)
              /\ bpc[t] = "set" => Shows(bWants[t])
         /\ (booted /\ \A t \in Setters : bpc[t] = "out") =>
              s_bal_enabled = want /\ Shows(s_bal_enabled)

-----------------------------------------------------------------------------
(* The debounce                                                              *)

LEMMA InitDebounceInv == ButtonInit => DebounceInv
  BY ButtonAssumption DEF ButtonInit, DebounceInv

\* A poll commits a press exactly when the level has been held long enough.
LEMMA PollDebounces ==
    ASSUME DebounceInv, NEW raw \in {0, 1}, Poll(raw)
    PROVE  /\ DebounceInv'
           /\ \/ /\ Toggle
                 /\ want' = ~(IF met THEN s_bal_enabled ELSE want)
              \/ UNCHANGED <<bpc, bWants, met, want>>
<1> DEFINE k == IF raw # level THEN 1 ELSE IF same < BTN_DEBOUNCE_N THEN same + 1 ELSE same
<1>1. /\ level' = raw /\ same' = k
      /\ held' = IF k = BTN_DEBOUNCE_N THEN raw ELSE held
  BY Zenon DEF Poll, Polled
<1>2. CASE raw = stable
  <2>1. DebounceInv' /\ ~(held = 1 /\ held' = 0)
    BY <1>1, <1>2, ButtonAssumption DEF DebounceInv, Poll
  <2>2. UNCHANGED <<bpc, bWants, met>>
    BY <1>2 DEF Poll
  <2>3. want' = want
    BY <2>1, Zenon DEF Poll, Polled
  <2> QED
    BY <2>1, <2>2, <2>3
<1>3. CASE raw # stable /\ (raw # cand \/ nPolls + 1 < BTN_DEBOUNCE_N)
  <2>1. DebounceInv' /\ ~(held = 1 /\ held' = 0)
    BY <1>1, <1>3, ButtonAssumption DEF DebounceInv, Poll
  <2>2. UNCHANGED <<bpc, bWants, met>>
    <3>1. ~(raw = cand /\ nPolls + 1 >= BTN_DEBOUNCE_N)
      BY <1>3, ButtonAssumption DEF DebounceInv
    <3> QED
      BY <1>3, <3>1 DEF Poll
  <2>3. want' = want
    BY <2>1, Zenon DEF Poll, Polled
  <2> QED
    BY <2>1, <2>2, <2>3
<1>4. CASE raw # stable /\ raw = cand /\ nPolls + 1 >= BTN_DEBOUNCE_N
  <2>1. DebounceInv' /\ k = BTN_DEBOUNCE_N /\ held' = raw /\ (raw = 0 => held = 1)
    BY <1>1, <1>4, ButtonAssumption DEF DebounceInv, Poll
  <2>2. CASE raw = 0
    <3>1. Toggle
      BY <1>4, <2>2, ButtonAssumption DEF Poll, DebounceInv
    <3>2. want' = ~(IF met THEN s_bal_enabled ELSE want)
      BY <2>1, <2>2, Zenon DEF Poll, Polled
    <3> QED
      BY <2>1, <3>1, <3>2
  <2>3. CASE raw # 0
    <3>1. UNCHANGED <<bpc, bWants, met>>
      BY <1>4, <2>3, ButtonAssumption DEF Poll, DebounceInv
    <3>2. want' = want
      BY <2>1, <2>3, Zenon DEF Poll, Polled
    <3> QED
      BY <2>1, <3>1, <3>2
  <2> QED
    BY <2>2, <2>3
<1>5. nPolls + 1 < BTN_DEBOUNCE_N \/ nPolls + 1 >= BTN_DEBOUNCE_N
  BY ButtonAssumption DEF DebounceInv
<1> QED
  BY <1>2, <1>3, <1>4, <1>5

\* Nothing else touches what the debounce keeps.
LEMMA DebounceStep ==
    ASSUME DebounceInv, [ButtonNext]_buttonVars
    PROVE  DebounceInv'
<1>1. ASSUME NEW raw \in {0, 1}, Poll(raw) PROVE DebounceInv'
  BY <1>1, PollDebounces
<1>2. CASE UNCHANGED <<stable, cand, nPolls, level, same, held>>
  BY <1>2 DEF DebounceInv
<1> QED
  BY <1>1, <1>2
  DEF ButtonNext, BootHeartbeat, LedReceives, WebSets, TestAndBlink, SetFlag, buttonVars

-----------------------------------------------------------------------------
(* The flag and the LEDs                                                     *)

LEMMA InitLedInv == ButtonInit => LedInv
  BY DEF ButtonInit, LedInv, Setters

\* A call of control_set_balance that begins asks for what is wanted.
LEMMA EnterLedInv ==
    ASSUME LedInv, NEW t \in Setters, NEW on \in BOOLEAN, booted, bpc[t] = "out", Enter(t, on),
           want' \in BOOLEAN, ~met' => want' = on,
           UNCHANGED <<s_bal_enabled, mailbox, shown, booted>>
    PROVE  LedInv'
<1>1. /\ bpc' \in [Setters -> {"out", "test", "set"}] /\ bWants' \in [Setters -> BOOLEAN]
      /\ bpc'[t] = "test" /\ bWants'[t] = on
      /\ \A u \in Setters \ {t} : bpc'[u] = bpc[u]
  BY DEF LedInv, Enter
<1>2. SUFFICES ASSUME ~met' PROVE LedInv'
  BY <1>1 DEF LedInv
<1>3. \A u \in Setters \ {t} : bpc[u] = "out"
  BY <1>2 DEF Enter
<1>4. ~met \/ on # s_bal_enabled
  BY <1>2, <1>3 DEF Enter
<1>5. Shows(s_bal_enabled)' = Shows(s_bal_enabled)
  BY DEF Shows, Pattern
<1>6. on = s_bal_enabled => Shows(s_bal_enabled)
  BY <1>3, <1>4 DEF LedInv
<1> QED
  BY <1>1, <1>2, <1>3, <1>5, <1>6 DEF LedInv

LEMMA TestAndBlinkLedInv ==
    ASSUME LedInv, NEW t \in Setters, TestAndBlink(t)
    PROVE  LedInv'
  BY DEF LedInv, TestAndBlink, Shows, Pattern

LEMMA SetFlagLedInv ==
    ASSUME LedInv, NEW t \in Setters, SetFlag(t)
    PROVE  LedInv'
  BY DEF LedInv, SetFlag, Shows, Pattern

LEMMA LedStep ==
    ASSUME DebounceInv, LedInv, [ButtonNext]_buttonVars
    PROVE  LedInv'
<1>1. CASE BootHeartbeat
  BY <1>1 DEF BootHeartbeat, LedInv, Shows, Pattern
<1>2. CASE LedReceives
  BY <1>2 DEF LedReceives, LedInv, Shows, Pattern
<1>3. ASSUME NEW raw \in {0, 1}, Poll(raw) PROVE LedInv'
  <2>1. /\ booted /\ bpc["button"] = "out" /\ "button" \in Setters
        /\ UNCHANGED <<s_bal_enabled, mailbox, shown, booted>>
    BY <1>3 DEF Poll, Setters
  <2>2. CASE Toggle /\ want' = ~(IF met THEN s_bal_enabled ELSE want)
    <3>1. Enter("button", ~s_bal_enabled) /\ (~s_bal_enabled) \in BOOLEAN /\ want' \in BOOLEAN
      BY <2>2, Zenon DEF Toggle
    <3>2. ~met' => want' = ~s_bal_enabled
      <4>1. CASE met
        BY <2>2, <4>1, Zenon
      <4>2. CASE ~met /\ (\A u \in Setters : bpc[u] = "out")
        BY <2>1, <2>2, <4>2, Zenon DEF LedInv
      <4>3. CASE \E u \in Setters \ {"button"} : bpc[u] # "out"
        BY <3>1, <4>3, Zenon DEF Enter
      <4> QED
        BY <2>1, <4>1, <4>2, <4>3
    <3> QED
      BY <2>1, <3>1, <3>2, EnterLedInv, Zenon
  <2>3. CASE UNCHANGED <<bpc, bWants, met, want>>
    BY <2>1, <2>3 DEF LedInv, Shows, Pattern
  <2> QED
    BY <1>3, <2>2, <2>3, PollDebounces
<1>4. ASSUME NEW on \in BOOLEAN, WebSets(on) PROVE LedInv'
  BY <1>4, EnterLedInv DEF WebSets, Setters
<1>5. ASSUME NEW t \in Setters, TestAndBlink(t) \/ SetFlag(t) PROVE LedInv'
  BY <1>5, TestAndBlinkLedInv, SetFlagLedInv
<1>6. CASE UNCHANGED buttonVars
  BY <1>6 DEF buttonVars, LedInv, Shows, Pattern
<1> QED
  BY <1>1, <1>2, <1>3, <1>4, <1>5, <1>6 DEF ButtonNext

\* However the contact bounces and however many polls a press must last, every press
\* toggles balance once, nothing but a press or a command does, and once the mailbox is
\* read the LEDs show the state the robot is in (control.c:992-994, 1105-1106), unless a
\* press and a command meet inside control_set_balance.
THEOREM EveryPressShows == ButtonSpec => []PressShows
<1>1. LedInv => PressShows
  BY DEF LedInv, PressShows, Shows
<1>2. DebounceInv /\ LedInv /\ [ButtonNext]_buttonVars => DebounceInv' /\ LedInv'
  BY DebounceStep, LedStep
<1> QED
  BY InitDebounceInv, InitLedInv, <1>1, <1>2, PTL DEF ButtonSpec

-----------------------------------------------------------------------------
(* The sensor's FIFO                                                         *)

\* Frames that have reached the FIFO, whether it kept them or not.
Pushed == IF late THEN made - 1 ELSE made
\* The last byte of the burst that is under way.
BurstEnd == FRAME * Pushed - n + cnt

FifoFlags ==
    /\ awake \in BOOLEAN /\ intOn \in BOOLEAN /\ streaming \in BOOLEAN /\ fifoOn \in BOOLEAN
    /\ late \in BOOLEAN /\ s_imu_present \in BOOLEAN
FifoTypes ==
    /\ made \in 0 .. MaxFrames /\ n \in 0 .. CAP /\ edges \in 0 .. 2
    /\ stale_streak \in 0 .. IMU_FAIL_LIMIT /\ cnt \in 0 .. CAP /\ atTick \in 0 .. made
    /\ ipc \in {"off", "idle", "count", "clear", "enable", "registers", "burst"}
    /\ lastByte \in Nat

\* Bytes only come while the FIFO is on, and no sample is ahead of what was pushed.
FillInv ==
    /\ n > 0 => Filling
    /\ late => Filling /\ made > 0
    /\ lastByte <= FRAME * Pushed

\* The burst under way is whole in the FIFO and ends where a frame ends, after the last
\* sample and at most a frame behind what the tick had seen.
BurstInv ==
    ipc = "burst" =>
        /\ FRAME <= cnt /\ cnt <= n
        /\ late => n + FRAME <= CAP
        /\ \E q \in Nat : BurstEnd = FRAME * q
        /\ BurstEnd >= lastByte /\ BurstEnd >= FRAME * (atTick - 1)

FifoInv == FifoFlags /\ FifoTypes /\ FillInv /\ BurstInv

\* The frame size is a number, and multiplying by it keeps the order.
LEMMA FrameIsNat == FRAME \in Nat /\ FRAME > 0
  BY FifoAssumption

LEMMA FrameMonotone ==
    ASSUME NEW a \in Int, NEW b \in Int, a <= b
    PROVE  FRAME * a <= FRAME * b /\ FRAME * a \in Int /\ FRAME * b \in Int
<1>1. FRAME \in Nat
  BY FrameIsNat
<1>2. PICK d \in Nat : b = a + d
  <2>1. b - a \in Nat /\ b = a + (b - a)
    OBVIOUS
  <2> QED
    BY <2>1
<1>3. FRAME * b = FRAME * a + FRAME * d /\ FRAME * d \in Nat
  BY <1>1, <1>2
<1> QED
  BY <1>1, <1>3

LEMMA NextFrame ==
    ASSUME NEW a \in Int
    PROVE  FRAME * (a + 1) = FRAME * a + FRAME /\ FRAME * (a - 1) = FRAME * a - FRAME
  BY FrameIsNat

LEMMA WholeFrames == \A q \in Nat : (FRAME * q) % FRAME = 0
<1>1. FRAME \in Nat \ {0}
  BY FrameIsNat
<1> QED
  BY <1>1, SMT

LEMMA InitFifoInv == FifoInit => FifoInv
<1> SUFFICES ASSUME FifoInit PROVE FifoInv
  OBVIOUS
<1>1. FifoTypes
  BY FifoAssumption DEF FifoInit, FifoTypes
<1>3. FifoFlags
  BY Zenon DEF FifoInit, FifoFlags
<1>2. FillInv
  BY FrameIsNat DEF FifoInit, FillInv, Pushed
<1> QED
  BY <1>1, <1>2, <1>3 DEF FifoInit, FifoInv, BurstInv

\* A streak of stale ticks is bounded by the limit.
LEMMA StaleTypes ==
    ASSUME FifoTypes, Stale
    PROVE  stale_streak' \in 0 .. IMU_FAIL_LIMIT
<1>1. IMU_FAIL_LIMIT \in Nat
  BY FifoAssumption
<1> QED
  BY <1>1 DEF FifoTypes, Stale

LEMMA FifoFlagsStep ==
    ASSUME FifoFlags, FifoNext
    PROVE  FifoFlags'
<1>1. CASE MakeFrame
  BY <1>1, Zenon DEF FifoFlags, MakeFrame, driver
<1>2. CASE PushLate
  BY <1>2, Zenon DEF FifoFlags, PushLate, driver
<1>3. CASE InitDevice
  <2>1. PICK who, wake, int, en, clear, on \in BOOLEAN :
          /\ s_imu_present' = who
          /\ IF who
               THEN /\ awake' = (awake \/ wake) /\ intOn' = (intOn \/ int)
                    /\ streaming' = (streaming \/ en)
                    /\ fifoOn' = (IF on THEN TRUE ELSE fifoOn /\ ~clear)
                    /\ n' = IF clear THEN 0 ELSE n
               ELSE UNCHANGED <<awake, intOn, streaming, fifoOn, n>>
    BY <1>3, Zenon DEF InitDevice
  <2>2. CASE who
    BY <1>3, <2>1, <2>2, Zenon DEF FifoFlags, InitDevice
  <2>3. CASE ~who
    BY <1>3, <2>1, <2>3, Zenon DEF FifoFlags, InitDevice
  <2> QED
    BY <2>2, <2>3
<1>4. ASSUME Stale PROVE s_imu_present' \in BOOLEAN
  BY <1>4, Zenon DEF FifoFlags, Stale
<1>5. CASE TickStale \/ TickFresh \/ StopTask
  BY <1>4, <1>5, Zenon DEF FifoFlags, TickStale, TickFresh, StopTask, sensor
<1>6. CASE ReadCount \/ ReadRegisters
  BY <1>4, <1>6, Zenon DEF FifoFlags, ReadCount, ReadRegisters, Hand, Fail, sensor
<1>7. CASE ClearFifo \/ EnableFifo
  BY <1>7, Zenon DEF FifoFlags, ClearFifo, EnableFifo
<1>8. CASE ReadBurst
  BY <1>4, <1>8, Zenon DEF FifoFlags, ReadBurst, Hand, Fail
<1> QED
  BY <1>1, <1>2, <1>3, <1>5, <1>6, <1>7, <1>8, Zenon DEF FifoNext

LEMMA FifoTypesStep ==
    ASSUME FifoInv, FifoNext
    PROVE  FifoTypes'
<1> USE DEF FifoTypes, FifoInv
<1>a. /\ FRAME \in Nat /\ MAXREAD \in Nat /\ CAP \in Nat
      /\ IMU_FAIL_LIMIT \in Nat /\ MaxFrames \in Nat
  BY FifoAssumption
<1>1. CASE MakeFrame
  BY <1>1, <1>a DEF MakeFrame, Capped, driver
<1>2. CASE PushLate
  BY <1>2, <1>a DEF PushLate, Capped, driver
<1>3. CASE InitDevice
  <2>1. n' = 0 \/ n' = n
    BY <1>3, Zenon DEF InitDevice
  <2> QED
    BY <1>3, <2>1, <1>a DEF InitDevice
<1>4. CASE TickStale
  BY <1>4, StaleTypes DEF TickStale, sensor
<1>5. CASE TickFresh
  BY <1>5 DEF TickFresh
<1>6. CASE ReadCount
  <2>1. CASE ipc = "count" /\ ipc' = "idle" /\ Stale /\ cnt' = 0
             /\ UNCHANGED <<atTick, lastByte, sensor>>
    BY <2>1, <1>a, StaleTypes DEF sensor
  <2>2. CASE cnt' = n /\ ipc' \in {"clear", "burst"}
             /\ UNCHANGED <<sensor, s_imu_present, stale_streak, atTick, lastByte>>
    BY <2>2, <1>a DEF sensor
  <2> QED
    BY <1>6, <2>1, <2>2 DEF ReadCount, Fail
<1>7. CASE ClearFifo \/ EnableFifo
  <2>1. n' = 0 \/ n' = n
    BY <1>7, Zenon DEF ClearFifo, EnableFifo
  <2>2. n' \in 0 .. CAP
    BY <2>1, <1>a
  <2>4. ipc' \in {"enable", "registers"}
    BY <1>7, Zenon DEF ClearFifo, EnableFifo
  <2>3. UNCHANGED <<made, edges, stale_streak, cnt, atTick, lastByte>>
    BY <1>7 DEF ClearFifo, EnableFifo
  <2> QED
    BY <2>2, <2>3, <2>4
<1>8. CASE ReadRegisters
  <2>1. CASE Hand(FRAME * made)
    <3>1. FRAME * made \in Nat
      BY <1>a
    <3> QED
      BY <1>8, <2>1, <3>1, <1>a DEF ReadRegisters, Hand, sensor
  <2>2. CASE Fail("registers")
    BY <1>8, <2>2, <1>a, StaleTypes DEF ReadRegisters, Fail, sensor
  <2> QED
    BY <1>8, <2>1, <2>2 DEF ReadRegisters
<1>9. CASE ReadBurst
  <2>1. CASE ipc = "burst" /\ n' = n - cnt /\ Hand(FRAME * made - n + cnt)
    <3>1. FRAME * made - n + cnt \in Nat
      BY <1>9, <2>1, <1>a DEF ReadBurst, BurstInv, BurstEnd, Pushed
    <3>2. n' \in 0 .. CAP
      BY <2>1, <1>a DEF BurstInv
    <3> QED
      BY <1>9, <2>1, <3>1, <3>2, <1>a DEF ReadBurst, Hand
  <2>2. CASE \E k \in 0 .. cnt : n' = n - k /\ Fail("burst")
    <3>1. n' \in 0 .. CAP
      BY <2>2, <1>a DEF BurstInv, Fail
    <3>2. Fail("burst")
      BY <2>2
    <3> QED
      BY <1>9, <3>1, <3>2, <1>a, StaleTypes DEF ReadBurst, Fail
  <2> QED
    BY <1>9, <2>1, <2>2 DEF ReadBurst
<1>10. CASE StopTask
  BY <1>10 DEF StopTask, sensor
<1> QED
  BY <1>1, <1>2, <1>3, <1>4, <1>5, <1>6, <1>7, <1>8, <1>9, <1>10 DEF FifoNext

LEMMA PushedIsInt == FifoTypes => Pushed \in Int
  BY FifoAssumption DEF FifoTypes, Pushed

\* A frame that is pushed is counted, one that is not stays late.
LEMMA MakeFramePushes ==
    ASSUME FifoInv, MakeFrame
    PROVE  /\ Pushed' \in {Pushed, Pushed + 1}
           /\ Pushed' = Pushed => late' /\ n' = n /\ Filling
           /\ Pushed' = Pushed + 1 => n' = (IF Filling THEN Capped(n + FRAME) ELSE n)
  BY DEF FifoInv, FifoTypes, MakeFrame, Pushed

LEMMA FillStep ==
    ASSUME FifoInv, FifoNext
    PROVE  FillInv'
<1> USE DEF FifoTypes, FifoInv, FillInv
<1>a. /\ FRAME \in Nat /\ MAXREAD \in Nat /\ CAP \in Nat
      /\ IMU_FAIL_LIMIT \in Nat /\ MaxFrames \in Nat
  BY FifoAssumption
<1>b. Pushed \in Int
  BY PushedIsInt
<1>1. CASE MakeFrame
  <2>1. lastByte' <= FRAME * Pushed'
    <3>1. FRAME * Pushed <= FRAME * Pushed' /\ FRAME * Pushed \in Int /\ FRAME * Pushed' \in Int
      BY <1>1, <1>b, MakeFramePushes, FrameMonotone
    <3> QED
      BY <1>1, <3>1 DEF MakeFrame, driver
  <2>2. n' > 0 => Filling'
    BY <1>1, <1>a DEF MakeFrame, Filling
  <2>3. late' => Filling' /\ made' > 0
    <3>1. made' > 0
      BY <1>1 DEF MakeFrame
    <3>2. late' => Filling'
      BY <1>1, Zenon DEF MakeFrame, Filling
    <3> QED
      BY <3>1, <3>2
  <2> QED
    BY <2>1, <2>2, <2>3
<1>2. CASE PushLate
  <2>1. Pushed' = Pushed + 1
    BY <1>2 DEF PushLate, Pushed
  <2>2. FRAME * Pushed <= FRAME * Pushed' /\ FRAME * Pushed \in Int /\ FRAME * Pushed' \in Int
    BY <2>1, <1>b, FrameMonotone
  <2>3. lastByte' <= FRAME * Pushed'
    BY <1>2, <2>2 DEF PushLate, driver
  <2>4. n' > 0 => Filling'
    BY <1>2, <1>a DEF PushLate, Filling
  <2> QED
    BY <1>2, <2>3, <2>4 DEF PushLate
<1>3. CASE /\ UNCHANGED <<made, late, lastByte>>
           /\ n' > 0 => Filling'
           /\ late => Filling'
  <2>1. Pushed' = Pushed
    BY <1>3 DEF Pushed
  <2> QED
    BY <1>3, <2>1
<1>4. CASE InitDevice
  <2>1. UNCHANGED <<made, late, lastByte>> /\ ~late
    BY <1>4 DEF InitDevice
  <2>2. n' = 0 \/ (n' = n /\ (Filling => Filling'))
    BY <1>4, Zenon DEF InitDevice, Filling
  <2>3. ~(0 > 0)
    OBVIOUS
  <2> QED
    BY <1>3, <2>1, <2>2, <2>3, Zenon
<1>5. CASE TickStale \/ TickFresh \/ StopTask
  BY <1>5, <1>3 DEF TickStale, TickFresh, StopTask, sensor, Filling
<1>6. CASE ReadCount
  BY <1>6, <1>3 DEF ReadCount, Fail, sensor, Filling
<1>7. CASE ClearFifo \/ EnableFifo
  <2>1. UNCHANGED <<made, late, lastByte>> /\ ~late
    BY <1>7 DEF ClearFifo, EnableFifo
  <2>2. n' = 0 \/ (n' = n /\ (Filling => Filling'))
    BY <1>7, Zenon DEF ClearFifo, EnableFifo, Filling
  <2>3. ~(0 > 0)
    OBVIOUS
  <2> QED
    BY <1>3, <2>1, <2>2, <2>3, Zenon
<1>8. CASE ReadRegisters
  <2>1. CASE Hand(FRAME * made)
    <3>1. Pushed' = made /\ FRAME * made \in Int
      BY <1>8, <1>a DEF ReadRegisters, sensor, Pushed
    <3> QED
      BY <1>8, <2>1, <3>1 DEF ReadRegisters, Hand, sensor, Filling
  <2>2. CASE Fail("registers")
    BY <1>8, <2>2, <1>3 DEF ReadRegisters, Fail, sensor, Filling
  <2> QED
    BY <1>8, <2>1, <2>2 DEF ReadRegisters
<1>9. CASE ReadBurst
  <2>1. CASE ipc = "burst" /\ n' = n - cnt /\ Hand(FRAME * made - n + cnt)
    <3>1. Pushed' = made /\ FRAME * made \in Int
      BY <1>9, <1>a DEF ReadBurst, Pushed
    <3>2. lastByte' <= FRAME * Pushed'
      BY <2>1, <3>1 DEF Hand, BurstInv
    <3>3. n' > 0 => Filling'
      BY <1>9, <2>1 DEF ReadBurst, Filling
    <3> QED
      BY <1>9, <3>2, <3>3 DEF ReadBurst
  <2>2. CASE \E k \in 0 .. cnt : n' = n - k /\ Fail("burst")
    <3>1. UNCHANGED <<made, late, lastByte>>
      BY <1>9, <2>2 DEF ReadBurst, Fail
    <3>2. (n' > 0 => Filling') /\ (late => Filling')
      BY <1>9, <2>2 DEF ReadBurst, Filling
    <3> QED
      BY <1>3, <3>1, <3>2
  <2> QED
    BY <1>9, <2>1, <2>2 DEF ReadBurst
<1> QED
  BY <1>1, <1>2, <1>4, <1>5, <1>6, <1>7, <1>8, <1>9 DEF FifoNext

\* Bytes that come in behind a burst do not move its end.
LEMMA BurstStep ==
    ASSUME FifoInv, FifoNext
    PROVE  BurstInv'
<1> USE DEF FifoTypes, FifoInv
<1>a. /\ FRAME \in Nat /\ MAXREAD \in Nat /\ CAP \in Nat
      /\ IMU_FAIL_LIMIT \in Nat /\ MaxFrames \in Nat /\ 0 < FRAME
  BY FifoAssumption
<1>b. Pushed \in Int /\ Pushed' \in Int /\ FRAME * Pushed \in Int
  <2>1. Pushed \in Int
    BY PushedIsInt
  <2>2. Pushed' \in Int
    BY FifoTypesStep, <1>a DEF Pushed
  <2> QED
    BY <1>a, <2>1, <2>2
<1>1. ASSUME ipc = "burst", UNCHANGED <<ipc, cnt, atTick, lastByte>>, BurstEnd' = BurstEnd,
             n' >= n, late' => n' + FRAME <= CAP
      PROVE  BurstInv'
  <2>1. n' \in Int /\ n \in Int /\ cnt \in Int
    BY FifoTypesStep, <1>a
  <2>2. cnt' = cnt /\ cnt <= n' /\ FRAME <= cnt
    BY <1>1, <1>a, <2>1 DEF BurstInv
  <2>3. /\ \E q \in Nat : BurstEnd' = FRAME * q
        /\ BurstEnd' >= lastByte' /\ BurstEnd' >= FRAME * (atTick' - 1)
    BY <1>1, Zenon DEF BurstInv
  <2> QED
    BY <1>1, <2>2, <2>3 DEF BurstInv
<1>2. CASE MakeFrame
  <2>1. SUFFICES ASSUME ipc = "burst" PROVE BurstInv'
    BY <1>2 DEF MakeFrame, driver, BurstInv
  <2>2. n + FRAME <= CAP /\ n > 0 /\ Filling
    BY <1>2, <2>1, <1>a DEF MakeFrame, BurstInv, FillInv
  <2>3. ~late /\ n \in Nat /\ Capped(n + FRAME) = n + FRAME
    BY <1>2, <2>2, <1>a DEF MakeFrame, Capped
  <2>4. CASE Pushed' = Pushed
    <3>1. n' = n /\ BurstEnd' = BurstEnd
      BY <1>2, <2>4, MakeFramePushes DEF MakeFrame, driver, BurstEnd
    <3>2. n' >= n /\ n' + FRAME <= CAP
      BY <2>2, <2>3, <3>1
    <3>3. UNCHANGED <<ipc, cnt, atTick, lastByte>>
      BY <1>2 DEF MakeFrame, driver
    <3> QED
      BY <1>1, <2>1, <3>1, <3>2, <3>3
  <2>5. CASE Pushed' = Pushed + 1
    <3>1. n' = n + FRAME
      BY <1>2, <2>2, <2>3, <2>5, MakeFramePushes
    <3>2. FRAME * Pushed' = FRAME * Pushed + FRAME
      BY <2>5, <1>b, NextFrame
    <3>3. cnt' = cnt /\ cnt \in Int
      BY <1>2, <1>a DEF MakeFrame, driver
    <3>4. BurstEnd' = BurstEnd
      <4> DEFINE end == FRAME * Pushed
      <4>1. BurstEnd' = (FRAME * Pushed + FRAME) - (n + FRAME) + cnt
        BY <3>1, <3>2, <3>3 DEF BurstEnd
      <4>3. end \in Int /\ n \in Int /\ cnt \in Int /\ FRAME \in Int
        BY <3>3, <2>3, <1>a, <1>b
      <4>4. (end + FRAME) - (n + FRAME) + cnt = end - n + cnt
        <5> HIDE DEF end, FifoTypes, FifoInv
        <5> QED
          BY <4>3
      <4>5. BurstEnd = FRAME * Pushed - n + cnt
        BY DEF BurstEnd
      <4> QED
        BY <4>1, <4>4, <4>5
    <3>5. late' = FALSE
      <4>1. Pushed' = made'
        BY <1>2, <2>3, <2>5 DEF MakeFrame, Pushed
      <4> QED
        BY <1>2, <4>1, <2>3 DEF MakeFrame, Pushed
    <3> QED
      BY <1>1, <1>2, <1>a, <2>1, <2>3, <3>1, <3>4, <3>5 DEF MakeFrame, driver
  <2> QED
    BY <1>2, <2>4, <2>5, MakeFramePushes
<1>3. CASE PushLate
  <2>1. SUFFICES ASSUME ipc = "burst" PROVE BurstInv'
    BY <1>3 DEF PushLate, driver, BurstInv
  <2>2. n + FRAME <= CAP /\ Filling /\ n \in Nat
    BY <1>3, <2>1, <1>a DEF PushLate, BurstInv, FillInv
  <2>3. n' = n + FRAME /\ Pushed' = Pushed + 1
    BY <1>3, <2>2, <1>a DEF PushLate, Capped, Pushed
  <2>4. FRAME * Pushed' = FRAME * Pushed + FRAME
    BY <2>3, <1>b, NextFrame
  <2>5. cnt' = cnt /\ cnt \in Int
    BY <1>3, <1>a DEF PushLate, driver
  <2>6. BurstEnd' = BurstEnd
    BY <2>2, <2>3, <2>4, <2>5, <1>a, <1>b DEF BurstEnd
  <2> QED
    BY <1>1, <1>3, <1>a, <2>1, <2>2, <2>3, <2>6 DEF PushLate, driver
<1>4. CASE ReadCount
  <2>1. CASE Fail("count")
    BY <2>1 DEF Fail, BurstInv
  <2>2. CASE /\ ipc = "count" /\ cnt' = n /\ ~Unusable(n)
             /\ UNCHANGED <<sensor, atTick, lastByte>>
    <3>1. FRAME <= n /\ n <= MAXREAD
      BY <2>2, <1>a DEF Unusable
    <3>2. late => n + FRAME <= CAP
      BY <3>1, FifoAssumption
    <3>3. /\ Pushed' = Pushed
          /\ UNCHANGED <<made, n, late, atTick, lastByte>>
      BY <2>2 DEF sensor, Pushed
    <3>4. BurstEnd' = FRAME * Pushed
      BY <2>2, <3>3, <1>a, <1>b DEF BurstEnd
    <3>5. Pushed \in Nat
      BY <1>a DEF FillInv, Pushed
    <3>6. FRAME * (atTick - 1) <= FRAME * Pushed
      <4>1. atTick - 1 <= Pushed /\ atTick - 1 \in Int
        BY <1>a DEF Pushed
      <4> QED
        BY <4>1, <1>b, FrameMonotone
    <3> QED
      BY <2>2, <3>1, <3>2, <3>3, <3>4, <3>5, <3>6 DEF BurstInv, FillInv
  <2>3. CASE ipc' = "clear"
    BY <2>3 DEF BurstInv
  <2> QED
    BY <1>4, <2>1, <2>2, <2>3, Zenon DEF ReadCount
<1>5. CASE ipc' # "burst"
  BY <1>5 DEF BurstInv
<1>6. CASE InitDevice \/ StopTask \/ TickStale \/ TickFresh \/ ClearFifo \/ EnableFifo
  BY <1>5, <1>6 DEF InitDevice, StopTask, TickStale, TickFresh, ClearFifo, EnableFifo
<1>7. CASE ReadRegisters \/ ReadBurst
  BY <1>5, <1>7 DEF ReadRegisters, ReadBurst, Hand, Fail
<1> QED
  BY <1>2, <1>3, <1>4, <1>6, <1>7 DEF FifoNext

LEMMA FifoStep == FifoInv /\ [FifoNext]_fifoVars => FifoInv'
<1> SUFFICES ASSUME FifoInv, [FifoNext]_fifoVars PROVE FifoInv'
  OBVIOUS
<1>1. CASE FifoNext
  BY <1>1, FifoFlagsStep, FifoTypesStep, FillStep, BurstStep DEF FifoInv
<1>2. CASE UNCHANGED fifoVars
  <2>1. Pushed' = Pushed /\ BurstEnd' = BurstEnd /\ Filling' = Filling
    BY <1>2 DEF fifoVars, sensor, driver, Pushed, BurstEnd, Filling
  <2> QED
    BY <1>2, <2>1 DEF fifoVars, sensor, driver, FifoInv, FifoFlags, FifoTypes, FillInv,
           BurstInv
<1> QED
  BY <1>1, <1>2

\* No sample is ahead of what the sensor ever makes.
LEMMA FifoTyped == FifoInv => FifoTypeOK
<1> SUFFICES ASSUME FifoInv PROVE FifoTypeOK
  OBVIOUS
<1>1. Pushed \in Int /\ Pushed <= MaxFrames /\ MaxFrames \in Int
  BY FifoAssumption DEF FifoInv, FifoTypes, Pushed
<1>2. FRAME * Pushed <= FRAME * MaxFrames /\ FRAME * Pushed \in Int /\ FRAME * MaxFrames \in Int
  BY <1>1, FrameMonotone
<1>3. lastByte \in 0 .. FRAME * MaxFrames
  BY <1>2 DEF FifoInv, FifoTypes, FillInv
<1> QED
  BY <1>3, Zenon DEF FifoInv, FifoFlags, FifoTypes, FifoTypeOK

\* Every sample the estimator gets, from a burst or from the data registers, is one whole
\* frame, newer than the last and at most one frame behind what had been made when the
\* tick saw its edges (imu.c:244-249, 267), wherever a transfer fails.
THEOREM NewestSample == FifoSpec => SampleIsNewest
<1> DEFINE P == (ipc \in {"registers", "burst"} /\ ipc' = "idle" /\ lastByte' # lastByte) =>
                   /\ lastByte' % FRAME = 0
                   /\ lastByte' > lastByte
                   /\ lastByte' >= FRAME * (atTick - 1)
<1>1. FifoInv /\ [FifoNext]_fifoVars => P
  <2> SUFFICES ASSUME FifoInv, [FifoNext]_fifoVars, ipc \in {"registers", "burst"},
                      ipc' = "idle", lastByte' # lastByte
               PROVE  /\ lastByte' % FRAME = 0
                      /\ lastByte' > lastByte
                      /\ lastByte' >= FRAME * (atTick - 1)
    BY Zenon
  <2>1. ReadRegisters \/ ReadBurst
    BY DEF FifoNext, fifoVars, MakeFrame, PushLate, InitDevice, StopTask, TickStale, TickFresh,
           ReadCount, ClearFifo, EnableFifo, Fail, driver
  <2>2. lastByte \in Nat /\ made \in Nat /\ atTick \in Int /\ atTick - 1 <= made
    BY FifoAssumption DEF FifoInv, FifoTypes
  <2>3. CASE ~late /\ lastByte' = FRAME * made
    <3>1. Pushed = made
      BY <2>3 DEF Pushed
    <3>2. FRAME * (atTick - 1) <= FRAME * made /\ FRAME * made \in Int
      BY <2>2, FrameMonotone
    <3> QED
      BY <2>2, <2>3, <3>1, <3>2, WholeFrames DEF FifoInv, FillInv
  <2>4. CASE ~late /\ ipc = "burst" /\ lastByte' = FRAME * made - n + cnt
    <3>1. lastByte' = BurstEnd
      BY <2>4 DEF Pushed, BurstEnd
    <3>2. PICK q \in Nat : BurstEnd = FRAME * q
      BY <2>4 DEF FifoInv, BurstInv
    <3>3. FRAME * q \in Int
      BY FrameIsNat
    <3> QED
      BY <2>2, <2>4, <3>1, <3>2, <3>3, WholeFrames DEF FifoInv, BurstInv
  <2> QED
    BY <2>1, <2>3, <2>4 DEF ReadRegisters, ReadBurst, Hand, Fail
<1>2. FifoSpec => [][P]_fifoVars
  BY InitFifoInv, FifoStep, <1>1, PTL DEF FifoSpec
<1> QED
  BY <1>2, Zenon DEF SampleIsNewest

-----------------------------------------------------------------------------
(* The pairing                                                               *)

\* A node that still pairs has beacons left to send.
PairInv ==
    /\ up \in [Nodes -> BOOLEAN] /\ pairing \in [Nodes -> BOOLEAN]
    /\ s_peer_pending \in [Nodes -> BOOLEAN] /\ s_paired \in [Nodes -> BOOLEAN]
    /\ post \in [Nodes -> 0 .. MOREBEACONS] /\ lost \in [Nodes -> 0 .. MAXLOST]
    /\ \A x \in Nodes : pairing[x] => post[x] < MOREBEACONS
    /\ s_from_station \in 0 .. RXBUF /\ echoes \in 0 .. RXBUF

LEMMA InitPairInv == PairInit => PairInv
<1> SUFFICES ASSUME PairInit PROVE PairInv
  OBVIOUS
<1>1. MOREBEACONS \in Nat /\ MOREBEACONS > 0 /\ MAXLOST \in Nat /\ RXBUF \in Nat
  BY PairingAssumption
<1>2. post \in [Nodes -> 0 .. MOREBEACONS] /\ lost \in [Nodes -> 0 .. MAXLOST]
  BY <1>1 DEF PairInit
<1>3. \A x \in Nodes : post[x] < MOREBEACONS
  BY <1>1 DEF PairInit
<1>4. s_from_station \in 0 .. RXBUF /\ echoes \in 0 .. RXBUF
  BY <1>1 DEF PairInit
<1>5. /\ up \in [Nodes -> BOOLEAN] /\ pairing \in [Nodes -> BOOLEAN]
      /\ s_peer_pending \in [Nodes -> BOOLEAN] /\ s_paired \in [Nodes -> BOOLEAN]
  BY Zenon DEF PairInit
<1> QED
  BY <1>2, <1>3, <1>4, <1>5 DEF PairInv

LEMMA PeerIsNode == \A x \in Nodes : Peer(x) \in Nodes
  BY DEF Peer, Nodes

\* A unicast into a buffer never overfills it.
LEMMA IntoFits ==
    ASSUME NEW b \in 0 .. RXBUF, NEW y, NEW c \in Into(b, y)
    PROVE  c \in 0 .. RXBUF
<1>1. RXBUF \in Nat
  BY PairingAssumption
<1> QED
  BY <1>1 DEF Into

LEMMA PairRoundInv ==
    ASSUME PairInv, NEW x \in Nodes, PairRound(x)
    PROVE  PairInv'
<1>1. MOREBEACONS \in Nat /\ MOREBEACONS > 0 /\ MAXLOST \in Nat
  BY PairingAssumption
<1>2. up' \in [Nodes -> BOOLEAN] /\ s_from_station' \in 0 .. RXBUF /\ echoes' \in 0 .. RXBUF
  BY DEF PairInv, PairRound
<1>3. s_paired' \in [Nodes -> BOOLEAN]
  <2>1. (s_paired[x] \/ s_peer_pending[x]) \in BOOLEAN
    BY Zenon
  <2> QED
    BY <2>1, Zenon DEF PairInv, PairRound
<1>4. s_peer_pending' \in [Nodes -> BOOLEAN]
  <2>1. \A y \in Nodes : (s_peer_pending[y] \/ ~s_paired'[y]) \in BOOLEAN
    BY Zenon
  <2> QED
    BY <2>1, PeerIsNode, Zenon DEF PairInv, PairRound, OnBeacon
<1>5. post' \in [Nodes -> 0 .. MOREBEACONS] /\ post'[x] <= MOREBEACONS
      /\ \A y \in Nodes \ {x} : post'[y] = post[y]
  <2> DEFINE p == IF s_paired'[x] THEN post[x] + 1 ELSE post[x]
  <2>1. pairing[x] /\ post' = [post EXCEPT ![x] = p]
    BY Zenon DEF PairRound
  <2>2. p \in 0 .. MOREBEACONS
    BY <1>1, <2>1 DEF PairInv
  <2> HIDE DEF p
  <2> QED
    BY <1>1, <2>1, <2>2 DEF PairInv
<1>6. pairing' \in [Nodes -> BOOLEAN] /\ (\A y \in Nodes \ {x} : pairing'[y] = pairing[y])
      /\ (pairing'[x] => ~(s_paired'[x] /\ post'[x] >= MOREBEACONS))
  <2>1. (~(s_paired'[x] /\ post'[x] >= MOREBEACONS)) \in BOOLEAN
    BY Zenon
  <2> QED
    BY <2>1, Zenon DEF PairInv, PairRound
<1>7. pairing'[x] => post'[x] < MOREBEACONS
  <2>1. CASE s_paired'[x]
    <3>1. post'[x] \in Int
      BY <1>1, <1>5
    <3> QED
      BY <1>1, <1>6, <2>1, <3>1
  <2>2. CASE ~s_paired'[x]
    <3>1. post' = [post EXCEPT ![x] = post[x]] /\ pairing[x]
      BY <2>2, Zenon DEF PairRound
    <3> QED
      BY <3>1 DEF PairInv
  <2> QED
    BY <2>1, <2>2
<1>8. lost' \in [Nodes -> 0 .. MAXLOST]
  <2>1. CASE lost' = [lost EXCEPT ![x] = 0]
    BY <1>1, <2>1 DEF PairInv
  <2>2. CASE lost[x] < MAXLOST /\ lost' = [lost EXCEPT ![x] = lost[x] + 1]
    BY <1>1, <2>2 DEF PairInv
  <2>3. CASE UNCHANGED lost
    BY <2>3 DEF PairInv
  <2> QED
    BY <2>1, <2>2, <2>3 DEF PairRound
<1>9. \A y \in Nodes : pairing'[y] => post'[y] < MOREBEACONS
  BY <1>5, <1>6, <1>7, Zenon DEF PairInv
<1> QED
  BY <1>2, <1>3, <1>4, <1>5, <1>6, <1>8, <1>9, Zenon DEF PairInv

LEMMA PairStep == PairInv /\ [PairNext]_pairVars => PairInv'
<1> SUFFICES ASSUME PairInv, [PairNext]_pairVars PROVE PairInv'
  OBVIOUS
<1>1. ASSUME NEW x \in Nodes, BootNode(x) PROVE PairInv'
  <2>1. up' \in [Nodes -> BOOLEAN]
    BY <1>1, Zenon DEF PairInv, BootNode
  <2>2. UNCHANGED <<pairing, s_peer_pending, s_paired, post, lost, s_from_station, echoes>>
    BY <1>1, Zenon DEF BootNode
  <2> QED
    BY <2>1, <2>2, Zenon DEF PairInv
<1>2. ASSUME NEW x \in Nodes, PairRound(x) PROVE PairInv'
  BY <1>2, PairRoundInv
<1>3. CASE UNCHANGED <<up, pairing, s_peer_pending, s_paired, post, lost>>
           /\ s_from_station' \in 0 .. RXBUF /\ echoes' \in 0 .. RXBUF
  BY <1>3, Zenon DEF PairInv
<1>4. 0 \in 0 .. RXBUF
  BY PairingAssumption
<1>5. CASE Forward
  BY <1>3, <1>5, IntoFits DEF Forward, PairInv
<1>6. CASE Echo \/ Heartbeat \/ ToClients
  BY <1>3, <1>4, <1>6, IntoFits DEF Echo, Heartbeat, ToClients, PairInv
<1>7. CASE UNCHANGED pairVars
  BY <1>3, <1>7, Zenon DEF pairVars, PairInv
<1> QED
  BY <1>1, <1>2, <1>5, <1>6, <1>7 DEF PairNext

LEMMA PairTyped == PairInv => PairTypeOK
  BY Zenon DEF PairInv, PairTypeOK

-----------------------------------------------------------------------------
(* Side by side                                                              *)

\* What the controllers and the button keep, beside the invariants above.
LEMMA PiTyped == PiTypes => PiTypeOK
<1> SUFFICES ASSUME PiTypes PROVE PiTypeOK
  OBVIOUS
<1>1. ASSUME NEW x \in Wheels
      PROVE  /\ pi[x].i \in -DUTY_MAX .. DUTY_MAX /\ duty[x] \in -DUTY_MAX .. DUTY_MAX
             /\ pi[x].filt \in Int /\ pi[x].ref \in -WSET_MAX .. WSET_MAX
             /\ pi[x].primed \in BOOLEAN
  BY DEF PiTypes, WheelState
<1> QED
  BY <1>1, Zenon DEF PiTypes, PiTypeOK

ButtonPlaces ==
    /\ mailbox \in {"empty", "slow", "1 Hz"} /\ shown \in {"off", "slow", "1 Hz"}
    /\ booted \in BOOLEAN /\ met \in BOOLEAN

LEMMA InitButtonPlaces == ButtonInit => ButtonPlaces
  BY DEF ButtonInit, ButtonPlaces

LEMMA ButtonPlacesStep ==
    ASSUME ButtonPlaces, [ButtonNext]_buttonVars
    PROVE  ButtonPlaces'
<1>1. ASSUME NEW t, NEW on, Enter(t, on) PROVE met' \in BOOLEAN
  BY <1>1, Zenon DEF Enter, ButtonPlaces
<1>2. ASSUME NEW raw, Poll(raw) PROVE ButtonPlaces'
  BY <1>1, <1>2, Zenon DEF Poll, Toggle, ButtonPlaces
<1>3. ASSUME NEW on, WebSets(on) PROVE ButtonPlaces'
  BY <1>1, <1>3, Zenon DEF WebSets, ButtonPlaces
<1>4. CASE BootHeartbeat \/ LedReceives
  BY <1>4 DEF BootHeartbeat, LedReceives, Pattern, ButtonPlaces
<1>5. ASSUME NEW t, TestAndBlink(t) \/ SetFlag(t) PROVE ButtonPlaces'
  BY <1>5 DEF TestAndBlink, SetFlag, Pattern, ButtonPlaces
<1>6. CASE UNCHANGED buttonVars
  BY <1>6, Zenon DEF buttonVars, ButtonPlaces
<1> QED
  BY <1>2, <1>3, <1>4, <1>5, <1>6 DEF ButtonNext

LEMMA ButtonTyped == DebounceInv /\ LedInv /\ ButtonPlaces => ButtonTypeOK
<1> SUFFICES ASSUME DebounceInv, LedInv, ButtonPlaces PROVE ButtonTypeOK
  OBVIOUS
<1>1. {stable, cand, level, held} \subseteq {0, 1}
  BY DEF DebounceInv
<1>2. {s_bal_enabled, booted, want, met} \subseteq BOOLEAN
  BY Zenon DEF LedInv, ButtonPlaces
<1> QED
  BY <1>1, <1>2, Zenon DEF DebounceInv, LedInv, ButtonPlaces, ButtonTypeOK

\* A step of the devices is a step of the part that runs and none of any other.
LEMMA PartsStep ==
    ASSUME [DevicesNext]_vars
    PROVE  /\ [EncNext]_encVars /\ [FifoNext]_fifoVars /\ [HttpNext]_httpVars
           /\ [PairNext]_pairVars /\ [ButtonNext]_buttonVars /\ [PiNext]_piVars
<1>1. CASE Only("encoder") /\ EncNext
  BY <1>1 DEF Only
<1>2. CASE Only("fifo") /\ FifoNext
  BY <1>2 DEF Only
<1>3. CASE Only("http") /\ HttpNext
  BY <1>3 DEF Only
<1>4. CASE Only("pairing") /\ PairNext
  BY <1>4 DEF Only
<1>5. CASE Only("button") /\ ButtonNext
  BY <1>5 DEF Only
<1>6. CASE (Only("wheel pi") \/ Only("balance pid")) /\ PiNext
  BY <1>6 DEF Only
<1>7. CASE UNCHANGED vars
  BY <1>7 DEF vars
<1> QED
  BY <1>1, <1>2, <1>3, <1>4, <1>5, <1>6, <1>7 DEF DevicesNext

\* The checked composition implements each part's own specification, so what is proved of a
\* part holds where the model checker runs it.
THEOREM DevicesImplementParts ==
    DevicesSpec => /\ EncSpec /\ FifoSpec /\ HttpSpec /\ ButtonSpec /\ PiSpec
                   /\ PairInit /\ [][PairNext]_pairVars
<1>1. DevicesInit => EncInit /\ FifoInit /\ HttpInit /\ PairInit /\ ButtonInit /\ PiInit
  BY DEF DevicesInit
<1> QED
  BY <1>1, PartsStep, PTL
  DEF DevicesSpec, EncSpec, FifoSpec, HttpSpec, ButtonSpec, PiSpec

DevicesInv ==
    /\ EncInv /\ FifoInv /\ PairInv
    /\ HttpTypes /\ FlashInv /\ Blocks
    /\ DebounceInv /\ LedInv /\ ButtonPlaces
    /\ PiInv

\* Every device keeps its variables in range: counters, byte counts, queue and buffer
\* levels, and the controllers' integrals and duties (encoders.c, imu.c, web_server.c,
\* control.c, wheel_pi.c, balance_pid.c and the quick checks' app_main.c).
THEOREM DeviceTypes == DevicesSpec => []TypeOK
<1>1. DevicesInit => DevicesInv
  BY InitEncInv, InitFifoInv, InitPairInv, InitHttpTypes, InitFlashInv, InitLeakInv,
     InitDebounceInv, InitLedInv, InitButtonPlaces, InitPiInv, Zenon
  DEF DevicesInit, DevicesInv
<1>2. DevicesInv /\ [DevicesNext]_vars => DevicesInv'
  <2> SUFFICES ASSUME DevicesInv, [DevicesNext]_vars PROVE DevicesInv'
    OBVIOUS
  <2>1. EncInv' /\ FifoInv' /\ PairInv'
    BY PartsStep, EncStep, FifoStep, PairStep, Zenon DEF DevicesInv
  <2>2. HttpTypes' /\ FlashInv' /\ Blocks'
    BY PartsStep, HttpTypesStep, FlashStep, BlocksStep, Zenon DEF DevicesInv
  <2>3. DebounceInv' /\ LedInv' /\ ButtonPlaces'
    BY PartsStep, DebounceStep, LedStep, ButtonPlacesStep, Zenon DEF DevicesInv
  <2>4. PiInv'
    BY PartsStep, PiStep, Zenon DEF DevicesInv
  <2> QED
    BY <2>1, <2>2, <2>3, <2>4, Zenon DEF DevicesInv
<1>3. DevicesInv => TypeOK
  BY EncTyped, FifoTyped, HttpTyped, PairTyped, ButtonTyped, PiTyped, Zenon
  DEF DevicesInv, EncInv, PiInv, TypeOK
<1> QED
  BY <1>1, <1>2, <1>3, PTL DEF DevicesSpec
=============================================================================
