----------------------------- MODULE Controllers -----------------------------
(* The two feedback laws: the wheel-speed PI (firmware/main/wheel_pi.c), one   *)
(* state per wheel, and the balance PID (firmware/main/balance_pid.c).  Floats *)
(* are integers in units of their own, a gain times a tick is one factor, and  *)
(* a low-pass filter lands anywhere between its old value and its input.       *)
EXTENDS Integers

CONSTANTS
    DUTY_MAX, NEUTRAL, DB_FLOOR,  \* WHEEL_PI_*; the integral is clamped at DUTY_MAX too
    WSET_MAX,                     \* WHEEL_PI_WSET_MAX
    W_MAX,                        \* BALANCE_W_MAX
    Speeds,                       \* what the encoders and the terminal may say
    Gains,                        \* kp, ki, kff as the terminal sets them
    Tilts                         \* tilts and tilt rates

ASSUME ControllersAssumption ==
    /\ {DUTY_MAX, NEUTRAL, DB_FLOOR, WSET_MAX, W_MAX} \subseteq Nat /\ DB_FLOOR <= DUTY_MAX
    /\ Speeds \subseteq Int /\ Gains \subseteq Int /\ Tilts \subseteq Int

VARIABLES
    pi,     \* per wheel: s_i_acc, s_w_filt, s_w_ref, s_primed
    duty,   \* per wheel: what wheel_pi_step returned last, 0 after a reset
    alike,  \* both wheels have had the same inputs since the last reset
    pid,    \* the balance integral, s_i_acc of balance_pid.c
    wCommon \* what balance_pid_step returned last

wheelPi  == <<pi, duty, alike>>
balance  == <<pid, wCommon>>
piVars   == <<wheelPi, balance>>
Wheels   == {0, 1}

\* A clamp to -m .. m, as every limit of the two files is written.
Clamp(x, m) == IF x > m THEN m ELSE IF x < -m THEN -m ELSE x

Abs(x)      == IF x < 0 THEN -x ELSE x
Between(a, b) == IF a <= b THEN a .. b ELSE b .. a

\* wheel_pi_reset, per wheel.
Fresh == [i |-> 0, filt |-> 0, ref |-> 0, primed |-> FALSE]

PiInit ==
    /\ pi = [x \in Wheels |-> Fresh] /\ duty = [x \in Wheels |-> 0] /\ alike = TRUE
    /\ pid = 0 /\ wCommon = 0

-----------------------------------------------------------------------------
\* deadband_compensate.
Compensate(u) ==
    IF Abs(u) < NEUTRAL THEN 0
    ELSE IF u > 0 THEN (IF u > DB_FLOOR THEN u ELSE DB_FLOOR)
    ELSE (IF u < -DB_FLOOR THEN u ELSE -DB_FLOOR)

\* Wrong variant of Integrate: no clamp on the integral.
IntegrateFree(acc, inc, e, u, sat, m) ==
    IF (u > sat /\ e > 0) \/ (u < sat /\ e < 0) THEN acc ELSE acc + inc

\* Conditional integration: not further into the side the output is clamped on, and
\* never beyond m.
Integrate(acc, inc, e, u, sat, m) ==
    IF (u > sat /\ e > 0) \/ (u < sat /\ e < 0) THEN acc ELSE Clamp(acc + inc, m)

\* The settings the setters let through: a setpoint within reach, a slew of 0 (off) or
\* more per tick, the setpoint weight at 0 or 1, the rest as given.
Settings ==
    [set : {Clamp(w, WSET_MAX) : w \in Speeds}, slew : {0, 1}, b : {0, 1},
     kp : Gains, ki : Gains, kff : Gains, db : BOOLEAN, tau : BOOLEAN]

\* Feedforward u = w / K, off when K is 0.
Feed(w, k) == IF k = 0 THEN 0 ELSE IF k > 0 THEN w \div k ELSE -(w \div (-k))

\* The reference moves to the setpoint, by at most the slew.
Ref(s, k)  == IF k.slew > 0 THEN s.ref + Clamp(k.set - s.ref, k.slew) ELSE k.set

\* wheel_pi_step from state s under settings k, the filter landing on f.
Raw(s, k, f)     == Feed(Ref(s, k), k.kff) + k.kp * (k.b * Ref(s, k) - f) + s.i
Unclamped(s, k, f) == IF k.db THEN Compensate(Raw(s, k, f)) ELSE Raw(s, k, f)
Duty(s, k, f)    == Clamp(Unclamped(s, k, f), DUTY_MAX)
Stepped(s, k, f) ==
    LET e == Ref(s, k) - f
    IN  [i |-> Integrate(s.i, k.ki * e, e, Unclamped(s, k, f), Duty(s, k, f), DUTY_MAX),
         filt |-> f, ref |-> Ref(s, k), primed |-> TRUE]

\* Where the measurement filter may land: on the measured speed when it is off or not
\* primed yet.
Filtered(s, k, w) == IF k.tau /\ s.primed THEN Between(s.filt, w) ELSE {w}

\* A tick of one wheel, under whatever the terminal has set by now.
DriveWheel(x) ==
    /\ \E k \in Settings, w \in Speeds : \E f \in Filtered(pi[x], k, w) :
         /\ pi' = [pi EXCEPT ![x] = Stepped(pi[x], k, f)]
         /\ duty' = [duty EXCEPT ![x] = Duty(pi[x], k, f)]
    /\ alike' = FALSE
    /\ UNCHANGED balance

\* A tick of both wheels with the same settings, speed and filter.
DriveAlike ==
    /\ alike
    /\ \E k \in Settings, w \in Speeds : \E f \in Filtered(pi[0], k, w) :
         /\ f \in Filtered(pi[1], k, w)
         /\ pi' = [x \in Wheels |-> Stepped(pi[x], k, f)]
         /\ duty' = [x \in Wheels |-> Duty(pi[x], k, f)]
    /\ UNCHANGED <<alike, balance>>

\* Wrong variant of WheelReset: only the integral is cleared.
WheelResetIntegral ==
    /\ pi' = [x \in Wheels |-> [pi[x] EXCEPT !.i = 0]] /\ duty' = [x \in Wheels |-> 0]
    /\ alike' = TRUE /\ UNCHANGED balance

WheelReset ==
    /\ pi' = [x \in Wheels |-> Fresh] /\ duty' = [x \in Wheels |-> 0] /\ alike' = TRUE
    /\ UNCHANGED balance

\* balance_pid_step and balance_pid_reset: e is the lean from the trimmed upright.
BalanceStep ==
    /\ \E kp, ki, kd \in Gains, e, rate \in Tilts :
         LET u == kp * e + pid + kd * rate
         IN  /\ wCommon' = Clamp(u, W_MAX)
             /\ pid' = Integrate(pid, ki * e, e, u, wCommon', W_MAX)
    /\ UNCHANGED wheelPi

BalanceReset == pid' = 0 /\ wCommon' = 0 /\ UNCHANGED wheelPi

PiNext ==
    \/ \E x \in Wheels : DriveWheel(x)
    \/ DriveAlike \/ WheelReset
    \/ BalanceStep \/ BalanceReset

PiSpec == PiInit /\ [][PiNext]_piVars

-----------------------------------------------------------------------------
\* Duty and integral stay within the clamps whatever gains are typed.
PiTypeOK ==
    /\ \A x \in Wheels :
         /\ pi[x].i \in -DUTY_MAX .. DUTY_MAX /\ duty[x] \in -DUTY_MAX .. DUTY_MAX
         /\ pi[x].filt \in Int /\ pi[x].ref \in -WSET_MAX .. WSET_MAX
         /\ pi[x].primed \in BOOLEAN
    /\ alike \in BOOLEAN
    /\ pid \in -W_MAX .. W_MAX /\ wCommon \in -W_MAX .. W_MAX

\* A reset forgets everything: driven alike after it, two wheels with any past get
\* the same duty at every tick.  The rising edge into closed loop (control.c:486, "for
\* a clean start") and the first tick of a balance cut (512) rely on it.
ResetForgets == alike => pi[0] = pi[1] /\ duty[0] = duty[1]
=============================================================================
