-------------------------- MODULE ControlContract --------------------------
(* What the control lifecycle promises its callers, with the two cores, the  *)
(* tasks and the timers left out (control.h, web_server.c):                  *)
(*   - the wheels are driven only while control is started,                  *)
(*   - control is stopped only once the wheels are parked,                   *)
(*   - firmware is flashed only while control is stopped.                    *)
VARIABLES phase,    \* "stopped", "running" or "flashing"
          moving    \* the motors are driven

cvars == <<phase, moving>>

CInit == phase = "stopped" /\ moving = FALSE

\* control_set_mode(START_CONTROL)
Start == phase = "stopped" /\ phase' = "running" /\ UNCHANGED moving

\* The motor loop drives or parks the wheels.
Drive == phase = "running" /\ moving' \in BOOLEAN /\ UNCHANGED phase

\* control_set_mode(STOP_CONTROL) returns
Stop == phase = "running" /\ ~moving /\ phase' = "stopped" /\ UNCHANGED moving

\* An upload passes the gate, and ends (refused images leave control stopped).
Flash    == phase = "stopped" /\ phase' = "flashing" /\ UNCHANGED moving
FlashEnd == phase = "flashing" /\ phase' = "stopped" /\ UNCHANGED moving

\* A chip reset, from any phase, parks the wheels.
Reset == phase' = "stopped" /\ moving' = FALSE

CNext == Start \/ Drive \/ Stop \/ Flash \/ FlashEnd \/ Reset

CSpec == CInit /\ [][CNext]_cvars
=============================================================================
