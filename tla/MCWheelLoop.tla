---------------------------- MODULE MCWheelLoop -----------------------------
(* Model-checking instance of WheelLoop.                                     *)
EXTENDS WheelLoop
=============================================================================
