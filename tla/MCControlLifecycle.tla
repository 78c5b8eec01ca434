------------------------- MODULE MCControlLifecycle -------------------------
(* Model-checking instance of ControlLifecycle: two instances of each task,  *)
(* one more than a correct lifecycle ever needs, so that a second motor_task *)
(* has somewhere to go.                                                      *)
EXTENDS ControlLifecycle, TLC

CONSTANTS m1, m2, i1, i2

MCMotorTasks == {m1, m2}
MCImuTasks   == {i1, i2}

\* Instances of a task are interchangeable (for runs without liveness).
TaskSymmetry == Permutations(MCMotorTasks) \cup Permutations(MCImuTasks)
=============================================================================
