------------------------------ MODULE Snapshot ------------------------------
(* What the imu_task -> motor_task snapshot promises: a register holding one *)
(* whole sample at a time, and a reader whose copy is always a whole sample  *)
(* it found there.  Samples are numbered in the order they are published.    *)
EXTENDS Naturals

VARIABLES published,  \* number of the sample in the register
          copy        \* number of the sample the reader holds

svars == <<published, copy>>

SInit == published = 0 /\ copy = 0

Publish == published' = published + 1 /\ UNCHANGED copy
Take    == copy' = published /\ UNCHANGED published
Forget  == copy' = 0 /\ UNCHANGED published     \* the reader restarts

SNext == Publish \/ Take \/ Forget

SSpec == SInit /\ [][SNext]_svars
=============================================================================
