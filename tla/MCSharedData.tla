---------------------------- MODULE MCSharedData ----------------------------
(* Model-checking instance of the three ways in which control.c hands data   *)
(* from one task to another without a lock: the telemetry batches, the       *)
(* snapshot and the warning counters.  They share no variable, so one        *)
(* behaviour runs one of them, `which`, and leaves the others at rest.       *)
EXTENDS MCTelemetryHandoff

CONSTANTS
    Words, SeqMod, MaxWrites,
    Kinds, NoKind, MaxEvents

VARIABLES
    which,
    \* Seqlock
    s_pub_seq, s_pub, writes, toWrite, wpc, s_rpc, s0, toRead, got, pub,
    \* WarningDrain
    s_warn_count, adding, load, d_rpc, group, left, seen, happened, owed

snapshot == <<s_pub_seq, s_pub, writes, toWrite, wpc, s_rpc, s0, toRead, got, pub>>
warnings == <<s_warn_count, adding, load, d_rpc, group, left, seen, happened, owed>>
all      == <<which, vars, snapshot, warnings>>

S == INSTANCE Seqlock WITH rpc <- s_rpc
W == INSTANCE WarningDrain WITH rpc <- d_rpc

ASSUME SharedDataAssumption == S!SeqlockAssumption /\ W!DrainAssumption

SharedInit ==
    /\ which \in {"batches", "snapshot", "warnings"}
    /\ Init /\ S!Init /\ W!Init

\* One step A of the one that runs.
Batches(A) == which = "batches" /\ A /\ UNCHANGED <<which, snapshot, warnings>>
Copies(A)  == which = "snapshot" /\ A /\ UNCHANGED <<which, vars, warnings>>
Counts(A)  == which = "warnings" /\ A /\ UNCHANGED <<which, vars, snapshot>>

SharedNext == Batches(Next) \/ Copies(S!Next) \/ Counts(W!Next)

SharedSpec == SharedInit /\ [][SharedNext]_all

\* The fairness of the one that runs, as its module states it; the snapshot is
\* asked for safety only.
SharedFairSpec ==
    /\ SharedSpec
    /\ WF_all(Batches(ReporterStep))
    /\ WF_all(Counts(W!Report))
    /\ \A g \in W!Groups : WF_all(Counts(\E k \in Kinds : W!Add(g, k)))

-----------------------------------------------------------------------------
\* "the motor loop reads a consistent frame without a mutex" (control.c:87).
NoTornRead == S!NoTornRead

\* A read that begins leaves the newest complete publication (control.c:109-111).
ReadIsNewest == S!ReadIsNewest

\* The seqlock implements a register of whole samples (control.c:100-122).
ImplementsSnapshot == S!ImplementsSnapshot

\* Whatever addition the clearing of the motor counters races with, a violation
\* is not forgotten (control.c:741).
MotorRemembered == W!MotorRemembered

\* A violation of the motor loop is in the end broadcast (control.c:737-753).
MotorIsTold == W!MotorIsTold
=============================================================================
