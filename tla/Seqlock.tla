------------------------------ MODULE Seqlock -------------------------------
(* The seqlock that hands the IMU sample and the tilt estimate from imu_task *)
(* to motor_task for the telemetry record (control.c:87-122).  The payload   *)
(* is a set of Words copied one at a time; a word holds the number of the    *)
(* publication that wrote it, 0 before the first.                            *)
(*                                                                           *)
(* Both tasks are pinned to core 1 and motor_task has the higher priority:   *)
(* it may preempt the writer between any two stores, and a read that has     *)
(* begun ends before the writer goes on.                                     *)
EXTENDS Integers

CONSTANTS
    Words,      \* the words of imu_t, roll and pitch
    SeqMod,     \* the counter wraps here: 2^32
    MaxWrites   \* bound on publications

SeqlockAssumption ==
    /\ Words # {}
    /\ MaxWrites \in Nat
    /\ SeqMod \in Nat /\ SeqMod > 0 /\ SeqMod % 2 = 0

VARIABLES
    s_pub_seq,  \* even = stable, odd = write in progress
    s_pub,      \* s_pub_imu, s_pub_roll, s_pub_pitch
    writes,     \* publications begun
    toWrite,    \* words the writer has still to store; meaningful while writing
    wpc,        \* "idle" or "writing"
    rpc,        \* "idle" or "copying"
    s0,         \* the counter as the reader first saw it
    toRead,     \* words the reader has still to load
    got,        \* the reader's locals i, r, p
    pub         \* motor_task's pub_imu, pub_roll, pub_pitch

wvars == <<s_pub_seq, s_pub, writes, toWrite, wpc>>
rvars == <<rpc, s0, toRead, got, pub>>
vars  == <<wvars, rvars>>

Init ==
    /\ s_pub_seq = 0 /\ s_pub = [w \in Words |-> 0]
    /\ writes = 0 /\ toWrite = {} /\ wpc = "idle"
    /\ rpc = "idle" /\ s0 = 0 /\ toRead = {}
    /\ got = [w \in Words |-> 0] /\ pub = [w \in Words |-> 0]

Bump(n) == IF n + 1 = SeqMod THEN 0 ELSE n + 1
Odd(n)  == n % 2 = 1

\* imu_task gets the core only while motor_task is not in the middle of a read.
WriterRuns == rpc = "idle"

-----------------------------------------------------------------------------
(* imu_pub_write                                                             *)

WriteBegin ==
    /\ WriterRuns /\ wpc = "idle" /\ writes < MaxWrites
    /\ s_pub_seq' = Bump(s_pub_seq)
    /\ writes' = writes + 1 /\ toWrite' = Words /\ wpc' = "writing"
    /\ UNCHANGED <<s_pub, rvars>>

\* The compiler may store the words in any order between the two barriers.
WriteWord(w) ==
    /\ WriterRuns /\ wpc = "writing" /\ w \in toWrite
    /\ s_pub' = [s_pub EXCEPT ![w] = writes]
    /\ toWrite' = toWrite \ {w}
    /\ UNCHANGED <<s_pub_seq, writes, wpc, rvars>>

WriteEnd ==
    /\ WriterRuns /\ wpc = "writing" /\ toWrite = {}
    /\ s_pub_seq' = Bump(s_pub_seq)
    /\ wpc' = "idle"
    /\ UNCHANGED <<s_pub, writes, toWrite, rvars>>

-----------------------------------------------------------------------------
(* imu_pub_try_read: one attempt, the previous copy is kept on any conflict  *)

\* Wrong variant of ReadBegin: the parity of the counter is not looked at.
ReadBeginAnyParity ==
    /\ rpc = "idle"
    /\ s0' = s_pub_seq /\ toRead' = Words /\ rpc' = "copying"
    /\ UNCHANGED <<wvars, got, pub>>

ReadBegin ==
    /\ rpc = "idle" /\ ~Odd(s_pub_seq)
    /\ s0' = s_pub_seq /\ toRead' = Words /\ rpc' = "copying"
    /\ UNCHANGED <<wvars, got, pub>>

ReadWord(w) ==
    /\ rpc = "copying" /\ w \in toRead
    /\ got' = [got EXCEPT ![w] = s_pub[w]]
    /\ toRead' = toRead \ {w}
    /\ UNCHANGED <<wvars, rpc, s0, pub>>

\* Wrong variant of ReadEnd: the outputs are written when the counter moved.
ReadEndInverted ==
    /\ rpc = "copying" /\ toRead = {}
    /\ pub' = IF s_pub_seq # s0 THEN got ELSE pub
    /\ rpc' = "idle"
    /\ UNCHANGED <<wvars, s0, toRead, got>>

\* Wrong variant of ReadEnd: the outputs are written before the copy is whole.
ReadEndEarly ==
    /\ rpc = "copying"
    /\ pub' = IF s_pub_seq = s0 THEN got ELSE pub
    /\ rpc' = "idle"
    /\ UNCHANGED <<wvars, s0, toRead, got>>

ReadEnd ==
    /\ rpc = "copying" /\ toRead = {}
    /\ pub' = IF s_pub_seq = s0 THEN got ELSE pub
    /\ rpc' = "idle"
    /\ UNCHANGED <<wvars, s0, toRead, got>>

\* motor_task starts again with an empty copy; imu_task is at a safe point then.
ReaderRestart ==
    /\ rpc = "idle" /\ wpc = "idle"
    /\ pub' = [w \in Words |-> 0]
    /\ UNCHANGED <<wvars, rpc, s0, toRead, got>>

Next ==
    \/ WriteBegin \/ WriteEnd \/ \E w \in Words : WriteWord(w)
    \/ ReadBegin \/ ReadEnd \/ \E w \in Words : ReadWord(w)
    \/ ReaderRestart

Spec == Init /\ [][Next]_vars

-----------------------------------------------------------------------------
TypeOK ==
    /\ s_pub_seq \in 0 .. SeqMod - 1 /\ s0 \in 0 .. SeqMod - 1
    /\ s_pub \in [Words -> 0 .. MaxWrites]
    /\ got \in [Words -> 0 .. MaxWrites] /\ pub \in [Words -> 0 .. MaxWrites]
    /\ writes \in 0 .. MaxWrites
    /\ toWrite \in SUBSET Words /\ toRead \in SUBSET Words
    /\ wpc \in {"idle", "writing"} /\ rpc \in {"idle", "copying"}

\* "the motor loop reads a consistent frame without a mutex" (control.c:87):
\* all words of the reader's copy come from one publication.
NoTornRead == \A v, w \in Words : pub[v] = pub[w]

\* A read that begins also succeeds, so the copy it leaves is the newest
\* complete publication (control.c:109-111: the reader never spins and
\* never needs to).
ReadIsNewest ==
    [][rpc = "copying" /\ rpc' = "idle" => \A w \in Words : pub'[w] = writes]_vars

\* The counter's parity says whether the payload may be read.
ParityInv == Odd(s_pub_seq) <=> wpc = "writing"

\* The payload is the last publication, but for the words still to be stored.
PayloadInv ==
    /\ wpc = "idle" => toWrite = {}
    /\ wpc = "writing" => writes > 0
    /\ \A w \in Words : s_pub[w] = IF w \in toWrite THEN writes - 1 ELSE writes

\* What the reader has loaded so far is the payload; neither it nor the counter
\* moves under a read.
CopyInv ==
    /\ rpc = "copying" => wpc = "idle" /\ s_pub_seq = s0
    /\ rpc = "copying" => \A w \in Words \ toRead : got[w] = writes
    /\ NoTornRead

\* The inductive invariant behind NoTornRead for a counter that
\* wraps at any even number (control.c:100-122).
IInv == TypeOK /\ ParityInv /\ PayloadInv /\ CopyInv

\* One word stands for the copy: NoTornRead says they agree.
AWord == CHOOSE w \in Words : TRUE
Register == INSTANCE Snapshot WITH
    published <- IF wpc = "writing" THEN writes - 1 ELSE writes,
    copy <- pub[AWord]

\* The seqlock (control.c:100-122) implements the register: each read leaves
\* the copy as it was or takes the whole newest sample, so samples never go
\* back in time between restarts of the reader.
ImplementsSnapshot == Register!SSpec
=============================================================================
