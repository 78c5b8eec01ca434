-------------------------- MODULE TelemetryHandoff ---------------------------
(* The double buffer that carries telemetry from motor_task (core 1) to      *)
(* reporter_task (core 0): control.c:93-96, 552-580, 917-985.  Samples are   *)
(* numbered in the order they are recorded; a slot holds a sample's number.  *)
(*                                                                           *)
(* Time is counted in recorded samples.  The reporter is a low-priority task *)
(* of the core that runs Wi-Fi and the web server, so the code bounds none   *)
(* of its cycles; MaxCycle is the bound a run assumes.                       *)
EXTENDS Integers, Sequences

CONSTANTS
    N,          \* SAMPLES_PER_BATCH
    QLen,       \* length of s_ready_q
    Topics,     \* topics a cycle packs
    MaxCycle,   \* longest a batch handed over stays unfinished, in samples
    MaxSamples, \* bound on samples recorded
    QuickRestart \* motor_task may be back while the reporter still has work

ASSUME HandoffAssumption ==
    /\ N \in Nat \ {0} /\ QLen \in Nat \ {0} /\ Topics \in Nat \ {0}
    /\ MaxCycle \in Nat /\ MaxSamples \in Nat /\ QuickRestart \in BOOLEAN

VARIABLES
    s_buf,        \* two halves of N slots
    active,       \* half motor_task is filling
    idx,          \* next slot in it
    s_ready_q,    \* halves handed over, each with the number of its first sample
    s_drop_count, \* batches dropped on a full queue
    now,          \* samples recorded
    began,        \* first sample of the current motor_task, a history variable
    age,          \* samples recorded since the reporter last fell idle
    rpc,          \* reporter: "wait", "cache" or "pack"
    hand,         \* the entry it is working on
    latest,       \* sample cached for /api/telemetry
    topic, frame, \* topic being packed and what has been packed of it
    delivered     \* first sample of the last batch finished, 0 before any

motor    == <<s_buf, active, idx, s_drop_count, now, began>>
reporter == <<rpc, hand, latest, topic, frame, delivered>>
vars     == <<motor, s_ready_q, age, reporter>>

Halves == {0, 1}
Slots  == 0 .. N - 1

Init ==
    /\ s_buf = [h \in Halves |-> [k \in Slots |-> 0]]
    /\ active = 0 /\ idx = 0 /\ s_ready_q = <<>> /\ s_drop_count = 0
    /\ now = 0 /\ began = 1 /\ age = 0
    /\ rpc = "wait" /\ hand = [half |-> 1, first |-> 1 - N]
    /\ latest = 0 /\ topic = 1 /\ frame = <<>> /\ delivered = 0

Work == rpc # "wait" \/ s_ready_q # <<>>

-----------------------------------------------------------------------------
(* motor_task                                                                *)

\* Wrong variant of HandOver: the index is read after the swap.
HandOverSwapped ==
    /\ IF Len(s_ready_q) < QLen
       THEN /\ s_ready_q' = Append(s_ready_q, [half |-> 1 - active, first |-> now + 2 - N])
            /\ UNCHANGED s_drop_count
       ELSE s_drop_count' = s_drop_count + 1 /\ UNCHANGED s_ready_q
    /\ active' = 1 - active /\ idx' = 0

\* Wrong variant of HandOver: the halves are not swapped.
HandOverSameHalf ==
    /\ IF Len(s_ready_q) < QLen
       THEN /\ s_ready_q' = Append(s_ready_q, [half |-> active, first |-> now + 2 - N])
            /\ UNCHANGED s_drop_count
       ELSE s_drop_count' = s_drop_count + 1 /\ UNCHANGED s_ready_q
    /\ idx' = 0 /\ UNCHANGED active

\* Wrong variant of HandOver: a batch is handed over only to an idle reporter.
HandOverToIdle ==
    /\ IF ~Work /\ active = 0
       THEN /\ s_ready_q' = Append(s_ready_q, [half |-> active, first |-> now + 2 - N])
            /\ UNCHANGED s_drop_count
       ELSE UNCHANGED <<s_ready_q, s_drop_count>>
    /\ active' = 1 - active /\ idx' = 0

\* A full half goes to the reporter without waiting, or is dropped; either way
\* the halves are swapped.
HandOver ==
    /\ IF Len(s_ready_q) < QLen
       THEN /\ s_ready_q' = Append(s_ready_q, [half |-> active, first |-> now + 2 - N])
            /\ UNCHANGED s_drop_count
       ELSE s_drop_count' = s_drop_count + 1 /\ UNCHANGED s_ready_q
    /\ active' = 1 - active /\ idx' = 0

\* One sample.  The first conjunct is the assumed bound on the reporter.
Record ==
    /\ Work => age < MaxCycle
    /\ now < MaxSamples
    /\ now' = now + 1
    /\ s_buf' = [s_buf EXCEPT ![active][idx] = now + 1]
    /\ IF idx + 1 >= N
       THEN HandOver
       ELSE idx' = idx + 1 /\ UNCHANGED <<active, s_ready_q, s_drop_count>>
    /\ age' = IF Work THEN age + 1 ELSE 0
    /\ UNCHANGED <<began, reporter>>

\* STOP_CONTROL and START_CONTROL: active and idx are locals of the new task.
\* Nothing in the code waits for the reporter: with the sensor already present a
\* stop and a start take about 10 ms, while a batch lasts 200 ms.  QuickRestart =
\* FALSE assumes a restart that finds it idle; TRUE is what the code allows.
Restart ==
    /\ QuickRestart \/ ~Work
    /\ active' = 0 /\ idx' = 0 /\ began' = now + 1
    /\ UNCHANGED <<s_buf, s_drop_count, now, s_ready_q, age, reporter>>

-----------------------------------------------------------------------------
(* reporter_task                                                             *)

Receive ==
    /\ rpc = "wait" /\ s_ready_q # <<>>
    /\ hand' = Head(s_ready_q) /\ s_ready_q' = Tail(s_ready_q)
    /\ rpc' = "cache"
    /\ UNCHANGED <<motor, age, latest, topic, frame, delivered>>

Finish ==
    /\ rpc' = "wait" /\ age' = 0 /\ delivered' = hand.first
    /\ UNCHANGED <<motor, s_ready_q, hand, latest, topic, frame>>

\* telemetry_set_latest, then the warnings and results.
Cache ==
    /\ rpc = "cache"
    /\ latest' = s_buf[hand.half][N - 1]
    /\ rpc' = "pack" /\ topic' = 1 /\ frame' = <<>>
    /\ UNCHANGED <<motor, s_ready_q, age, hand, delivered>>

\* Nobody is streaming.
Skip == rpc = "pack" /\ topic = 1 /\ frame = <<>> /\ Finish

\* Wrong variant of PackSample: frames are packed from the half being filled.
PackSampleActive ==
    /\ rpc = "pack" /\ Len(frame) < N
    /\ frame' = Append(frame, s_buf[active][Len(frame)])
    /\ UNCHANGED <<motor, s_ready_q, age, rpc, hand, latest, topic, delivered>>

PackSample ==
    /\ rpc = "pack" /\ Len(frame) < N
    /\ frame' = Append(frame, s_buf[hand.half][Len(frame)])
    /\ UNCHANGED <<motor, s_ready_q, age, rpc, hand, latest, topic, delivered>>

\* The frame is queued for sending; the next topic starts from the first slot again.
SendFrame ==
    /\ rpc = "pack" /\ Len(frame) = N /\ topic < Topics
    /\ topic' = topic + 1 /\ frame' = <<>>
    /\ UNCHANGED <<motor, s_ready_q, age, rpc, hand, latest, delivered>>

SendLast == rpc = "pack" /\ Len(frame) = N /\ topic = Topics /\ Finish

ReporterStep == Receive \/ Cache \/ Skip \/ PackSample \/ SendFrame \/ SendLast

Next == Record \/ Restart \/ ReporterStep

Spec == Init /\ [][Next]_vars

\* Core 0 gets to the reporter in the end when it has work, and queueing a frame
\* for the web server does not block (web_server.c:541-551).
FairSpec == Spec /\ WF_vars(ReporterStep)

-----------------------------------------------------------------------------
Entries == [half : Halves, first : Int]

TypeOK ==
    /\ s_buf \in [Halves -> [Slots -> Nat]]
    /\ active \in Halves /\ idx \in Slots
    /\ s_ready_q \in Seq(Entries) /\ Len(s_ready_q) <= QLen
    /\ s_drop_count \in Nat /\ now \in 0 .. MaxSamples /\ began \in Nat /\ age \in Nat
    /\ rpc \in {"wait", "cache", "pack"} /\ hand \in Entries
    /\ latest \in Nat /\ topic \in 1 .. Topics
    /\ frame \in Seq(Nat) /\ Len(frame) <= N
    /\ delivered \in Int

\* "motor_task fills one half while the reporter drains the other"
\* (control.c:93).
HalvesDisjoint == rpc # "wait" => hand.half # active

\* A frame holds the samples of the batch that was handed over, each once and in
\* order, and so does the cached sample: no half is overwritten while it is
\* being packed (control.c:922-927, 956-980).
FrameIsBatch ==
    rpc = "pack" =>
        /\ latest = hand.first + N - 1
        /\ \A k \in 1 .. Len(frame) : frame[k] = hand.first + k - 1

\* However late the reporter is and whatever a full queue dropped, it goes forward
\* from batch to batch, and what it packs is never older than the batch it was
\* handed: a late frame shows newer samples, not a half of the one before
\* (control.c:571-579).
FrameNotStale ==
    rpc = "pack" =>
        /\ hand.first > delivered
        /\ latest >= hand.first + N - 1
        /\ \A k \in 1 .. Len(frame) : frame[k] >= hand.first + k - 1

\* A reporter that keeps up receives every batch, once and in the order they
\* were recorded: no repeat, none dropped, and no gap but the part of a batch that
\* a stopped motor_task leaves behind (control.c:571-579).
EveryBatchInOrder ==
    [][/\ s_drop_count' = 0
       /\ rpc = "wait" /\ rpc' # "wait" =>
              \/ hand'.first = hand.first + N
              \/ hand'.first = began /\ began > hand.first]_vars

\* Each batch completed, here with sample b, is in the end finished by a reporter
\* that keeps up.
EveryBatchDelivered ==
    \A b \in 1 .. MaxSamples :
        (now = b /\ idx = 0 /\ began <= b) ~> (delivered >= b - N + 1)

-----------------------------------------------------------------------------
(* Why the halves stay apart when a cycle ends before the other half is full *)

\* At most one batch is outstanding, and its age is the fill of the other half.
KeepsUpInv ==
    /\ rpc # "wait" => s_ready_q = <<>>
    /\ Len(s_ready_q) <= 1
    /\ Work => age = idx
    /\ s_drop_count = 0
    /\ \A k \in Slots : k < idx => s_buf[active][k] = now - idx + 1 + k

\* Entry e is the batch before the one being filled, and its half still holds it.
Holds(e) ==
    /\ e.half = 1 - active
    /\ e.first = now + 1 - idx - N
    /\ \A k \in Slots : s_buf[e.half][k] = e.first + k

\* The inductive invariant of a reporter that keeps up (control.c:552-580).
IInv ==
    /\ TypeOK /\ KeepsUpInv
    /\ \A i \in 1 .. Len(s_ready_q) : Holds(s_ready_q[i])
    /\ rpc # "wait" => Holds(hand)
    /\ FrameIsBatch
=============================================================================
