----------------------- MODULE TelemetryHandoffProofs -----------------------
(* A reporter that finishes each batch before the other half is full never   *)
(* reads a half that is being filled and gets every batch in order, whatever *)
(* the length of a batch and of the queue.  The frames made of a batch (the  *)
(* operators of TelemetryFrame) fit their buffer and stay inside the batch.  *)
EXTENDS TelemetryHandoff, TelemetryFrame, SequenceTheorems, TLAPS

\* What the theorems assume of the reporter: it keeps up, and is done when a new
\* motor_task records its first sample.
Timely == MaxCycle < N /\ ~QuickRestart

\* The invariant holds when control_start creates the queue (control.c:1033).
LEMMA InitIInv == Init => IInv
BY HandoffAssumption
   DEF Init, IInv, TypeOK, KeepsUpInv, FrameIsBatch, Work, Entries, Halves, Slots

\* Recording writes one slot of the half being filled and no other.
LEMMA OneSlot ==
    ASSUME TypeOK, Record
    PROVE  /\ s_buf' \in [Halves -> [Slots -> Nat]]
           /\ \A h \in Halves, k \in Slots :
                  s_buf'[h][k] = IF h = active /\ k = idx THEN now + 1 ELSE s_buf[h][k]
<1>1. s_buf' = [s_buf EXCEPT ![active][idx] = now + 1]
      BY DEF Record
<1>2. now + 1 \in Nat /\ active \in Halves /\ idx \in Slots
      /\ s_buf \in [Halves -> [Slots -> Nat]]
      BY HandoffAssumption DEF TypeOK
<1> QED BY <1>1, <1>2

\* A sample that does not fill the half leaves an outstanding batch as it was.
LEMMA RecordMore ==
    ASSUME Timely, IInv, Record, idx + 1 < N
    PROVE  IInv'
<1>0. /\ N \in Nat /\ idx \in 0 .. N - 1 /\ now \in Nat /\ age \in Nat /\ active \in {0, 1}
      /\ idx' = idx + 1 /\ now' = now + 1 /\ now < MaxSamples
      /\ active' = active /\ s_ready_q' = s_ready_q /\ s_drop_count' = s_drop_count
      /\ rpc' = rpc /\ hand' = hand /\ latest' = latest /\ topic' = topic
      /\ frame' = frame /\ delivered' = delivered /\ began' = began
      /\ age' = IF Work THEN age + 1 ELSE 0
      BY HandoffAssumption DEF IInv, TypeOK, Record, reporter, Halves, Slots
<1>1. TypeOK /\ KeepsUpInv
      BY DEF IInv
<1>2. TypeOK'
  <2>1. idx' \in Slots /\ now' \in 0 .. MaxSamples /\ age' \in Nat
        BY <1>0, HandoffAssumption DEF Slots
  <2> QED BY <1>0, <1>1, <2>1, OneSlot DEF TypeOK
<1>3. KeepsUpInv'
  <2>1. \A k \in Slots : k < idx' => s_buf'[active'][k] = now' - idx' + 1 + k
    <3> SUFFICES ASSUME NEW k \in Slots, k < idx + 1
                 PROVE  s_buf'[active][k] = now - idx + 1 + k
        BY <1>0
    <3>1. s_buf'[active][k] = IF k = idx THEN now + 1 ELSE s_buf[active][k]
          BY <1>1, OneSlot DEF TypeOK
    <3>2. k \in Int /\ (k < idx => s_buf[active][k] = now - idx + 1 + k)
          BY <1>0, <1>1 DEF KeepsUpInv, Slots
    <3> QED BY <1>0, <3>1, <3>2
  <2>2. Work' => age' = idx'
        BY <1>0, <1>1 DEF KeepsUpInv, Work
  <2> QED BY <1>0, <1>1, <2>1, <2>2 DEF KeepsUpInv
<1>4. ASSUME NEW e, Holds(e)
      PROVE  Holds(e)'
  <2>1. \A k \in Slots : s_buf'[e.half][k] = s_buf[e.half][k]
        BY <1>0, OneSlot, <1>1, <1>4 DEF Holds, Halves
  <2> QED BY <1>0, <1>4, <2>1 DEF Holds
<1>5. rpc' # "wait" => Holds(hand)'
      BY <1>0, <1>4 DEF IInv, Holds
<1>6. \A i \in 1 .. Len(s_ready_q') : Holds(s_ready_q[i])'
      BY <1>0, <1>4 DEF IInv, Holds
<1>7. FrameIsBatch'
      BY <1>0 DEF IInv, FrameIsBatch
<1> QED BY <1>2, <1>3, <1>5, <1>6, <1>7 DEF IInv

\* The sample that fills the half finds the reporter idle and the queue empty,
\* so the batch is queued and nothing is dropped.
LEMMA RecordLast ==
    ASSUME Timely, IInv, Record, idx + 1 >= N
    PROVE  IInv'
<1>1. TypeOK /\ KeepsUpInv
      BY DEF IInv
<1>2. /\ N \in Nat \ {0} /\ QLen \in Nat \ {0} /\ now \in Nat /\ active \in {0, 1}
      /\ idx = N - 1
      BY <1>1, HandoffAssumption DEF TypeOK, Halves, Slots
<1>3. ~Work
      BY <1>1, <1>2, HandoffAssumption DEF KeepsUpInv, Record, Timely
<1>4. s_ready_q = <<>> /\ rpc = "wait"
      BY <1>3 DEF Work
<1> PICK e : e = [half |-> active, first |-> now + 2 - N]
    OBVIOUS
<1>5. /\ idx' = 0 /\ now' = now + 1 /\ now < MaxSamples /\ active' = 1 - active
      /\ s_ready_q' = <<e>> /\ age' = 0 /\ s_drop_count' = s_drop_count
      /\ rpc' = rpc /\ hand' = hand /\ latest' = latest /\ topic' = topic
      /\ frame' = frame /\ delivered' = delivered /\ began' = began
      BY <1>2, <1>3, <1>4 DEF Record, HandOver, reporter
<1>6. e \in Entries /\ e.half = active /\ e.first = now + 2 - N
      BY <1>2 DEF Entries, Halves
<1>7. Len(s_ready_q') = 1 /\ s_ready_q'[1] = e /\ s_ready_q' \in Seq(Entries)
      BY <1>5, <1>6
<1>8. TypeOK'
  <2>1. active' \in Halves /\ idx' \in Slots /\ now' \in 0 .. MaxSamples /\ age' \in Nat
        BY <1>2, <1>5, HandoffAssumption DEF Halves, Slots
  <2>2. Len(s_ready_q') <= QLen
        BY <1>2, <1>7
  <2> QED BY <1>1, <1>5, <1>7, <2>1, <2>2, OneSlot DEF TypeOK
<1>9. KeepsUpInv'
      BY <1>1, <1>2, <1>4, <1>5, <1>7 DEF KeepsUpInv, Slots
<1>10. \A k \in Slots : s_buf'[active][k] = now + 2 - N + k
  <2> SUFFICES ASSUME NEW k \in Slots PROVE s_buf'[active][k] = now + 2 - N + k
      OBVIOUS
  <2>1. s_buf'[active][k] = IF k = idx THEN now + 1 ELSE s_buf[active][k]
        BY <1>1, OneSlot DEF TypeOK
  <2>2. k \in 0 .. N - 1 /\ (k < idx => s_buf[active][k] = now - idx + 1 + k)
        BY <1>1 DEF KeepsUpInv, Slots
  <2> QED BY <1>2, <2>1, <2>2
<1>11. Holds(e)'
      BY <1>2, <1>5, <1>6, <1>10 DEF Holds
<1>12. \A i \in 1 .. Len(s_ready_q') : Holds(s_ready_q[i])'
      BY <1>7, <1>11 DEF Holds
<1>13. FrameIsBatch' /\ rpc' = "wait"
      BY <1>4, <1>5 DEF FrameIsBatch
<1> QED BY <1>8, <1>9, <1>12, <1>13 DEF IInv

\* A queue that is neither empty nor longer than one holds one entry.
LEMMA OneElement ==
    ASSUME NEW S, NEW s \in Seq(S), s # <<>>, Len(s) <= 1
    PROVE  Len(s) = 1
<1>1. Len(s) \in Nat \ {0}
      BY EmptySeq
<1> QED BY <1>1

\* The reporter changes neither half, so a batch it holds stays whole.
LEMMA ReporterKeepsIInv ==
    ASSUME IInv, ReporterStep
    PROVE  IInv'
<1> USE HandoffAssumption DEF IInv, Slots, Halves, Work
<1>1. CASE Receive
  <2>0. s_ready_q \in Seq(Entries) /\ Len(s_ready_q) <= 1 /\ s_ready_q # <<>>
        BY <1>1 DEF Receive, TypeOK, KeepsUpInv
  <2>1. /\ rpc = "wait" /\ s_ready_q # <<>> /\ Len(s_ready_q) = 1
        /\ hand' = s_ready_q[1] /\ s_ready_q' = <<>> /\ rpc' = "cache"
        /\ UNCHANGED <<s_buf, active, idx, s_drop_count, now, began, age, latest, topic,
                       frame, delivered>>
    <3>1. Len(s_ready_q) = 1
          BY <2>0, OneElement
    <3>2. Tail(s_ready_q) \in Seq(Entries) /\ Len(Tail(s_ready_q)) = 0
          BY <2>0, <3>1, HeadTailProperties
    <3>3. Tail(s_ready_q) = <<>>
          BY <3>2, EmptySeq
    <3>4. Head(s_ready_q) = s_ready_q[1]
          BY <2>0
    <3> QED BY <1>1, <2>0, <3>1, <3>3, <3>4 DEF Receive, motor
  <2>2. hand' \in Entries /\ Holds(s_ready_q[1])
        BY <2>1 DEF TypeOK
  <2>3. TypeOK' /\ KeepsUpInv' /\ FrameIsBatch'
        BY <2>1, <2>2 DEF TypeOK, KeepsUpInv, FrameIsBatch
  <2>4. Holds(hand)'
        BY <2>1, <2>2 DEF Holds
  <2> QED BY <2>1, <2>3, <2>4
<1>2. CASE Cache
  <2>1. TypeOK' /\ KeepsUpInv' /\ FrameIsBatch'
        BY <1>2 DEF Cache, TypeOK, KeepsUpInv, FrameIsBatch, Holds, motor, Entries
  <2> QED BY <1>2, <2>1 DEF Cache, Holds, motor
<1>3. CASE PackSample
  <2>1. frame \in Seq(Nat) /\ Len(frame) < N /\ rpc = "pack"
        BY <1>3 DEF PackSample, TypeOK
  <2>2. s_buf[hand.half][Len(frame)] = hand.first + Len(frame)
        BY <2>1 DEF Holds
  <2>3. s_buf[hand.half][Len(frame)] \in Nat
        BY <2>1 DEF TypeOK, Entries
  <2>4. frame' = Append(frame, hand.first + Len(frame)) /\ hand.first + Len(frame) \in Nat
        BY <1>3, <2>2, <2>3 DEF PackSample
  <2>5. UNCHANGED <<s_buf, active, idx, s_drop_count, now, began, s_ready_q, age, rpc, hand,
                    latest, topic, delivered>>
        BY <1>3 DEF PackSample, motor
  <2>6. TypeOK' /\ KeepsUpInv'
        BY <2>1, <2>4, <2>5 DEF TypeOK, KeepsUpInv
  <2>7. hand.first \in Int
        BY DEF TypeOK, Entries
  <2>8. FrameIsBatch'
    <3>1. latest' = hand'.first + N - 1
          BY <2>1, <2>5 DEF FrameIsBatch
    <3>2. ASSUME NEW k \in 1 .. Len(frame')
          PROVE  frame'[k] = hand'.first + k - 1
      <4>1. Len(frame) \in Nat /\ Len(frame') = Len(frame) + 1
            BY <2>1, <2>4
      <4>2. CASE k = Len(frame) + 1
            BY <2>1, <2>4, <2>5, <2>7, <4>2
      <4>3. CASE k \in 1 .. Len(frame)
        <5>1. frame'[k] = frame[k]
              BY <2>1, <2>4, <4>3
        <5> QED BY <2>1, <2>5, <4>3, <5>1 DEF FrameIsBatch
      <4> QED BY <3>2, <4>1, <4>2, <4>3
    <3> QED BY <3>1, <3>2 DEF FrameIsBatch
  <2> QED BY <2>5, <2>6, <2>8 DEF Holds
<1>4. CASE SendFrame
  <2>1. TypeOK' /\ KeepsUpInv' /\ FrameIsBatch'
        BY <1>4 DEF SendFrame, TypeOK, KeepsUpInv, FrameIsBatch, motor
  <2> QED BY <1>4, <2>1 DEF SendFrame, Holds, motor
<1>5. CASE Skip \/ SendLast
  <2>1. /\ rpc = "pack" /\ rpc' = "wait" /\ age' = 0 /\ delivered' = hand.first
        /\ UNCHANGED <<motor, s_ready_q, hand, latest, topic, frame>>
        BY <1>5 DEF Skip, SendLast, Finish
  <2>2. s_ready_q = <<>> /\ Len(s_ready_q) = 0
        BY <2>1 DEF KeepsUpInv
  <2>3. TypeOK' /\ KeepsUpInv' /\ FrameIsBatch'
        BY <2>1, <2>2 DEF TypeOK, KeepsUpInv, FrameIsBatch, motor, Entries
  <2> QED BY <2>1, <2>2, <2>3
<1> QED BY <1>1, <1>2, <1>3, <1>4, <1>5 DEF ReporterStep

\* A new motor_task finds nothing outstanding, and its first half empty.
LEMMA RestartKeepsIInv ==
    ASSUME Timely, IInv, Restart
    PROVE  IInv'
<1>1. /\ ~Work /\ active' = 0 /\ idx' = 0 /\ began' = now + 1
      /\ UNCHANGED <<s_buf, s_drop_count, now, s_ready_q, age, reporter>>
      BY DEF Restart, Timely
<1>2. s_ready_q = <<>> /\ rpc = "wait" /\ Len(s_ready_q) = 0
      BY <1>1 DEF Work
<1>3. TypeOK'
      BY <1>1, HandoffAssumption DEF IInv, TypeOK, reporter, Halves, Slots
<1>4. KeepsUpInv'
      BY <1>1, <1>2 DEF IInv, KeepsUpInv, Work, Slots, reporter
<1>5. FrameIsBatch' /\ rpc' = "wait" /\ Len(s_ready_q') = 0
      BY <1>1, <1>2 DEF FrameIsBatch, reporter
<1> QED BY <1>3, <1>4, <1>5 DEF IInv

\* Under a reporter that keeps up every step preserves the invariant.
LEMMA StepIInv ==
    ASSUME Timely
    PROVE  IInv /\ [Next]_vars => IInv'
<1> SUFFICES ASSUME IInv, [Next]_vars PROVE IInv'
    OBVIOUS
<1>1. CASE Record
  <2>1. idx + 1 < N \/ idx + 1 >= N
        BY HandoffAssumption DEF IInv, TypeOK, Slots
  <2> QED BY <1>1, <2>1, RecordMore, RecordLast
<1>2. CASE Restart
      BY <1>2, RestartKeepsIInv
<1>3. CASE ReporterStep
      BY <1>3, ReporterKeepsIInv
<1>4. CASE UNCHANGED vars
      BY <1>4 DEF vars, motor, reporter, IInv, TypeOK, KeepsUpInv, FrameIsBatch, Holds, Work
<1> QED BY <1>1, <1>2, <1>3, <1>4 DEF Next

\* While the reporter keeps up, the halves stay apart and every frame is the
\* batch that was handed over (control.c:93-96, 552-580, 956-980).
THEOREM FramesAreWhole ==
    ASSUME Timely
    PROVE  Spec => [](TypeOK /\ HalvesDisjoint /\ FrameIsBatch)
<1>1. IInv => TypeOK /\ HalvesDisjoint /\ FrameIsBatch
      BY DEF IInv, HalvesDisjoint, Holds, TypeOK, Halves
<1> QED BY <1>1, InitIInv, StepIInv, PTL DEF Spec

\* The half that is packed is never the half that is filled (control.c:93-95).
COROLLARY HalvesStayApart ==
    ASSUME Timely
    PROVE  Spec => []HalvesDisjoint
<1> QED BY FramesAreWhole, PTL
-----------------------------------------------------------------------------
(* Every batch, once and in order                                            *)

\* The first sample of the half being filled.
Filling == now + 1 - idx

\* A batch follows the one the reporter was last handed, or is the first one of
\* the running motor_task and a later one.
Follows(first) == first = hand.first + N \/ (first = began /\ began > hand.first)

\* What comes next follows: the batch that waits, or else the one being filled.
\* A batch handed over has been recorded, so what a new task begins with is later.
OrderInv ==
    /\ hand.first <= now
    /\ s_ready_q = <<>> => Follows(Filling)
    /\ \A i \in 1 .. Len(s_ready_q) : Follows(s_ready_q[i].first)

LEMMA InitOrder == Init => OrderInv
BY HandoffAssumption DEF Init, OrderInv, Follows, Filling

\* Recording moves the first sample of the half only when that half is handed over,
\* and then it is the one that waits.
LEMMA RecordKeepsOrder ==
    ASSUME Timely, IInv, OrderInv, Record
    PROVE  OrderInv'
<1>1. /\ N \in Nat \ {0} /\ QLen \in Nat \ {0} /\ now \in Nat /\ idx \in 0 .. N - 1
      /\ s_ready_q \in Seq(Entries) /\ KeepsUpInv
      BY HandoffAssumption DEF IInv, TypeOK, Slots
<1>2. now' = now + 1 /\ began' = began /\ hand' = hand
      BY DEF Record, reporter
<1>0. hand'.first <= now'
      BY <1>1, <1>2 DEF OrderInv, IInv, TypeOK, Entries
<1>3. CASE idx + 1 < N
  <2>1. idx' = idx + 1 /\ s_ready_q' = s_ready_q
        BY <1>1, <1>3 DEF Record
  <2> QED BY <1>0, <1>1, <1>2, <2>1 DEF OrderInv, Follows, Filling
<1>4. CASE idx + 1 >= N
  <2>1. idx = N - 1
        BY <1>1, <1>4
  <2>2. s_ready_q = <<>>
        BY <1>1, <2>1, HandoffAssumption DEF KeepsUpInv, Record, Timely, Work
  <2> PICK e : e = [half |-> active, first |-> now + 2 - N]
      OBVIOUS
  <2>3. s_ready_q' = <<e>> /\ e.first = now + 2 - N
        BY <1>1, <1>4, <2>2 DEF Record, HandOver
  <2>4. Follows(e.first)
        BY <1>1, <2>1, <2>2, <2>3 DEF OrderInv, Follows, Filling
  <2>5. s_ready_q' # <<>> /\ Len(s_ready_q') = 1 /\ s_ready_q'[1] = e
        BY <2>3
  <2> QED BY <1>0, <1>2, <2>4, <2>5 DEF OrderInv, Follows
<1> QED BY <1>1, <1>3, <1>4

\* A reporter that takes a batch leaves the queue empty, and the half being filled
\* is the one after it; its other steps touch none of this.
LEMMA ReporterKeepsOrder ==
    ASSUME IInv, OrderInv, ReporterStep
    PROVE  OrderInv'
<1>1. CASE Receive
  <2>1. /\ s_ready_q \in Seq(Entries) /\ s_ready_q # <<>> /\ Len(s_ready_q) <= 1
        /\ hand' = Head(s_ready_q) /\ s_ready_q' = Tail(s_ready_q)
        /\ now' = now /\ idx' = idx /\ began' = began
        BY <1>1 DEF Receive, IInv, TypeOK, KeepsUpInv, motor
  <2>2. Len(s_ready_q) = 1
        BY <2>1, OneElement
  <2>3. Head(s_ready_q) = s_ready_q[1] /\ Holds(s_ready_q[1])
        BY <2>1, <2>2 DEF IInv
  <2>4. Tail(s_ready_q) \in Seq(Entries) /\ Len(Tail(s_ready_q)) = 0
        BY <2>1, <2>2, HeadTailProperties
  <2>5. now \in Int /\ idx \in Int /\ N \in Int
        BY HandoffAssumption DEF IInv, TypeOK, Slots
  <2>6. Filling = hand'.first + N
        BY <2>1, <2>3, <2>5 DEF Holds, Filling
  <2>7. hand'.first <= now'
        BY <2>1, <2>3, HandoffAssumption DEF Holds, IInv, TypeOK, Slots
  <2> QED BY <2>7, <2>1, <2>4, <2>6 DEF OrderInv, Follows, Filling
<1>2. CASE Cache \/ Skip \/ PackSample \/ SendFrame \/ SendLast
  <2>1. UNCHANGED <<s_ready_q, now, idx, began, hand>>
        BY <1>2 DEF Cache, Skip, PackSample, SendFrame, SendLast, Finish, motor
  <2> QED BY <2>1 DEF OrderInv, Follows, Filling
<1> QED BY <1>1, <1>2 DEF ReporterStep

\* A new motor_task begins with the next sample, and finds the queue empty.
LEMMA RestartKeepsOrder ==
    ASSUME Timely, IInv, OrderInv, Restart
    PROVE  OrderInv'
<1>1. /\ s_ready_q = <<>> /\ s_ready_q' = <<>> /\ now' = now /\ idx' = 0 /\ began' = now + 1
      BY DEF Restart, Timely, Work
<1>2. now \in Int /\ hand.first \in Int /\ hand' = hand
      BY DEF IInv, TypeOK, Entries, Restart, reporter
<1>3. hand'.first <= now' /\ began' > hand'.first
      BY <1>1, <1>2 DEF OrderInv
<1>4. Filling' = began'
      BY <1>1, <1>2 DEF Filling
<1>5. Len(s_ready_q') = 0
      BY <1>1
<1> QED BY <1>3, <1>4, <1>5 DEF OrderInv, Follows

LEMMA StepOrder ==
    ASSUME Timely
    PROVE  IInv /\ OrderInv /\ [Next]_vars => OrderInv'
<1>1. IInv /\ OrderInv /\ UNCHANGED vars => OrderInv'
      BY DEF vars, motor, reporter, OrderInv, Follows, Filling
<1> QED BY <1>1, RecordKeepsOrder, ReporterKeepsOrder, RestartKeepsOrder DEF Next

\* A reporter that keeps up is handed every batch, once and in the order it was
\* recorded, whatever the batch size and however often motor_task is restarted; what
\* an unfinished batch held is all that is ever skipped (control.c:552-580).
THEOREM BatchesInOrder ==
    ASSUME Timely
    PROVE  Spec => EveryBatchInOrder
<1> DEFINE InOrder ==
        /\ s_drop_count' = 0
        /\ rpc = "wait" /\ rpc' # "wait" =>
               \/ hand'.first = hand.first + N
               \/ hand'.first = began /\ began > hand.first
<1>1. ASSUME IInv, OrderInv, IInv', Next
      PROVE  InOrder
  <2>1. s_drop_count' = 0
        BY <1>1 DEF IInv, KeepsUpInv
  <2>2. ASSUME rpc = "wait", rpc' # "wait"
        PROVE  Follows(hand'.first)
    <3>1. Receive
          BY <1>1, <2>2 DEF Next, Record, Restart, ReporterStep, Receive, Cache, Skip, PackSample,
                            SendFrame, SendLast, Finish, reporter
    <3>2. /\ s_ready_q \in Seq(Entries) /\ s_ready_q # <<>> /\ Len(s_ready_q) <= 1
          /\ hand' = Head(s_ready_q)
          BY <1>1, <3>1 DEF Receive, IInv, TypeOK, KeepsUpInv
    <3>3. Len(s_ready_q) = 1 /\ Head(s_ready_q) = s_ready_q[1]
          BY <3>2, OneElement
    <3> QED BY <1>1, <3>2, <3>3 DEF OrderInv
  <2> QED BY <2>1, <2>2 DEF Follows
<1>2. IInv /\ OrderInv /\ IInv' /\ [Next]_vars => [InOrder]_vars
      BY <1>1
<1> QED BY <1>2, InitIInv, StepIInv, InitOrder, StepOrder, PTL DEF Spec, EveryBatchInOrder

-----------------------------------------------------------------------------
(* What a frame takes of a batch                                             *)

\* What is used of division.
LEMMA Quotient ==
    ASSUME NEW s \in Nat, NEW d \in Nat, d > 0
    PROVE  s \div d \in Nat /\ d * (s \div d) <= s /\ s \div d <= s
<1>1. s \div d \in Int
  BY SMT
<1>2. d * (s \div d) <= s
  BY SMT
<1>3. s \div d >= 0
  BY SMT
<1> DEFINE c == s \div d
<1> HIDE DEF c
<1>4. ASSUME c \in Int, c >= 0, d * c <= s
      PROVE  c <= s
  BY <1>4, SMT
<1> QED
  BY <1>1, <1>2, <1>3, <1>4 DEF c

\* A slot below the quotient, times the stride, leaves room for one stride more.
LEMMA SlotBelow ==
    ASSUME NEW s \in Nat, NEW d \in Nat, d > 0, NEW c \in Nat, d * c <= s,
           NEW i \in 0 .. c - 1
    PROVE  i * d \in Nat /\ i * d + 1 <= s
<1>1. d * (i + 1) <= d * c
  <2>1. i \in Int /\ i + 1 <= c
    OBVIOUS
  <2> QED
    BY <2>1, SMT
<1>2. d * (i + 1) = i * d + d
  BY SMT
<1>3. i * d \in Nat
  BY SMT
<1> QED
  BY <1>1, <1>2, <1>3, SMT

\* What a topic takes of a batch: a stride of at least one, at most every sample.
LEMMA CountBounded ==
    ASSUME NEW t \in TOPICS, NEW motor_ctrl \in BOOLEAN
    PROVE  /\ stride(t, motor_ctrl) \in Nat /\ stride(t, motor_ctrl) > 0
           /\ count(t, motor_ctrl) \in 0 .. SAMPLES_PER_BATCH
<1>1. stride(t, motor_ctrl) \in Nat /\ stride(t, motor_ctrl) > 0
  BY FrameAssumption DEF stride
<1>2. SAMPLES_PER_BATCH \in Nat /\ SAMPLES_PER_BATCH > 0
  BY FrameAssumption
<1>3. CASE t = "imu"
  BY <1>1, <1>2, <1>3 DEF count
<1>4. CASE t # "imu"
  <2>1. count(t, motor_ctrl) = SAMPLES_PER_BATCH \div stride(t, motor_ctrl)
    BY <1>4 DEF count
  <2>2. count(t, motor_ctrl) \in Nat /\ count(t, motor_ctrl) <= SAMPLES_PER_BATCH
    BY <1>1, <1>2, <2>1, Quotient, Zenon
  <2> QED
    BY <1>1, <1>2, <2>2
<1> QED
  BY <1>3, <1>4

\* Every frame of every topic, whatever is streamed and however the rates are set,
\* fits the scratch buffer, is written exactly as long as it was checked to be, has a
\* count that its two bytes can carry, and is packed from slots of the batch
\* (control.c:66-70, 954-978; telemetry.c:142-166).
THEOREM FramesFit ==
    ASSUME NEW t \in TOPICS, NEW motor_ctrl \in BOOLEAN
    PROVE  /\ count(t, motor_ctrl) \in 0 .. COUNT_MAX
           /\ need(t, count(t, motor_ctrl)) <= REPORT_FRAME_CAP
           /\ Written(t, count(t, motor_ctrl)) = need(t, count(t, motor_ctrl))
           /\ \A i \in 0 .. count(t, motor_ctrl) - 1 :
                  Slot(t, motor_ctrl, i) \in 0 .. SAMPLES_PER_BATCH - 1
<1> DEFINE n == count(t, motor_ctrl)
           d == stride(t, motor_ctrl)
<1>1. d \in Nat /\ d > 0 /\ n \in 0 .. SAMPLES_PER_BATCH
  BY CountBounded
<1>2. SAMPLES_PER_BATCH \in 1 .. COUNT_MAX /\ COUNT_MAX \in Nat
  BY FrameAssumption
<1>3. need(t, n) <= REPORT_FRAME_CAP /\ Written(t, n) = need(t, n)
  <2> HIDE DEF n
  <2>1. CASE t = "angles"
    BY <1>1, <1>2, <2>1
       DEF need, Written, fields, Floats, REPORT_FRAME_CAP, REPORT_FRAME_MAX_FIELDS
  <2>2. CASE t # "angles"
    BY <1>1, <1>2, <2>2
       DEF need, Written, fields, Floats, REPORT_FRAME_CAP, REPORT_FRAME_MAX_FIELDS
  <2> QED
    BY <2>1, <2>2
<1>4. ASSUME NEW i \in 0 .. n - 1
      PROVE  Slot(t, motor_ctrl, i) \in 0 .. SAMPLES_PER_BATCH - 1
  <2>1. CASE t = "imu"
    <3>1. i = 0
      BY <2>1 DEF count
    <3> HIDE DEF n
    <3> QED
      BY <1>2, <2>1, <3>1 DEF Slot, stride
  <2>2. CASE t # "imu"
    <3>1. n = SAMPLES_PER_BATCH \div d
      BY <2>2 DEF count
    <3>2. n \in Nat /\ SAMPLES_PER_BATCH \in Nat
      BY <1>1, <1>2
    <3> HIDE DEF n, d
    <3>3. d * n <= SAMPLES_PER_BATCH
      BY <1>1, <3>1, <3>2, Quotient, Zenon
    <3>4. i * d \in Nat /\ i * d + 1 <= SAMPLES_PER_BATCH
      BY <1>1, <3>2, <3>3, SlotBelow, Zenon
    <3>5. Slot(t, motor_ctrl, i) = 0 + i * d
      BY <2>2, Zenon DEF Slot, d
    <3> QED
      BY <3>2, <3>4, <3>5
  <2> QED
    BY <2>1, <2>2
<1>5. n \in 0 .. COUNT_MAX
  <2> HIDE DEF n
  <2> QED
    BY <1>1, <1>2
<1> QED
  BY <1>3, <1>4, <1>5

\* When the decimation divides the batch, as telemetry.h:28 asks, a stream is evenly
\* spaced across batches too: the last sample of one frame lies one stride before the
\* first slot of the next batch.
THEOREM EvenlySpaced ==
    ASSUME NEW k \in Nat \ {0}, SAMPLES_PER_BATCH = STREAM_DECIM * k,
           NEW t \in TOPICS \ {"imu"}, NEW motor_ctrl \in BOOLEAN
    PROVE  Slot(t, motor_ctrl, count(t, motor_ctrl) - 1) + stride(t, motor_ctrl)
             = SAMPLES_PER_BATCH
<1> DEFINE n == count(t, motor_ctrl)
           d == stride(t, motor_ctrl)
<1>1. n = SAMPLES_PER_BATCH \div d
  BY DEF count
<1>2. d = 1 \/ d = STREAM_DECIM
  BY DEF stride
<1>3. d \in Nat /\ d > 0 /\ SAMPLES_PER_BATCH \in Nat
  BY <1>2, FrameAssumption
<1>4. n \in Int /\ d * n = SAMPLES_PER_BATCH
  <2> HIDE DEF n, d
  <2>1. CASE d = 1
    BY <1>1, <1>3, <2>1
  <2>2. CASE d = STREAM_DECIM
    <3>1. (d * k) \div d = k
      BY <1>3, SMT
    <3> QED
      BY <1>1, <2>2, <3>1
  <2> QED
    BY <1>2, <2>1, <2>2
<1>5. Slot(t, motor_ctrl, n - 1) = 0 + (n - 1) * d
  BY Zenon DEF Slot
<1> HIDE DEF n, d
<1>6. 0 + (n - 1) * d + d = d * n
  BY <1>3, <1>4, SMT
<1>7. Slot(t, motor_ctrl, n - 1) + d = SAMPLES_PER_BATCH
  BY <1>4, <1>5, <1>6
<1> QED
  BY <1>7 DEF n, d
=============================================================================
