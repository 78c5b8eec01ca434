-------------------------- MODULE ActivitiesProofs ---------------------------
(* The calibration, the script, the sweep and the late reporter, for every   *)
(* size of each.  One activity moves at a time and touches only its own      *)
(* variables, so each keeps an invariant of its own, which the steps of the  *)
(* others leave alone.                                                       *)
(*                                                                           *)
(* The invariants are cut where the provers need it: the conjuncts over      *)
(* Boolean variables stand apart from those over numbers.                    *)
EXTENDS MCActivities, SequenceTheorems, TLAPS

\* What the modules assume of their constants, as plain memberships.
LEMMA Sizes ==
    /\ GYROCAL_N \in Nat \ {0} /\ MaxStarts \in Nat
    /\ PLAYBACK_MAX \in Nat \ {0} /\ PLAYBACK_MAX_S \in Nat
    /\ Durations \subseteq Nat /\ MaxCommands \in Nat
BY ActivitiesAssumption DEF G!GyroAssumption, P!PlaybackAssumption

LEMMA SweepSizes ==
    /\ NWheels \in Nat \ {0} /\ DB_SETTLE \in Nat /\ MaxCommands \in Nat
    /\ DB_MAX \in Nat \ {0} /\ DB_MAX_busy \in Nat \ {0}
BY ActivitiesAssumption DEF D!SweepAssumption, DB!SweepAssumption

LEMMA LateSizes ==
    /\ N \in Nat \ {0} /\ QLen \in Nat \ {0} /\ Topics \in Nat \ {0}
    /\ MaxCycle \in Nat /\ MaxSamples \in Nat
BY ActivitiesAssumption

-----------------------------------------------------------------------------
(* Gyro calibration                                                          *)

GyroBool ==
    /\ s_gc_active \in BOOLEAN /\ s_gc_report \in BOOLEAN /\ s_gc_moved \in BOOLEAN
    /\ imu_gone \in BOOLEAN

GyroRange ==
    /\ s_gc_n \in 0 .. GYROCAL_N /\ summed \in Nat /\ lo \in {0, 1} /\ hi \in {0, 1}
    /\ gpc \in {"idle", "count", "fold", "decide", "disarm", "flag"}
    /\ mean \in G!Bias /\ bias \in G!Bias
    /\ cpc \in {"idle", "moved", "report", "active"} /\ starts \in 0 .. MaxStarts
    /\ g_rpc \in {"idle", "say"} /\ g_said \in {"none", "set", "aborted"}

\* From the first store of a command to its last nothing else moves: no run is
\* armed and no result is due.
GyroCommanded ==
    cpc # "idle" => /\ gpc = "idle" /\ g_rpc = "idle" /\ ~s_gc_active /\ ~s_gc_report
                    /\ s_gc_n = 0

\* While a run is armed, its counter and its sum go together, up to the mean.
GyroRun ==
    /\ gpc = "idle" /\ s_gc_active => s_gc_n < GYROCAL_N /\ (s_gc_n = 0 \/ summed = s_gc_n)
    /\ gpc = "count" => s_gc_n < GYROCAL_N /\ summed = s_gc_n + 1
    /\ gpc = "fold"  => s_gc_n = GYROCAL_N /\ summed = GYROCAL_N
    /\ gpc = "decide" =>
          mean = [samples |-> GYROCAL_N, divisor |-> GYROCAL_N, spread |-> s_gc_moved]
    /\ gpc = "flag" => ~s_gc_active

\* The inductive invariant of the calibration (control.c:213-257, 1185-1191).
GyroInv == GyroBool /\ GyroRange /\ GyroCommanded /\ GyroRun /\ BiasIsHonest

LEMMA GyroInit == G!Init => GyroInv
<1> SUFFICES ASSUME G!Init PROVE GyroInv
    OBVIOUS
<1> USE Sizes
<1>1. GyroBool BY DEF G!Init, GyroBool
<1>2. GyroRange BY DEF G!Init, GyroRange, G!Bias
<1>3. GyroCommanded /\ GyroRun /\ BiasIsHonest
      BY DEF G!Init, GyroCommanded, GyroRun, BiasIsHonest, G!BiasIsHonest
<1> QED BY <1>1, <1>2, <1>3 DEF GyroInv

\* A command starts from rest, and no sample, verdict or announcement comes
\* between its stores, so the counter of an armed run is the length of its sum.
LEMMA GyroNext ==
    ASSUME GyroInv, G!Next
    PROVE  GyroInv'
<1> USE Sizes
<1> USE DEF G!StartCount, G!StartMoved, G!StartReport, G!StartActive, G!ImuGone,
        G!Accumulate, G!Count, G!Fold, G!Decide, G!Disarm, G!Flag, G!Notice, G!Say,
        G!Quiet, G!step, G!flags, G!command, G!report
<1>1. CASE G!StartCount
  <2>1. GyroBool' BY <1>1 DEF GyroInv, GyroBool
  <2>2. GyroRange' BY <1>1 DEF GyroInv, GyroRange
  <2>3. GyroCommanded' BY <1>1 DEF GyroInv, GyroCommanded
  <2>4. GyroRun'  BY <1>1 DEF GyroInv, GyroRun, GyroRange
  <2>5. BiasIsHonest'  BY <1>1 DEF GyroInv, BiasIsHonest, G!BiasIsHonest
  <2> QED BY <2>1, <2>2, <2>3, <2>4, <2>5 DEF GyroInv
<1>2. CASE G!StartMoved \/ G!StartReport \/ G!StartActive
  <2>1. GyroBool' BY <1>2 DEF GyroInv, GyroBool
  <2>2. GyroRange' BY <1>2 DEF GyroInv, GyroRange
  <2>3. GyroCommanded' BY <1>2 DEF GyroInv, GyroCommanded
  <2>4. GyroRun'  BY <1>2 DEF GyroInv, GyroRun, GyroRange, GyroCommanded
  <2>5. BiasIsHonest'  BY <1>2 DEF GyroInv, BiasIsHonest, G!BiasIsHonest
  <2> QED BY <2>1, <2>2, <2>3, <2>4, <2>5 DEF GyroInv
<1>3. CASE G!ImuGone \/ G!Accumulate \/ G!Count \/ G!Disarm \/ G!Flag
  <2>1. GyroBool' BY <1>3 DEF GyroInv, GyroBool
  <2>2. GyroRange' BY <1>3 DEF GyroInv, GyroRange, GyroRun
  <2>3. GyroCommanded' BY <1>3 DEF GyroInv, GyroCommanded
  <2>4. GyroRun'  BY <1>3 DEF GyroInv, GyroRun, GyroRange
  <2>5. BiasIsHonest'  BY <1>3 DEF GyroInv, BiasIsHonest, G!BiasIsHonest
  <2> QED BY <2>1, <2>2, <2>3, <2>4, <2>5 DEF GyroInv
<1>4. CASE G!Fold \/ G!Decide
  <2>1. GyroBool' BY <1>4 DEF GyroInv, GyroBool
  <2>0. mean' \in G!Bias
    <3>1. CASE G!Fold
      <4>1. (hi # lo) \in BOOLEAN OBVIOUS
      <4>2. summed \in Nat /\ s_gc_n \in Nat BY <1>4 DEF GyroInv, GyroRange
      <4>3. mean' = [samples |-> summed, divisor |-> s_gc_n, spread |-> hi # lo] BY <3>1
      <4> QED BY <4>1, <4>2, <4>3 DEF G!Bias
    <3>2. CASE G!Decide BY <3>2 DEF GyroInv, GyroRange
    <3> QED BY <1>4, <3>1, <3>2
  <2>2. GyroRange' BY <1>4, <2>0 DEF GyroInv, GyroRange, GyroRun
  <2>3. GyroCommanded' BY <1>4 DEF GyroInv, GyroCommanded
  <2>4. GyroRun'  BY <1>4 DEF GyroInv, GyroRun, GyroRange
  <2>5. BiasIsHonest'  BY <1>4 DEF GyroInv, BiasIsHonest, G!BiasIsHonest, GyroRun
  <2> QED BY <2>1, <2>2, <2>3, <2>4, <2>5 DEF GyroInv
<1>5. CASE G!Notice \/ G!Say
  <2>1. GyroBool' BY <1>5 DEF GyroInv, GyroBool
  <2>2. GyroRange' BY <1>5 DEF GyroInv, GyroRange
  <2>3. GyroCommanded' BY <1>5 DEF GyroInv, GyroCommanded
  <2>4. GyroRun'  BY <1>5 DEF GyroInv, GyroRun, GyroRange
  <2>5. BiasIsHonest'  BY <1>5 DEF GyroInv, BiasIsHonest, G!BiasIsHonest
  <2> QED BY <2>1, <2>2, <2>3, <2>4, <2>5 DEF GyroInv
<1> QED BY <1>1, <1>2, <1>3, <1>4, <1>5 DEF G!Next, G!Start, G!GyroStep

-----------------------------------------------------------------------------
(* Playback                                                                  *)

PlayFlags ==
    s_play_active \in BOOLEAN /\ s_play_report \in BOOLEAN /\ held \in BOOLEAN

PlayArray ==
    s_play \in [P!Cells -> [t_end : 0 .. PLAYBACK_MAX_S, vL : P!Values, vR : P!Values]]

PlayOut == vL \in P!Values /\ p_out \in P!Values \X P!Values

PlayRange ==
    /\ s_play_len \in 0 .. PLAYBACK_MAX /\ s_play_idx \in 0 .. PLAYBACK_MAX
    /\ clock \in 0 .. PLAYBACK_MAX_S + 1 /\ p_elapsed \in 0 .. PLAYBACK_MAX_S + 1
    /\ script \in 0 .. MaxCommands /\ p_given \in 0 .. MaxCommands
    /\ run \in 0 .. MaxCommands /\ cut \in 0 .. MaxCommands /\ p_said \in 0 .. MaxCommands
    /\ i \in 0 .. PLAYBACK_MAX
    /\ p_hpc \in {"idle", "beginIdx", "beginLen", "append", "appendL", "appendR",
                "appendLen", "end", "start", "startReport", "startT0", "startActive"}
    /\ mpc \in {"wait", "read", "scan", "store", "test", "endActive", "endReport",
                "outL", "outR"}

\* A step that is played or filled lies in the array, and every command in
\* progress has been counted.
PlayRun ==
    /\ mpc \in {"outL", "outR"} => i < PLAYBACK_MAX
    /\ p_hpc \in {"appendL", "appendR", "appendLen"} => s_play_len < PLAYBACK_MAX
    /\ script <= p_given
    /\ run + (IF p_hpc = "idle" THEN 0 ELSE 1) <= p_given

\* The inductive invariant of playback, whatever overlaps (control.c:358-376,
\* 1113-1156).
PlayInv == PlayFlags /\ PlayArray /\ PlayOut /\ PlayRange /\ PlayRun

LEMMA PlayTypes == PlayInv => P!TypeOK
BY DEF PlayInv, P!TypeOK, PlayFlags, PlayArray, PlayOut, PlayRange

LEMMA PlayInit == P!Init => PlayInv
<1> SUFFICES ASSUME P!Init PROVE PlayInv
    OBVIOUS
<1>1. PlayFlags BY DEF P!Init, PlayFlags
<1>2. PlayRange /\ PlayRun BY Sizes DEF P!Init, PlayRange, PlayRun
<1>3. P!Zero \in P!Values BY Sizes DEF P!Zero, P!Values
<1>4. PlayArray BY <1>3, Sizes DEF P!Init, PlayArray
<1>5. PlayOut BY <1>3 DEF P!Init, PlayOut
<1> QED BY <1>1, <1>2, <1>4, <1>5 DEF PlayInv

\* A store to one field of the step being filled keeps the array in shape.
LEMMA StoreCell ==
    ASSUME PlayArray, s_play_len \in P!Cells, NEW f, NEW v, PB!Store(f, v),
           \/ f = "t_end" /\ v \in 0 .. PLAYBACK_MAX_S
           \/ f \in {"vL", "vR"} /\ v \in P!Values
    PROVE  PlayArray'
<1> PICK V : V = P!Values OBVIOUS
<1> PICK C : C = P!Cells OBVIOUS
<1>1. s_play \in [C -> [t_end : 0 .. PLAYBACK_MAX_S, vL : V, vR : V]] /\ s_play_len \in C
   BY DEF PlayArray
<1>2. s_play' = [s_play EXCEPT ![s_play_len] = [@ EXCEPT ![f] = v]]
   BY DEF PB!Store
<1>3. CASE f = "t_end" /\ v \in 0 .. PLAYBACK_MAX_S
  BY <1>1, <1>2, <1>3 DEF PlayArray
<1>4. CASE f = "vL" /\ v \in V
  BY <1>1, <1>2, <1>4 DEF PlayArray
<1>5. CASE f = "vR" /\ v \in V
  BY <1>1, <1>2, <1>5 DEF PlayArray
<1> QED BY <1>3, <1>4, <1>5

\* Also when a command comes while the loop is at its script: the index that is
\* played was compared with a length, and no length passes the capacity.
LEMMA PlayNext ==
    ASSUME PlayInv, PB!Next
    PROVE  PlayInv'
<1> USE DEF PB!shared, PB!httpd, PB!motor
<1>0. PlayFlags /\ PlayArray /\ PlayOut /\ PlayRange /\ PlayRun BY DEF PlayInv
<1>1. CASE PB!Upload \/ PB!Play \/ PB!PlayStop
  <2> USE <1>0, <1>1 DEF PB!Upload, PB!Play, PB!PlayStop, PB!Command, PB!MayCommand
  <2>1. PlayFlags' BY DEF PlayFlags
  <2>2. PlayRange' /\ PlayRun' BY Sizes DEF PlayRange, PlayRun
  <2>3. PlayArray' /\ PlayOut' BY DEF PlayArray, PlayOut
  <2> QED BY <2>1, <2>2, <2>3 DEF PlayInv
<1>2. CASE PB!Begin \/ PB!UploadEnd \/ PB!Import
  <2> USE <1>0, <1>2 DEF PB!Begin, PB!BeginIdx, PB!BeginLen, PB!UploadEnd, PB!Import
  <2>1. PlayFlags' BY DEF PlayFlags
  <2>2. PlayRange' /\ PlayRun' BY Sizes DEF PlayRange, PlayRun
  <2>3. PlayArray' /\ PlayOut' BY DEF PlayArray, PlayOut
  <2> QED BY <2>1, <2>2, <2>3 DEF PlayInv
<1>3. CASE PB!Start
  <2> USE <1>0, <1>3 DEF PB!Start, PB!StartIdx, PB!StartReport, PB!StartT0, PB!StartActive
  <2>1. PlayFlags' BY DEF PlayFlags
  <2>2. PlayRange' /\ PlayRun' BY Sizes DEF PlayRange, PlayRun
  <2>3. PlayArray' /\ PlayOut' BY DEF PlayArray, PlayOut
  <2> QED BY <2>1, <2>2, <2>3 DEF PlayInv
<1>4. CASE PB!AppendEnd
  <2> USE <1>0, <1>4 DEF PB!AppendEnd
  <2>1. PlayFlags' BY DEF PlayFlags
  <2>2. PlayRange' /\ PlayRun' BY Sizes DEF PlayRange, PlayRun
  <2>3. PlayOut' BY DEF PlayOut
  <2>4. PlayArray'
    <3>1. CASE UNCHANGED s_play BY <3>1 DEF PlayArray
    <3>2. CASE ~UNCHANGED s_play
      <4>1. PICK dur \in Durations :
                 /\ dur > 0 /\ ~(s_play_len >= PLAYBACK_MAX)
                 /\ ~(dur > 0 /\ PB!PrevEnd + dur > PLAYBACK_MAX_S)
                 /\ PB!Store("t_end", PB!PrevEnd + dur)
            BY <3>2
      <4>2. s_play_len \in P!Cells BY <4>1, Sizes DEF PlayRange, P!Cells
      <4>3. PB!PrevEnd \in 0 .. PLAYBACK_MAX_S
        <5>1. \A c \in P!Cells : s_play[c].t_end \in 0 .. PLAYBACK_MAX_S BY DEF PlayArray
        <5>2. s_play_len > 0 => s_play_len - 1 \in P!Cells BY <4>2, Sizes DEF P!Cells
        <5>3. 0 \in 0 .. PLAYBACK_MAX_S BY Sizes
        <5>4. CASE s_play_len > 0 BY <5>1, <5>2, <5>4 DEF PB!PrevEnd
        <5>5. CASE ~(s_play_len > 0) BY <5>3, <5>5 DEF PB!PrevEnd
        <5> QED BY <5>4, <5>5
      <4>4. dur \in Nat BY Sizes
      <4>5. PB!PrevEnd + dur \in 0 .. PLAYBACK_MAX_S BY <4>1, <4>3, <4>4, Sizes
      <4> PICK end : end = PB!PrevEnd + dur OBVIOUS
      <4>6. PB!Store("t_end", end) /\ end \in 0 .. PLAYBACK_MAX_S BY <4>1, <4>5
      <4> QED BY <1>0, <4>2, <4>6, StoreCell
    <3> QED BY <3>1, <3>2
  <2> QED BY <2>1, <2>2, <2>3, <2>4 DEF PlayInv
<1>5. CASE PB!AppendL \/ PB!AppendR
  <2> USE <1>0, <1>5 DEF PB!AppendL, PB!AppendR
  <2>1. PlayFlags' BY DEF PlayFlags
  <2>2. PlayRange' /\ PlayRun' BY Sizes DEF PlayRange, PlayRun
  <2>3. PlayOut' BY DEF PlayOut
  <2>4. s_play_len \in P!Cells BY Sizes DEF PlayRange, PlayRun, P!Cells
  <2>5. <<script, s_play_len + 1>> \in P!Values BY Sizes DEF PlayRange, PlayRun, P!Values
  <2>6. PlayArray' BY <2>4, <2>5, StoreCell
  <2> QED BY <2>1, <2>2, <2>3, <2>6 DEF PlayInv
<1>6. CASE PB!AppendLen
  <2> USE <1>0, <1>6 DEF PB!AppendLen
  <2>1. PlayFlags' BY DEF PlayFlags
  <2>2. PlayRange' /\ PlayRun' BY Sizes DEF PlayRange, PlayRun
  <2>3. PlayArray' /\ PlayOut' BY DEF PlayArray, PlayOut
  <2> QED BY <2>1, <2>2, <2>3 DEF PlayInv
<1>7. CASE \/ PB!ReadIdx \/ PB!Scan \/ PB!StoreIdx \/ PB!TestEnd \/ PB!EndActive
           \/ PB!Hold \/ PB!Announce
  <2> USE <1>0, <1>7 DEF PB!ReadIdx, PB!Scan, PB!StoreIdx, PB!TestEnd, PB!EndActive,
      PB!Hold, PB!Announce
  <2>1. PlayFlags' BY DEF PlayFlags
  <2>2. PlayRange' /\ PlayRun' BY Sizes DEF PlayRange, PlayRun
  <2>3. PlayArray' /\ PlayOut' BY DEF PlayArray, PlayOut
  <2> QED BY <2>1, <2>2, <2>3 DEF PlayInv
<1>8. CASE PB!Tick \/ PB!EndReport
  <2> USE <1>0, <1>8 DEF PB!Tick, PB!EndReport
  <2>1. PlayFlags' BY DEF PlayFlags
  <2>2. PlayRange' /\ PlayRun' BY Sizes DEF PlayRange, PlayRun
  <2>3. PlayArray' BY DEF PlayArray
  <2>4. PB!Zero \in P!Values BY Sizes DEF PB!Zero, P!Values
  <2>5. PlayOut' BY <2>4 DEF PlayOut
  <2> QED BY <2>1, <2>2, <2>3, <2>5 DEF PlayInv
<1>9. CASE PB!OutL \/ PB!OutR
  <2> USE <1>0, <1>9 DEF PB!OutL, PB!OutR
  <2>1. PlayFlags' BY DEF PlayFlags
  <2>2. PlayRange' /\ PlayRun' BY Sizes DEF PlayRange, PlayRun
  <2>3. PlayArray' BY DEF PlayArray
  <2>4. i \in P!Cells BY Sizes DEF PlayRange, PlayRun, P!Cells
  <2>5. s_play[i].vL \in P!Values /\ s_play[i].vR \in P!Values BY <2>4 DEF PlayArray
  <2>6. PlayOut' BY <2>5 DEF PlayOut
  <2> QED BY <2>1, <2>2, <2>3, <2>6 DEF PlayInv
<1> QED BY <1>1, <1>2, <1>3, <1>4, <1>5, <1>6, <1>7, <1>8, <1>9 DEF PB!Next, PB!Append1,
    PB!PlaybackStep

-----------------------------------------------------------------------------
(* Playback between commands                                                 *)

\* Between commands: a command finds the loop at rest, and the end that is yet to
\* be announced belongs to the current run.
ScriptQuiet ==
    /\ p_hpc # "idle" => mpc = "wait" /\ ~s_play_active /\ ~s_play_report
    /\ s_play_active \/ mpc # "wait" => p_said < run /\ ~s_play_report
    /\ s_play_report => ~s_play_active /\ mpc = "wait" /\ p_said < run
    /\ mpc = "endReport" => ~s_play_active
    /\ p_said <= run

\* Every step below the length carries its place, and the index is reset before
\* the array or the clock changes under it.
ScriptBuilt ==
    /\ \A k \in P!Cells : k < s_play_len => s_play[k].vL[2] = k + 1
    /\ p_hpc \in {"appendR", "appendLen"} => s_play[s_play_len].vL[2] = s_play_len + 1
    /\ p_hpc \in {"beginLen", "append", "appendL", "appendR", "appendLen", "startReport",
                 "startT0"} =>
          s_play_idx = 0

\* Time t is past the step before k.
Passed(k, t) == k > 0 => s_play[k - 1].t_end <= t

\* The step that is chosen is the one the time of the tick falls into.
ScriptPlace ==
    /\ Passed(s_play_idx, clock)
    /\ mpc \in {"scan", "store", "test", "outL", "outR"} => p_elapsed = clock /\ Passed(i, p_elapsed)
    /\ mpc \in {"store", "test", "outL", "outR"} /\ i < s_play_len => p_elapsed < s_play[i].t_end
    /\ mpc \in {"outL", "outR"} => i < s_play_len
    /\ mpc = "outR" => vL = s_play[i].vL

\* The inductive invariant of a script no command cuts into.
ScriptInv == ScriptQuiet /\ ScriptBuilt /\ ScriptPlace

LEMMA ScriptInit == P!Init => ScriptInv
<1> SUFFICES ASSUME P!Init PROVE ScriptInv
    OBVIOUS
<1>1. /\ p_hpc = "idle" /\ mpc = "wait" /\ ~s_play_active /\ ~s_play_report
      /\ s_play_len = 0 /\ s_play_idx = 0 /\ p_said = 0 /\ run = 0
  BY DEF P!Init
<1>2. ScriptQuiet BY <1>1 DEF ScriptQuiet
<1>3. ScriptBuilt BY <1>1, Sizes DEF ScriptBuilt, P!Cells
<1>4. ScriptPlace BY <1>1 DEF ScriptPlace, Passed
<1> QED BY <1>2, <1>3, <1>4 DEF ScriptInv

LEMMA QuietNext ==
    ASSUME PlayInv, ScriptQuiet, P!Next
    PROVE  ScriptQuiet'
<1> USE DEF P!shared, P!httpd, P!motor
<1>0. run \in Nat /\ p_said \in Nat BY Sizes DEF PlayInv, PlayRange
<1>1. CASE P!Upload \/ P!Play \/ P!PlayStop
  BY <1>0, <1>1 DEF ScriptQuiet, P!Upload, P!Play, P!PlayStop, P!Command, P!MayCommand
<1>2. CASE P!Begin \/ P!Append1
  <2>1. mpc = "wait" /\ ~s_play_active /\ ~s_play_report /\
        UNCHANGED <<mpc, s_play_active, s_play_report, run, p_said>>
     BY <1>2 DEF ScriptQuiet, P!Begin, P!BeginIdx, P!BeginLen, P!Append1, P!AppendEnd,
         P!AppendL, P!AppendR, P!AppendLen, P!UploadEnd, P!Import
  <2> QED BY <2>1 DEF ScriptQuiet
<1>3. CASE P!Start
  <2>1. CASE P!StartActive
    <3>1. /\ mpc = "wait" /\ ~s_play_report /\ p_said <= run
          BY <2>1 DEF ScriptQuiet, P!StartActive
    <3>2. /\ p_hpc' = "idle" /\ mpc' = mpc /\ (s_play_report' <=> s_play_report)
          /\ run' = run + 1 /\ p_said' = p_said
          BY <2>1 DEF P!StartActive
    <3>3. p_said' < run' /\ p_said' <= run'
          BY <1>0, <3>1, <3>2
    <3> QED BY <3>1, <3>2, <3>3 DEF ScriptQuiet
  <2>2. CASE P!StartIdx \/ P!StartReport \/ P!StartT0
    BY <1>0, <2>2 DEF ScriptQuiet, P!StartIdx, P!StartReport, P!StartT0
  <2> QED BY <1>3, <2>1, <2>2 DEF P!Start
<1>4. CASE P!Tick \/ P!ReadIdx \/ P!Scan \/ P!StoreIdx \/ P!TestEnd \/ P!OutL \/ P!OutR
  BY <1>0, <1>4 DEF ScriptQuiet, P!Tick, P!ReadIdx, P!Scan, P!StoreIdx, P!TestEnd,
      P!OutL, P!OutR
<1>5. CASE P!EndActive \/ P!EndReport \/ P!Hold \/ P!Announce
  BY <1>0, <1>5 DEF ScriptQuiet, P!EndActive, P!EndReport, P!Hold, P!Announce
<1> QED BY <1>1, <1>2, <1>3, <1>4, <1>5 DEF P!Next, P!PlaybackStep

LEMMA BuiltNext ==
    ASSUME PlayInv, ScriptInv, P!Next
    PROVE  ScriptBuilt'
<1> USE DEF P!shared, P!httpd, P!motor
<1>0. /\ s_play_len \in 0 .. PLAYBACK_MAX /\ ScriptQuiet /\ ScriptBuilt /\ PlayArray
      /\ p_hpc \in {"appendL", "appendR", "appendLen"} => s_play_len \in P!Cells
      BY Sizes DEF PlayInv, PlayRange, PlayRun, ScriptInv, P!Cells
<1>1. CASE \/ P!Upload \/ P!Play \/ P!PlayStop \/ P!BeginIdx \/ P!UploadEnd
           \/ P!Import \/ P!Start
  <2>1. UNCHANGED <<s_play, s_play_len>> /\ p_hpc' \notin {"appendR", "appendLen"}
     BY <1>0, <1>1 DEF P!Upload, P!Play, P!PlayStop, P!Command, P!MayCommand, P!BeginIdx,
         P!UploadEnd, P!Import, P!Start, P!StartIdx, P!StartReport, P!StartT0, P!StartActive
  <2>2. p_hpc' \in {"beginLen", "append", "appendL", "appendR", "appendLen", "startReport",
                    "startT0"} => s_play_idx' = 0
     BY <1>0, <1>1 DEF ScriptBuilt, P!Upload, P!Play, P!PlayStop, P!Command,
         P!MayCommand, P!BeginIdx, P!UploadEnd, P!Import, P!Start, P!StartIdx,
         P!StartReport, P!StartT0, P!StartActive
  <2> QED BY <1>0, <2>1, <2>2 DEF ScriptBuilt
<1>2. CASE P!BeginLen
  BY <1>0, <1>2, Sizes DEF ScriptBuilt, P!BeginLen, P!Cells
<1>3. CASE P!AppendEnd
  <2>1. s_play_idx' = s_play_idx /\ s_play_len' = s_play_len /\ s_play_idx = 0
        /\ p_hpc' \in {"end", "appendL"}
     BY <1>0, <1>3 DEF P!AppendEnd, ScriptBuilt
  <2>2. \A k \in P!Cells : k < s_play_len => s_play'[k].vL = s_play[k].vL
     BY <1>0, <1>3 DEF P!AppendEnd, P!Store, PlayArray
  <2> QED BY <1>0, <2>1, <2>2 DEF ScriptBuilt
<1>4. CASE P!AppendL
  <2>1. /\ s_play_idx' = s_play_idx /\ s_play_len' = s_play_len
        /\ p_hpc' = "appendR" /\ s_play_idx = 0
        /\ s_play_len \in P!Cells
     BY <1>0, <1>4 DEF P!AppendL, ScriptBuilt
  <2>2. /\ s_play'[s_play_len].vL = <<script, s_play_len + 1>>
        /\ \A k \in P!Cells : k # s_play_len => s_play'[k] = s_play[k]
     BY <1>0, <1>4, <2>1 DEF P!AppendL, P!Store, PlayArray
  <2> QED BY <1>0, <2>1, <2>2, Sizes DEF ScriptBuilt, P!Cells
<1>5. CASE P!AppendR
  <2>1. /\ s_play_idx' = s_play_idx /\ s_play_len' = s_play_len
        /\ p_hpc' = "appendLen" /\ s_play_idx = 0
        /\ s_play_len \in P!Cells /\ s_play[s_play_len].vL[2] = s_play_len + 1
     BY <1>0, <1>5 DEF P!AppendR, ScriptBuilt
  <2>2. \A k \in P!Cells : s_play'[k].vL = s_play[k].vL
     BY <1>0, <1>5, <2>1 DEF P!AppendR, P!Store, PlayArray
  <2> QED BY <1>0, <2>1, <2>2 DEF ScriptBuilt
<1>6. CASE P!AppendLen
  <2>1. /\ s_play_idx' = s_play_idx /\ s_play' = s_play
        /\ s_play_len' = s_play_len + 1 /\ p_hpc' = "append" /\ s_play_idx = 0
        /\ s_play_len \in P!Cells /\ s_play[s_play_len].vL[2] = s_play_len + 1
     BY <1>0, <1>6 DEF P!AppendLen, ScriptBuilt
  <2> QED BY <1>0, <2>1, Sizes DEF ScriptBuilt, P!Cells
<1>7. CASE \/ P!Tick \/ P!ReadIdx \/ P!Scan \/ P!TestEnd \/ P!OutL \/ P!OutR
           \/ P!EndActive \/ P!EndReport \/ P!Hold \/ P!Announce
  <2>1. UNCHANGED <<s_play, s_play_len, s_play_idx, p_hpc>>
    BY <1>7 DEF P!Tick, P!ReadIdx, P!Scan, P!TestEnd, P!OutL, P!OutR, P!EndActive,
        P!EndReport, P!Hold, P!Announce
  <2> QED BY <1>0, <2>1 DEF ScriptBuilt
<1>8. CASE P!StoreIdx
  <2>1. UNCHANGED <<s_play, s_play_len, p_hpc>> /\ p_hpc = "idle"
    BY <1>0, <1>8 DEF P!StoreIdx, ScriptQuiet
  <2> QED BY <1>0, <2>1 DEF ScriptBuilt
<1> QED BY <1>1, <1>2, <1>3, <1>4, <1>5, <1>6, <1>7, <1>8 DEF P!Next, P!PlaybackStep,
    P!Begin, P!Append1

LEMMA PlaceNext ==
    ASSUME PlayInv, ScriptInv, P!Next
    PROVE  ScriptPlace'
<1> USE DEF P!shared, P!httpd, P!motor
<1>0. /\ ScriptQuiet /\ ScriptBuilt /\ ScriptPlace
      /\ s_play_len \in 0 .. PLAYBACK_MAX /\ s_play_idx \in 0 .. PLAYBACK_MAX
      /\ i \in 0 .. PLAYBACK_MAX
      /\ clock \in Nat /\ p_elapsed \in Nat
      /\ \A k \in P!Cells : s_play[k].t_end \in Nat
      /\ PLAYBACK_MAX \in Nat /\ PLAYBACK_MAX_S \in Nat
      BY Sizes DEF PlayInv, PlayRange, PlayArray, ScriptInv
<1>1. CASE P!Upload \/ P!Play \/ P!PlayStop
  <2>1. UNCHANGED <<s_play, s_play_len, s_play_idx, clock, P!motor>>
     BY <1>1 DEF P!Upload, P!Play, P!PlayStop
  <2> QED BY <1>0, <2>1 DEF ScriptPlace, Passed
<1>2. CASE P!Begin \/ P!Append1 \/ P!Start
  <2>1. mpc = "wait" /\ mpc' = "wait"
     BY <1>0, <1>2 DEF ScriptQuiet, P!Begin, P!BeginIdx, P!BeginLen, P!Append1,
         P!AppendEnd, P!AppendL, P!AppendR, P!AppendLen, P!UploadEnd, P!Import, P!Start,
         P!StartIdx, P!StartReport, P!StartT0, P!StartActive
  <2>2. s_play_idx' = 0 \/ UNCHANGED <<s_play, s_play_idx, clock>>
     BY <1>0, <1>2 DEF ScriptBuilt, P!Begin, P!BeginIdx, P!BeginLen, P!Append1,
         P!AppendEnd, P!AppendL, P!AppendR, P!AppendLen, P!UploadEnd, P!Import, P!Start,
         P!StartIdx, P!StartReport, P!StartT0, P!StartActive
  <2>3. Passed(s_play_idx, clock)'
     BY <1>0, <2>2 DEF ScriptPlace, Passed
  <2> QED BY <2>1, <2>3 DEF ScriptPlace
<1>3. CASE P!Tick
  <2>1. /\ UNCHANGED <<s_play, s_play_len, s_play_idx>> /\ mpc' \in {"wait", "read"}
        /\ clock' \in Nat /\ clock' >= clock
     BY <1>0, <1>3 DEF P!Tick
  <2>2. s_play_idx > 0 => s_play_idx - 1 \in P!Cells
     BY <1>0 DEF P!Cells
  <2>3. Passed(s_play_idx, clock)'
     BY <1>0, <2>1, <2>2 DEF ScriptPlace, Passed
  <2> QED BY <2>1, <2>3 DEF ScriptPlace
<1>4. CASE P!ReadIdx
  BY <1>0, <1>4 DEF P!ReadIdx, ScriptPlace, Passed
<1>5. CASE P!Scan
  <2>1. CASE i < s_play_len /\ p_elapsed >= s_play[i].t_end
    <3>1. /\ i' = i + 1 /\ mpc' = "scan" /\ mpc = "scan"
          /\ UNCHANGED <<s_play, s_play_len, s_play_idx, clock, p_elapsed>>
       BY <1>5, <2>1 DEF P!Scan
    <3>2. i \in P!Cells /\ i + 1 - 1 = i
       BY <1>0, <2>1 DEF P!Cells
    <3>3. Passed(i, p_elapsed)'
       BY <1>0, <2>1, <3>1, <3>2 DEF Passed
    <3> QED BY <1>0, <3>1, <3>3 DEF ScriptPlace, Passed
  <2>2. CASE ~(i < s_play_len /\ p_elapsed >= s_play[i].t_end)
    <3>1. /\ mpc' = "store" /\ mpc = "scan"
          /\ UNCHANGED <<s_play, s_play_len, s_play_idx, clock, i, p_elapsed>>
       BY <1>5, <2>2 DEF P!Scan
    <3>2. i < s_play_len => p_elapsed < s_play[i].t_end
       BY <1>0, <2>2 DEF P!Cells
    <3> QED BY <1>0, <3>1, <3>2 DEF ScriptPlace, Passed
  <2> QED BY <2>1, <2>2
<1>6. CASE P!StoreIdx
  BY <1>0, <1>6 DEF P!StoreIdx, ScriptPlace, Passed
<1>7. CASE P!TestEnd
  BY <1>0, <1>7 DEF P!TestEnd, ScriptPlace, Passed
<1>8. CASE P!EndActive \/ P!EndReport \/ P!Hold \/ P!Announce
  BY <1>0, <1>8 DEF P!EndActive, P!EndReport, P!Hold, P!Announce, ScriptPlace, Passed
<1>9. CASE P!OutL \/ P!OutR
  BY <1>0, <1>9 DEF P!OutL, P!OutR, ScriptPlace, Passed
<1> QED BY <1>1, <1>2, <1>3, <1>4, <1>5, <1>6, <1>7, <1>8, <1>9 DEF P!Next, P!PlaybackStep

\* Only OutR ends a tick with a step of the script.
LEMMA ScriptTurn ==
    ASSUME PlayInv, ScriptInv, P!Next
    PROVE  P!StepInTurn
<1> SUFFICES ASSUME mpc = "outR", mpc' = "wait" PROVE P!InTurn'
  BY DEF P!StepInTurn
<1>1. P!OutR
  <2>1. p_hpc = "idle"
    BY DEF ScriptInv, ScriptQuiet
  <2>2. mpc' # mpc OBVIOUS
  <2> QED BY <2>1, <2>2 DEF P!Next, P!PlaybackStep, P!Upload, P!Play, P!PlayStop,
      P!Command, P!MayCommand, P!Begin, P!BeginIdx, P!BeginLen, P!Append1, P!AppendEnd,
      P!AppendL, P!AppendR, P!AppendLen, P!UploadEnd, P!Import, P!Start, P!StartIdx,
      P!StartReport, P!StartT0, P!StartActive, P!Tick, P!ReadIdx, P!Scan, P!StoreIdx,
      P!TestEnd, P!EndActive, P!EndReport, P!OutL, P!Hold, P!Announce, P!motor
<1>2. /\ i \in Nat /\ i < s_play_len /\ vL = s_play[i].vL /\ i \in P!Cells
      /\ p_elapsed < s_play[i].t_end /\ Passed(i, p_elapsed) /\ s_play[i].vL[2] = i + 1
  BY Sizes DEF ScriptInv, ScriptPlace, ScriptBuilt, PlayInv, PlayRange, PlayRun, P!Cells
<1>3. p_out' = <<vL, s_play[i].vR>> /\ UNCHANGED <<s_play, p_elapsed>>
  BY <1>1 DEF P!OutR, P!shared
<1>4. p_out'[1][2] = i + 1
  BY <1>2, <1>3
<1> QED BY <1>2, <1>3, <1>4 DEF P!InTurn, Passed

LEMMA ScriptOnce ==
    ASSUME PlayInv, ScriptInv, P!Next
    PROVE  P!AnnouncedOnce
<1> SUFFICES ASSUME s_play_report PROVE ~s_play_active /\ p_said # run
  BY DEF P!AnnouncedOnce
<1> QED BY Sizes DEF ScriptInv, ScriptQuiet, PlayInv, PlayRange

-----------------------------------------------------------------------------
(* The types of both sweeps                                                  *)

\* A sweep with ceiling m that may be armed again, suspended and reset: it has
\* every step of both sweeps.
S(m) == INSTANCE DeadbandSweep WITH
           DB_MAX <- m, MayRearm <- TRUE, MaySuspend <- TRUE, MayReset <- TRUE,
           hpc <- d_hpc, given <- d_given, elapsed <- d_elapsed, out <- d_out

LEMMA SweepInitTypes ==
    ASSUME NEW m \in Nat \ {0}, S(m)!Init
    PROVE  S(m)!TypeOK
<1>1. s_db_active \in BOOLEAN /\ s_db_report \in BOOLEAN /\ suspended \in BOOLEAN
      BY DEF S!Init
<1>2. /\ d_elapsed = 0 /\ d_given = 0 /\ s_db_phase = "fwd" /\ d_hpc = "idle"
      /\ thr \in [S(m)!Wheels -> 1 .. m + 1]
      /\ s_db_start_cnt = S(m)!Each(0) /\ cnt = S(m)!Each(0) /\ d_out = S(m)!Each(0)
      /\ s_db_thresh = S(m)!PerDir(0) /\ peak = S(m)!PerDir(0)
      /\ s_db_found = S(m)!PerDir(FALSE)
      BY DEF S!Init
<1>3. s_db_found \in [S(m)!Wheels -> [S(m)!Dirs -> BOOLEAN]]
      BY <1>2 DEF S!PerDir
<1>4. /\ s_db_thresh \in [S(m)!Wheels -> [S(m)!Dirs -> 0 .. m]]
      /\ peak \in [S(m)!Wheels -> [S(m)!Dirs -> 0 .. m]]
      BY <1>2 DEF S!PerDir
<1>5. /\ s_db_start_cnt \in [S(m)!Wheels -> Int] /\ cnt \in [S(m)!Wheels -> Int]
      /\ d_out \in [S(m)!Wheels -> -m .. m]
  <2>1. 0 \in -m .. m
        OBVIOUS
  <2>2. S(m)!Each(0) = [w \in S(m)!Wheels |-> 0]
        BY DEF S!Each
  <2>3. S(m)!Each(0) \in [S(m)!Wheels -> -m .. m]
        BY <2>1, <2>2
  <2>4. S(m)!Each(0) \in [S(m)!Wheels -> Int]
        BY <2>2
  <2> QED BY <1>2, <2>3, <2>4
<1>6. /\ d_elapsed \in 0 .. m + DB_SETTLE + 1 /\ d_given \in 0 .. MaxCommands
      /\ s_db_phase \in {"fwd", "settle", "rev"}
      /\ d_hpc \in {"idle", "phase", "t0", "counts", "report", "active"}
      BY <1>2, SweepSizes
<1>7. thr \in [S(m)!Wheels -> 1 .. m + 1]
      BY <1>2
<1> QED BY <1>1, <1>3, <1>4, <1>5, <1>6, <1>7 DEF S!TypeOK

\* A duty is at most the ceiling, so are what is latched and what is given.
LEMMA SweepTickTypes ==
    ASSUME NEW m \in Nat \ {0}, S(m)!TypeOK, S(m)!Tick
    PROVE  S(m)!TypeOK'
<1> DEFINE t == S(m)!Now
<1>1. /\ s_db_active \in BOOLEAN /\ s_db_report \in BOOLEAN /\ suspended \in BOOLEAN
      /\ s_db_found \in [S(m)!Wheels -> [S(m)!Dirs -> BOOLEAN]]
      BY DEF S!TypeOK
<1>2. t \in 0 .. m + DB_SETTLE + 1
      BY SweepSizes DEF S!Now, S!TypeOK
<1>3. UNCHANGED <<cnt, thr, suspended, d_hpc, d_given>>
      BY DEF S!Tick, S!plant, S!httpd
<1>4. CASE S(m)!Settle(t) /\ s_db_active
  <2>1. UNCHANGED <<s_db_active, s_db_report, s_db_thresh, s_db_found, peak>>
        BY <1>4 DEF S!Settle, S!flags
  <2>2. d_out' \in [S(m)!Wheels -> -m .. m]
        BY <1>4 DEF S!Settle, S!Each
  <2>3. /\ d_elapsed' \in 0 .. m + DB_SETTLE + 1 /\ s_db_phase' \in {"fwd", "settle", "rev"}
        /\ s_db_start_cnt' \in [S(m)!Wheels -> Int]
        BY <1>2, <1>4, SweepSizes DEF S!Settle, S!TypeOK
  <2> QED BY <1>1, <1>3, <2>1, <2>2, <2>3 DEF S!TypeOK
<1>5. CASE S(m)!Ramp(t) /\ s_db_active
  <2>1. s_db_found' \in [S(m)!Wheels -> [S(m)!Dirs -> BOOLEAN]]
    <3>1. \A w \in S(m)!Wheels : S(m)!Found(w) \in BOOLEAN
          BY DEF S!Found
    <3>2. s_db_found' =
             [w \in S(m)!Wheels |-> [s_db_found[w] EXCEPT ![S(m)!Dir] = S(m)!Found(w)]]
          BY <1>5 DEF S!Ramp, S!Latch
    <3> QED BY <1>1, <3>1, <3>2
  <2>2. S(m)!Duty(t) \in 0 .. m /\ (S(m)!Sgn = 1 \/ S(m)!Sgn = -1)
        BY <1>2, SweepSizes DEF S!Duty, S!Sgn
  <2>3. s_db_thresh' \in [S(m)!Wheels -> [S(m)!Dirs -> 0 .. m]]
    <3>1. s_db_thresh' = [w \in S(m)!Wheels |-> [s_db_thresh[w] EXCEPT ![S(m)!Dir] =
             IF s_db_found[w][S(m)!Dir] THEN @
             ELSE IF S(m)!Moved(w) THEN S(m)!Duty(t)
             ELSE IF S(m)!Done(t) THEN m ELSE @]]
          BY <1>5 DEF S!Ramp, S!Latch
    <3>2. s_db_thresh \in [S(m)!Wheels -> [S(m)!Dirs -> 0 .. m]] /\ m \in 0 .. m
          BY DEF S!TypeOK
    <3> QED BY <2>2, <3>1, <3>2
  <2>4. d_out' \in [S(m)!Wheels -> -m .. m]
    <3>1. d_out' = [w \in S(m)!Wheels |->
             IF S(m)!Done(t) \/ S(m)!Found(w) THEN 0 ELSE S(m)!Sgn * S(m)!Duty(t)]
          BY <1>5 DEF S!Ramp
    <3>2. S(m)!Sgn * S(m)!Duty(t) \in -m .. m /\ 0 \in -m .. m
          BY <2>2
    <3> QED BY <3>1, <3>2
  <2>5. peak' \in [S(m)!Wheels -> [S(m)!Dirs -> 0 .. m]]
    <3>1. peak' = [w \in S(m)!Wheels |-> [peak[w] EXCEPT ![S(m)!Dir] =
                  IF S(m)!Abs(d_out'[w]) > @ THEN S(m)!Abs(d_out'[w]) ELSE @]]
          BY <1>5 DEF S!Ramp
    <3>2. \A w \in S(m)!Wheels : S(m)!Abs(d_out'[w]) \in 0 .. m
          BY <2>4 DEF S!Abs
    <3>3. peak \in [S(m)!Wheels -> [S(m)!Dirs -> 0 .. m]]
          BY DEF S!TypeOK
    <3> QED BY <3>1, <3>2, <3>3
  <2>6. s_db_active' \in BOOLEAN /\ s_db_report' \in BOOLEAN
        BY <1>1, <1>5 DEF S!Ramp, S!flags
  <2>7. /\ d_elapsed' \in 0 .. m + DB_SETTLE + 1 /\ s_db_phase' \in {"fwd", "settle", "rev"}
        /\ UNCHANGED s_db_start_cnt
        BY <1>2, <1>5, SweepSizes DEF S!Ramp, S!TypeOK
  <2> QED BY <1>1, <1>3, <2>1, <2>3, <2>4, <2>5, <2>6, <2>7 DEF S!TypeOK
<1>6. CASE d_out' = S(m)!Each(0) /\ d_elapsed' = t /\ UNCHANGED <<S(m)!sweep, S(m)!flags,
                                                                  peak>>
  <2>1. d_out' \in [S(m)!Wheels -> -m .. m]
        BY <1>6 DEF S!Each
  <2> QED BY <1>1, <1>2, <1>3, <1>6, <2>1 DEF S!TypeOK, S!sweep, S!flags
<1> QED BY <1>4, <1>5, <1>6 DEF S!Tick

LEMMA SweepNextTypes ==
    ASSUME NEW m \in Nat \ {0}, S(m)!TypeOK, S(m)!Next
    PROVE  S(m)!TypeOK'
<1> USE DEF S!sweep, S!flags, S!plant, S!httpd
<1>1. CASE S(m)!StartClear
  <2>1. /\ s_db_thresh' \in [S(m)!Wheels -> [S(m)!Dirs -> 0 .. m]]
        /\ peak' \in [S(m)!Wheels -> [S(m)!Dirs -> 0 .. m]]
        BY <1>1 DEF S!StartClear, S!PerDir
  <2>2. s_db_found' \in [S(m)!Wheels -> [S(m)!Dirs -> BOOLEAN]]
        BY <1>1 DEF S!StartClear, S!PerDir
  <2>3. d_hpc' = "phase" /\ d_given' \in 0 .. MaxCommands
        BY <1>1, SweepSizes DEF S!StartClear, S!Command, S!TypeOK
  <2> QED BY <1>1, <2>1, <2>2, <2>3 DEF S!StartClear, S!TypeOK
<1>2. CASE S(m)!Start
  <2>1. s_db_active' \in BOOLEAN /\ s_db_report' \in BOOLEAN /\ suspended' \in BOOLEAN
        BY <1>2 DEF S!Start, S!StartPhase, S!StartT0, S!StartCounts, S!StartReport,
            S!StartActive, S!TypeOK
  <2>2. /\ s_db_phase' \in {"fwd", "settle", "rev"} /\ d_elapsed' \in 0 .. m + DB_SETTLE + 1
        /\ s_db_start_cnt' \in [S(m)!Wheels -> Int]
        /\ d_hpc' \in {"idle", "phase", "t0", "counts", "report", "active"}
        /\ UNCHANGED <<s_db_thresh, s_db_found, cnt, thr, d_out, d_given, peak>>
        BY <1>2, SweepSizes DEF S!Start, S!StartPhase, S!StartT0, S!StartCounts,
            S!StartReport, S!StartActive, S!TypeOK
  <2> QED BY <2>1, <2>2 DEF S!TypeOK
<1>3. CASE S(m)!Stop \/ S(m)!Suspend \/ S(m)!EncReset \/ S(m)!Emit
  <2>1. s_db_active' \in BOOLEAN /\ s_db_report' \in BOOLEAN /\ suspended' \in BOOLEAN
        BY <1>3 DEF S!Stop, S!Suspend, S!EncReset, S!Emit, S!TypeOK
  <2>2. d_given' \in 0 .. MaxCommands
        BY <1>3, SweepSizes DEF S!Stop, S!Suspend, S!EncReset, S!Emit, S!Command, S!TypeOK
  <2>3. cnt' \in [S(m)!Wheels -> Int]
        BY <1>3 DEF S!Stop, S!Suspend, S!EncReset, S!Emit, S!Each, S!TypeOK
  <2>4. UNCHANGED <<s_db_phase, s_db_start_cnt, d_elapsed, s_db_thresh, s_db_found, thr,
                    d_out, d_hpc, peak>>
        BY <1>3 DEF S!Stop, S!Suspend, S!EncReset, S!Emit
  <2> QED BY <2>1, <2>2, <2>3, <2>4 DEF S!TypeOK
<1>4. CASE S(m)!Tick
      BY <1>4, SweepTickTypes
<1>5. ASSUME NEW w \in S(m)!Wheels, S(m)!Turn(w) PROVE S(m)!TypeOK'
  <2>1. cnt' \in [S(m)!Wheels -> Int]
        BY <1>5 DEF S!Turn, S!TypeOK
  <2> QED BY <1>5, <2>1 DEF S!Turn, S!TypeOK
<1> QED BY <1>1, <1>2, <1>3, <1>4, <1>5 DEF S!Next

\* The two sweeps are this one with less allowed.
LEMMA DSweep ==
    /\ D!TypeOK <=> S(DB_MAX)!TypeOK
    /\ D!TypeOK' <=> S(DB_MAX)!TypeOK'
    /\ D!Init => S(DB_MAX)!Init
    /\ D!Next => S(DB_MAX)!Next
<1> USE DEF D!Wheels, S!Wheels, D!Dirs, S!Dirs, D!Each, S!Each, D!PerDir, S!PerDir,
        D!Abs, S!Abs, D!sweep, S!sweep, D!flags, S!flags, D!plant, S!plant,
        D!httpd, S!httpd
<1>1. (D!TypeOK <=> S(DB_MAX)!TypeOK) /\ (D!TypeOK' <=> S(DB_MAX)!TypeOK')
      BY DEF D!TypeOK, S!TypeOK
<1>2. D!Init => S(DB_MAX)!Init
      BY DEF D!Init, S!Init
<1>3. D!Tick => S(DB_MAX)!Tick
      BY DEF D!Tick, S!Tick, D!Settle, S!Settle, D!Ramp, S!Ramp, D!Now, S!Now, D!Latch,
             S!Latch, D!Done, S!Done, D!Duty, S!Duty, D!Found, S!Found, D!Moved, S!Moved,
             D!Dir, S!Dir, D!Sgn, S!Sgn
<1>4. D!StartClear \/ D!Start => S(DB_MAX)!StartClear \/ S(DB_MAX)!Start
      BY DEF D!StartClear, S!StartClear, D!Start, S!Start, D!StartPhase, S!StartPhase,
             D!StartT0, S!StartT0, D!StartCounts, S!StartCounts, D!StartReport,
             S!StartReport, D!StartActive, S!StartActive, D!Command, S!Command
<1>5. D!Stop \/ D!Suspend \/ D!EncReset \/ D!Emit
      => S(DB_MAX)!Stop \/ S(DB_MAX)!Suspend \/ S(DB_MAX)!EncReset \/ S(DB_MAX)!Emit
      BY DEF D!Stop, S!Stop, D!Suspend, S!Suspend, D!EncReset, S!EncReset, D!Emit,
             S!Emit, D!Command, S!Command
<1>6. ASSUME NEW w \in D!Wheels, D!Turn(w)
      PROVE  w \in S(DB_MAX)!Wheels /\ S(DB_MAX)!Turn(w)
      BY <1>6 DEF D!Turn, S!Turn
<1>7. D!Next => S(DB_MAX)!Next
      BY <1>3, <1>4, <1>5, <1>6 DEF D!Next, S!Next
<1> QED BY <1>1, <1>2, <1>7

LEMMA DBSweep ==
    /\ DB!TypeOK <=> S(DB_MAX_busy)!TypeOK
    /\ DB!TypeOK' <=> S(DB_MAX_busy)!TypeOK'
    /\ DB!Init => S(DB_MAX_busy)!Init
    /\ DB!Next => S(DB_MAX_busy)!Next
<1> USE DEF DB!Wheels, S!Wheels, DB!Dirs, S!Dirs, DB!Each, S!Each, DB!PerDir, S!PerDir,
        DB!Abs, S!Abs, DB!sweep, S!sweep, DB!flags, S!flags, DB!plant, S!plant,
        DB!httpd, S!httpd
<1>1. (DB!TypeOK <=> S(DB_MAX_busy)!TypeOK) /\ (DB!TypeOK' <=> S(DB_MAX_busy)!TypeOK')
      BY DEF DB!TypeOK, S!TypeOK
<1>2. DB!Init => S(DB_MAX_busy)!Init
      BY DEF DB!Init, S!Init
<1>3. DB!Tick => S(DB_MAX_busy)!Tick
      BY DEF DB!Tick, S!Tick, DB!Settle, S!Settle, DB!Ramp, S!Ramp, DB!Now, S!Now,
             DB!Latch, S!Latch, DB!Done, S!Done, DB!Duty, S!Duty, DB!Found, S!Found,
             DB!Moved, S!Moved, DB!Dir, S!Dir, DB!Sgn, S!Sgn
<1>4. DB!StartClear \/ DB!Start => S(DB_MAX_busy)!StartClear \/ S(DB_MAX_busy)!Start
      BY DEF DB!StartClear, S!StartClear, DB!Start, S!Start, DB!StartPhase, S!StartPhase,
             DB!StartT0, S!StartT0, DB!StartCounts, S!StartCounts, DB!StartReport,
             S!StartReport, DB!StartActive, S!StartActive, DB!Command, S!Command
<1>5. DB!Stop \/ DB!Suspend \/ DB!EncReset \/ DB!Emit
      => \/ S(DB_MAX_busy)!Stop \/ S(DB_MAX_busy)!Suspend
         \/ S(DB_MAX_busy)!EncReset \/ S(DB_MAX_busy)!Emit
      BY DEF DB!Stop, S!Stop, DB!Suspend, S!Suspend, DB!EncReset, S!EncReset, DB!Emit,
             S!Emit, DB!Command, S!Command
<1>6. ASSUME NEW w \in DB!Wheels, DB!Turn(w)
      PROVE  w \in S(DB_MAX_busy)!Wheels /\ S(DB_MAX_busy)!Turn(w)
      BY <1>6 DEF DB!Turn, S!Turn
<1>7. DB!Next => S(DB_MAX_busy)!Next
      BY <1>3, <1>4, <1>5, <1>6 DEF DB!Next, S!Next
<1> QED BY <1>1, <1>2, <1>7

-----------------------------------------------------------------------------
(* The verdict of a sweep left alone                                         *)

\* A sweep is armed from rest: from the first store of the command to the
\* activation the wheels stand, so the baseline is where they are.
SweepArming ==
    /\ ~suspended
    /\ s_db_active => d_hpc = "idle"
    /\ s_db_report => ~s_db_active /\ d_hpc = "idle"
    /\ d_hpc # "idle" =>
          \A w \in D!Wheels :
              d_out[w] = 0 /\ \A d \in D!Dirs : ~s_db_found[w][d] /\ peak[w][d] = 0
    /\ d_hpc \in {"t0", "counts", "report", "active"} => s_db_phase = "fwd"
    /\ d_hpc \in {"counts", "report", "active"} => d_elapsed = 0
    /\ d_hpc \in {"report", "active"} => s_db_start_cnt = cnt

\* Wheel w in the phase of direction d: it has turned and is parked, or gets the
\* duty of the level, and can have moved only if that duty turns it.
OnRamp(w, d) ==
    IF s_db_found[w][d]
    THEN s_db_thresh[w][d] >= thr[w] /\ d_out[w] = 0
    ELSE /\ d_out[w] = D!Sgn * d_elapsed /\ peak[w][d] >= d_elapsed
         /\ cnt[w] # s_db_start_cnt[w] => d_elapsed >= thr[w]

\* What may be said of wheel w and direction d once the phase is over.
Truthful(w, d) ==
    IF s_db_found[w][d] THEN s_db_thresh[w][d] >= thr[w] ELSE peak[w][d] >= DB_MAX - 1

SweepRamping ==
    s_db_active /\ s_db_phase # "settle" =>
        d_elapsed < DB_MAX /\ \A w \in D!Wheels : OnRamp(w, D!Dir)

SweepPhases ==
    \A w \in D!Wheels :
        /\ s_db_active /\ s_db_phase # "rev" => ~s_db_found[w][1]
        /\ s_db_active /\ s_db_phase = "settle" => d_out[w] = 0
        /\ s_db_active /\ s_db_phase # "fwd" => Truthful(w, 0)
        /\ s_db_report => Truthful(w, 0) /\ Truthful(w, 1)

\* The inductive invariant of a sweep left alone (control.c:302-356).
SweepInv == D!TypeOK /\ SweepArming /\ SweepRamping /\ SweepPhases

\* One tick of a ramp: the level rises by one, a wheel that moved since the last
\* tick is latched at a duty not below the one that moved it.
LEMMA RampStep ==
    ASSUME SweepInv, s_db_active, D!Ramp(D!Now),
           UNCHANGED <<cnt, thr, suspended, d_hpc, d_given>>, D!TypeOK'
    PROVE  SweepInv'
<1> DEFINE t == d_elapsed + 1
           d == D!Dir
<1>0. /\ DB_MAX \in Nat \ {0} /\ DB_SETTLE \in Nat /\ d_elapsed \in Nat
      /\ d_elapsed < DB_MAX /\ d_hpc = "idle"
      /\ D!Now = t /\ t \in Nat /\ D!Duty(t) = t /\ s_db_phase # "settle" /\ ~suspended
      /\ s_db_start_cnt' = s_db_start_cnt
  <2>1. d_hpc = "idle" /\ s_db_phase # "settle" /\ ~suspended /\ UNCHANGED s_db_start_cnt
        BY DEF SweepInv, SweepArming, D!Ramp
  <2>2. d_elapsed \in Nat /\ d_elapsed < DB_MAX
        BY <2>1, SweepSizes DEF SweepInv, SweepRamping, D!TypeOK
  <2> QED BY <2>1, <2>2, SweepSizes DEF D!Now, D!Duty
<1>1. /\ d \in {0, 1} /\ (d = 0 <=> s_db_phase = "fwd") /\ (D!Sgn = 1 \/ D!Sgn = -1)
      BY DEF D!Dir, D!Sgn
<1>2. ASSUME NEW w \in D!Wheels
      PROVE  /\ D!Moved(w) <=> cnt[w] # s_db_start_cnt[w]
             /\ s_db_found'[w][d] <=> s_db_found[w][d] \/ cnt[w] # s_db_start_cnt[w]
             /\ s_db_thresh'[w][d] = IF s_db_found[w][d] THEN s_db_thresh[w][d]
                      ELSE IF cnt[w] # s_db_start_cnt[w] THEN t
                      ELSE IF D!Done(t) THEN DB_MAX ELSE s_db_thresh[w][d]
             /\ d_out'[w] = IF D!Done(t) \/ D!Found(w) THEN 0 ELSE D!Sgn * t
             /\ peak'[w][d] = IF D!Abs(d_out'[w]) > peak[w][d]
                              THEN D!Abs(d_out'[w]) ELSE peak[w][d]
             /\ \A e \in {0, 1} \ {d} : /\ s_db_found'[w][e] = s_db_found[w][e]
                             /\ s_db_thresh'[w][e] = s_db_thresh[w][e]
                             /\ peak'[w][e] = peak[w][e]
  <2>1. D!Moved(w) <=> cnt[w] # s_db_start_cnt[w]
    <3>1. cnt[w] \in Int /\ s_db_start_cnt[w] \in Int
          BY DEF SweepInv, D!TypeOK
    <3> QED BY <3>1 DEF D!Moved, D!Abs
  <2>2. /\ s_db_found \in [D!Wheels -> [{0, 1} -> BOOLEAN]]
        /\ s_db_thresh \in [D!Wheels -> [{0, 1} -> 0 .. DB_MAX]]
        /\ peak \in [D!Wheels -> [{0, 1} -> 0 .. DB_MAX]]
        BY DEF SweepInv, D!TypeOK, D!Dirs
  <2>3. /\ s_db_found' = [v \in D!Wheels |-> [s_db_found[v] EXCEPT ![d] = D!Found(v)]]
        /\ s_db_thresh' = [v \in D!Wheels |-> [s_db_thresh[v] EXCEPT ![d] =
             IF s_db_found[v][d] THEN @
             ELSE IF D!Moved(v) THEN t
             ELSE IF D!Done(t) THEN DB_MAX ELSE @]]
        /\ d_out' = [v \in D!Wheels |-> IF D!Done(t) \/ D!Found(v) THEN 0 ELSE D!Sgn * t]
        /\ peak' = [v \in D!Wheels |-> [peak[v] EXCEPT ![d] =
                  IF D!Abs(d_out'[v]) > @ THEN D!Abs(d_out'[v]) ELSE @]]
        BY <1>0 DEF D!Ramp, D!Latch
  <2>4. /\ s_db_found'[w][d] = D!Found(w)
        /\ \A e \in {0, 1} \ {d} : s_db_found'[w][e] = s_db_found[w][e]
        BY <1>1, <2>2, <2>3
  <2>5. D!Found(w) <=> s_db_found[w][d] \/ cnt[w] # s_db_start_cnt[w]
        BY <2>1 DEF D!Found
  <2>6. /\ s_db_thresh'[w][d] = IF s_db_found[w][d] THEN s_db_thresh[w][d]
                      ELSE IF cnt[w] # s_db_start_cnt[w] THEN t
                      ELSE IF D!Done(t) THEN DB_MAX ELSE s_db_thresh[w][d]
        /\ \A e \in {0, 1} \ {d} : s_db_thresh'[w][e] = s_db_thresh[w][e]
        BY <1>1, <2>1, <2>2, <2>3
  <2>7. /\ peak'[w][d] = IF D!Abs(d_out'[w]) > peak[w][d]
                         THEN D!Abs(d_out'[w]) ELSE peak[w][d]
        /\ \A e \in {0, 1} \ {d} : peak'[w][e] = peak[w][e]
        BY <1>1, <2>2, <2>3
  <2>8. d_out'[w] = IF D!Done(t) \/ D!Found(w) THEN 0 ELSE D!Sgn * t
        BY <2>3
  <2> QED BY <2>1, <2>4, <2>5, <2>6, <2>7, <2>8
<1>3. ASSUME NEW w \in D!Wheels
      PROVE  /\ OnRamp(w, d) /\ thr[w] \in Nat /\ peak[w][d] \in Nat /\ s_db_thresh[w][d] \in Nat
             /\ s_db_phase = "rev" => Truthful(w, 0)
             /\ s_db_phase = "fwd" => ~s_db_found[w][1]
  <2>1. OnRamp(w, d)
        BY <1>0 DEF SweepInv, SweepRamping
  <2>2. thr[w] \in Nat /\ peak[w][d] \in Nat /\ s_db_thresh[w][d] \in Nat
        BY <1>1, SweepSizes DEF SweepInv, D!TypeOK, D!Dirs
  <2> QED BY <2>1, <2>2 DEF SweepInv, SweepPhases
<1>4. CASE ~D!Done(t)
  <2>1. d_elapsed' = t /\ s_db_phase' = s_db_phase /\ UNCHANGED <<s_db_active, s_db_report>>
        BY <1>0, <1>4 DEF D!Ramp, D!flags
  <2>2. t < DB_MAX
        BY <1>0, <1>4 DEF D!Done
  <2>3. ASSUME NEW w \in D!Wheels
        PROVE  /\ s_db_found'[w][d] => s_db_thresh'[w][d] >= thr[w] /\ d_out'[w] = 0
               /\ ~s_db_found'[w][d] => /\ d_out'[w] = D!Sgn * t /\ peak'[w][d] >= t
                                        /\ cnt[w] = s_db_start_cnt[w]
    <3>1. CASE s_db_found[w][d]
      <4>1. s_db_found'[w][d] /\ D!Found(w)
            BY <1>2, <3>1 DEF D!Found
      <4>2. s_db_thresh'[w][d] = s_db_thresh[w][d] /\ d_out'[w] = 0
            BY <1>2, <3>1, <4>1
      <4> QED BY <1>3, <3>1, <4>1, <4>2 DEF OnRamp
    <3>2. CASE ~s_db_found[w][d] /\ cnt[w] # s_db_start_cnt[w]
      <4>1. s_db_found'[w][d] /\ D!Found(w)
            BY <1>2, <3>2 DEF D!Found
      <4>2. s_db_thresh'[w][d] = t /\ d_out'[w] = 0
            BY <1>2, <3>2, <4>1
      <4>3. d_elapsed >= thr[w]
            BY <1>3, <3>2 DEF OnRamp
      <4> QED BY <1>0, <1>3, <4>1, <4>2, <4>3
    <3>3. CASE ~s_db_found[w][d] /\ cnt[w] = s_db_start_cnt[w]
      <4>1. ~s_db_found'[w][d] /\ ~D!Found(w)
            BY <1>2, <3>3 DEF D!Found
      <4>2. d_out'[w] = D!Sgn * t
            BY <1>2, <1>4, <4>1
      <4>3. D!Abs(D!Sgn * t) = t
            BY <1>0, <1>1 DEF D!Abs
      <4>4. peak'[w][d] >= t
            BY <1>0, <1>2, <1>3, <4>2, <4>3
      <4> QED BY <3>3, <4>1, <4>2, <4>4
    <3> QED BY <3>1, <3>2, <3>3
  <2>4. D!Dir' = d /\ D!Sgn' = D!Sgn
        BY <2>1 DEF D!Dir, D!Sgn
  <2>5. SweepRamping'
    <3>1. ASSUME NEW w \in D!Wheels PROVE OnRamp(w, D!Dir)'
      <4>1. cnt[w] = s_db_start_cnt[w] => ~(cnt'[w] # s_db_start_cnt'[w])
            BY <1>0
      <4> QED BY <1>0, <2>1, <2>3, <2>4, <4>1 DEF OnRamp
    <3> QED BY <2>1, <2>2, <2>4, <3>1 DEF SweepRamping
  <2>6. SweepPhases'
    <3> SUFFICES ASSUME NEW w \in D!Wheels
                 PROVE  /\ s_db_phase = "fwd" => ~s_db_found'[w][1]
                        /\ s_db_phase = "rev" => Truthful(w, 0)'
        BY <1>0, <2>1 DEF SweepPhases, SweepInv, SweepArming, D!TypeOK
    <3>1. CASE s_db_phase = "fwd"
          BY <1>1, <1>2, <1>3, <3>1
    <3>2. CASE s_db_phase = "rev"
      <4>1. d = 1 /\ Truthful(w, 0)
            BY <1>1, <1>3, <3>2
      <4> QED BY <1>2, <3>2, <4>1 DEF Truthful
    <3> QED BY <3>1, <3>2
  <2>7. SweepArming'
        BY <1>0, <2>1 DEF SweepInv, SweepArming
  <2> QED BY <2>5, <2>6, <2>7 DEF SweepInv
<1>5. CASE D!Done(t)
  <2>1. ASSUME NEW w \in D!Wheels
        PROVE  /\ d_out'[w] = 0
               /\ IF s_db_found'[w][d]
                  THEN s_db_thresh'[w][d] >= thr[w] ELSE peak'[w][d] >= DB_MAX - 1
    <3>1. d_out'[w] = 0
          BY <1>2, <1>5
    <3>2. CASE s_db_found[w][d]
      <4>1. s_db_found'[w][d] /\ s_db_thresh'[w][d] = s_db_thresh[w][d]
            BY <1>2, <3>2
      <4> QED BY <1>3, <3>1, <3>2, <4>1 DEF OnRamp
    <3>3. CASE ~s_db_found[w][d] /\ cnt[w] # s_db_start_cnt[w]
      <4>1. s_db_found'[w][d] /\ s_db_thresh'[w][d] = t
            BY <1>2, <3>3
      <4>2. d_elapsed >= thr[w]
            BY <1>3, <3>3 DEF OnRamp
      <4> QED BY <1>0, <1>3, <3>1, <4>1, <4>2
    <3>4. CASE ~s_db_found[w][d] /\ cnt[w] = s_db_start_cnt[w]
      <4>1. ~s_db_found'[w][d] /\ ~D!Found(w)
            BY <1>2, <3>4 DEF D!Found
      <4>2. t >= DB_MAX
            BY <1>0, <1>5, <4>1 DEF D!Done
      <4>3. peak[w][d] >= d_elapsed
            BY <1>3, <3>4 DEF OnRamp
      <4>4. peak'[w][d] >= peak[w][d]
            BY <1>2, <1>3, <3>1 DEF D!Abs
      <4>5. peak'[w][d] \in Int
            BY <1>2, <1>3, <3>1 DEF D!Abs
      <4> QED BY <1>0, <1>3, <3>1, <4>1, <4>2, <4>3, <4>4, <4>5
    <3> QED BY <3>2, <3>3, <3>4
  <2>2. CASE s_db_phase = "fwd"
    <3>1. s_db_phase' = "settle" /\ UNCHANGED <<s_db_active, s_db_report>>
          BY <1>0, <1>5, <2>2 DEF D!Ramp, D!flags
    <3>2. d = 0
          BY <1>1, <2>2
    <3>3. ASSUME NEW w \in D!Wheels PROVE ~s_db_found'[w][1] /\ Truthful(w, 0)'
          BY <1>0, <1>2, <1>3, <2>1, <2>2, <3>2 DEF Truthful
    <3>4. SweepPhases' /\ SweepRamping'
          BY <2>1, <3>1, <3>3 DEF SweepPhases, SweepRamping, SweepInv, SweepArming
    <3>5. SweepArming'
          BY <1>0, <3>1 DEF SweepInv, SweepArming
    <3> QED BY <3>4, <3>5 DEF SweepInv
  <2>3. CASE s_db_phase = "rev"
    <3>1. ~s_db_active' /\ s_db_report' /\ s_db_phase' = "rev"
          BY <1>0, <1>5, <2>3 DEF D!Ramp, D!flags
    <3>2. d = 1
          BY <1>1, <2>3
    <3>3. ASSUME NEW w \in D!Wheels PROVE Truthful(w, 1)' /\ Truthful(w, 0)'
      <4>1. Truthful(w, 1)'
            BY <1>0, <2>1, <3>2 DEF Truthful
      <4>2. Truthful(w, 0)
            BY <1>3, <2>3
      <4> QED BY <1>0, <1>2, <3>2, <4>1, <4>2 DEF Truthful
    <3>4. SweepPhases' /\ SweepRamping'
          BY <3>1, <3>3 DEF SweepPhases, SweepRamping
    <3>5. SweepArming'
          BY <1>0, <3>1 DEF SweepInv, SweepArming
    <3> QED BY <3>4, <3>5 DEF SweepInv
  <2>4. s_db_phase \in {"fwd", "rev"}
        BY <1>0 DEF SweepInv, D!TypeOK
  <2> QED BY <2>2, <2>3, <2>4
<1> QED BY <1>4, <1>5

LEMMA SweepStart == D!Init => SweepArming /\ SweepRamping /\ SweepPhases
BY SweepSizes DEF D!Init, SweepArming, SweepRamping, SweepPhases, D!PerDir

LEMMA SweepNext ==
    ASSUME SweepInv, D!Next, D!TypeOK'
    PROVE  SweepInv'
<1> USE DEF D!sweep, D!flags, D!plant, D!httpd
<1>0. D!TypeOK /\ SweepArming /\ SweepRamping /\ SweepPhases BY DEF SweepInv
<1>1. CASE D!StartClear
  <2>1. /\ d_hpc' = "phase" /\ ~s_db_active /\ ~s_db_report /\ d_out = D!Each(0)
        /\ UNCHANGED <<s_db_active, s_db_report, d_out, suspended>>
        /\ s_db_found' = D!PerDir(FALSE) /\ peak' = D!PerDir(0)
        BY <1>1 DEF D!StartClear
  <2>2. \A w \in D!Wheels :
            d_out'[w] = 0 /\ \A d \in D!Dirs : ~s_db_found'[w][d] /\ peak'[w][d] = 0
        BY <2>1 DEF D!Each, D!PerDir
  <2> QED BY <1>0, <2>1, <2>2 DEF SweepInv, SweepArming, SweepRamping, SweepPhases
<1>2. CASE D!StartPhase \/ D!StartT0 \/ D!StartCounts \/ D!StartReport
  <2>1. /\ ~s_db_active /\ ~s_db_report /\ ~s_db_active' /\ ~s_db_report'
        BY <1>0, <1>2 DEF SweepArming, D!StartPhase, D!StartT0, D!StartCounts, D!StartReport
  <2>2. SweepArming'
        BY <1>0, <1>2, <2>1 DEF SweepArming, D!StartPhase, D!StartT0, D!StartCounts,
            D!StartReport
  <2> QED BY <2>1, <2>2 DEF SweepInv, SweepRamping, SweepPhases
<1>3. CASE D!StartActive
  <2>1. /\ d_hpc = "active" /\ d_hpc' = "idle" /\ s_db_active' /\ ~s_db_report'
        /\ UNCHANGED <<s_db_phase, s_db_start_cnt, s_db_thresh, s_db_found, d_elapsed, cnt,
                       thr, d_out, suspended, peak>>
        /\ s_db_phase = "fwd" /\ d_elapsed = 0 /\ s_db_start_cnt = cnt
        /\ \A w \in D!Wheels :
              d_out[w] = 0 /\ \A d \in D!Dirs : ~s_db_found[w][d] /\ peak[w][d] = 0
        BY <1>0, <1>3 DEF SweepArming, D!StartActive
  <2>2. SweepArming' /\ SweepPhases'
        BY <1>0, <2>1 DEF SweepArming, SweepPhases, D!Dirs
  <2>3. D!Dir' = 0 /\ D!Sgn' = 1
        BY <2>1 DEF D!Dir, D!Sgn
  <2>4. \A w \in D!Wheels : OnRamp(w, D!Dir)'
        BY <2>1, <2>3 DEF OnRamp, D!Dirs
  <2> QED BY <2>1, <2>2, <2>4, SweepSizes DEF SweepInv, SweepRamping
<1>4. CASE D!Stop \/ D!Emit
  <2>1. /\ s_db_active' => s_db_active
        /\ s_db_report' => s_db_report
        /\ UNCHANGED <<s_db_phase, s_db_start_cnt, s_db_thresh, s_db_found, d_elapsed, cnt,
                       thr, d_out, suspended, peak, d_hpc>>
        BY <1>4 DEF D!Stop, D!Emit, D!Command
  <2>2. SweepArming'
        BY <1>0, <2>1 DEF SweepArming
  <2>3. SweepRamping' /\ SweepPhases'
        BY <1>0, <2>1 DEF SweepRamping, SweepPhases, OnRamp, Truthful, D!Dir, D!Sgn
  <2> QED BY <2>2, <2>3 DEF SweepInv
<1>5. CASE D!Suspend \/ D!EncReset
      BY <1>5 DEF D!Suspend, D!EncReset
<1>6. CASE D!Tick
  <2>1. UNCHANGED <<cnt, thr, suspended, d_hpc, d_given>>
        BY <1>6 DEF D!Tick
  <2>2. CASE s_db_active /\ D!Settle(D!Now)
    <3>1. /\ UNCHANGED <<s_db_active, s_db_report, s_db_thresh, s_db_found, peak>>
          /\ s_db_phase = "settle" /\ d_out' = D!Each(0)
          BY <2>2 DEF D!Settle
    <3>2. ASSUME NEW w \in D!Wheels
          PROVE  ~s_db_found'[w][1] /\ d_out'[w] = 0 /\ Truthful(w, 0)'
          BY <1>0, <2>1, <2>2, <3>1 DEF SweepPhases, Truthful, D!Each
    <3>3. SweepArming' /\ d_hpc' = "idle" /\ ~s_db_report'
          BY <1>0, <2>1, <2>2, <3>1 DEF SweepArming
    <3>4. CASE s_db_phase' = "settle"
          BY <3>1, <3>2, <3>3, <3>4 DEF SweepInv, SweepRamping, SweepPhases
    <3>5. CASE s_db_phase' = "rev" /\ d_elapsed' = 0 /\ s_db_start_cnt' = cnt
      <4>1. D!Dir' = 1 /\ D!Sgn' = -1
            BY <3>5 DEF D!Dir, D!Sgn
      <4>2. \A w \in D!Wheels : peak'[w][1] >= 0
            BY <1>0, <3>1 DEF D!TypeOK, D!Dirs
      <4>3. \A w \in D!Wheels : OnRamp(w, D!Dir)'
            BY <2>1, <3>2, <3>5, <4>1, <4>2 DEF OnRamp
      <4> QED BY <2>2, <3>1, <3>2, <3>3, <3>5, <4>3, SweepSizes DEF SweepInv,
          SweepRamping, SweepPhases
    <3> QED BY <2>2, <3>1, <3>4, <3>5 DEF D!Settle
  <2>3. CASE s_db_active /\ D!Ramp(D!Now)
        BY <2>1, <2>3, RampStep
  <2>4. CASE ~s_db_active /\ d_out' = D!Each(0) /\ d_elapsed' = D!Now
             /\ UNCHANGED <<D!sweep, D!flags, peak>>
    <3>1. \A w \in D!Wheels : d_out'[w] = 0
          BY <2>4 DEF D!Each
    <3>2. d_hpc # "idle" => d_elapsed' = d_elapsed
          BY <2>4 DEF D!Now
    <3>3. SweepArming'
          BY <1>0, <2>1, <2>4, <3>1, <3>2 DEF SweepArming
    <3>4. SweepPhases' /\ SweepRamping'
          BY <1>0, <2>1, <2>4 DEF SweepPhases, SweepRamping, Truthful
    <3> QED BY <3>3, <3>4 DEF SweepInv
  <2> QED BY <1>0, <1>6, <2>2, <2>3, <2>4 DEF D!Tick, SweepArming
<1>7. ASSUME NEW v \in D!Wheels, D!Turn(v) PROVE SweepInv'
  <2>1. /\ D!Abs(d_out[v]) >= thr[v] /\ cnt' \in [D!Wheels -> Int]
        /\ \A w \in D!Wheels : w # v => cnt'[w] = cnt[w]
        /\ UNCHANGED <<D!sweep, D!flags, d_elapsed, thr, d_out, suspended, D!httpd, peak>>
        BY <1>7 DEF D!Turn, D!TypeOK
  <2>2. thr[v] \in Nat \ {0} /\ d_elapsed \in Nat
        BY <1>0, SweepSizes DEF D!TypeOK
  <2>3. d_out[v] # 0
        BY <2>1, <2>2 DEF D!Abs
  <2>4. d_hpc = "idle"
        BY <1>0, <2>3 DEF SweepArming
  <2>5. SweepArming'
        BY <1>0, <2>1, <2>4 DEF SweepArming
  <2>6. SweepPhases'
        BY <1>0, <2>1 DEF SweepPhases, Truthful
  <2>7. SweepRamping'
    <3> SUFFICES ASSUME s_db_active, s_db_phase # "settle", NEW w \in D!Wheels
                 PROVE  d_elapsed < DB_MAX /\ OnRamp(w, D!Dir)'
        BY <2>1 DEF SweepRamping
    <3>1. d_elapsed < DB_MAX /\ OnRamp(w, D!Dir) /\ OnRamp(v, D!Dir)
          BY <1>0 DEF SweepRamping
    <3>2. D!Dir' = D!Dir /\ D!Sgn' = D!Sgn /\ (D!Sgn = 1 \/ D!Sgn = -1)
          BY <2>1 DEF D!Dir, D!Sgn
    <3>3. CASE w # v
          BY <2>1, <3>1, <3>2, <3>3 DEF OnRamp
    <3>4. CASE w = v
      <4>1. /\ ~s_db_found[v][D!Dir] /\ d_out[v] = D!Sgn * d_elapsed
            /\ peak[v][D!Dir] >= d_elapsed
            BY <2>3, <3>1 DEF OnRamp
      <4>2. d_elapsed >= thr[v]
            BY <2>1, <2>2, <3>2, <4>1 DEF D!Abs
      <4> QED BY <2>1, <3>1, <3>2, <3>4, <4>1, <4>2 DEF OnRamp
    <3> QED BY <3>3, <3>4
  <2> QED BY <2>5, <2>6, <2>7 DEF SweepInv
<1> QED BY <1>1, <1>2, <1>3, <1>4, <1>5, <1>6, <1>7 DEF D!Next, D!Start

-----------------------------------------------------------------------------
(* A late reporter                                                           *)

\* Batch e was complete before time t, and its half in buf holds nothing older.
Fresh(e, buf, t) ==
    /\ e.first <= t + 1 - N
    /\ \A k \in T!Slots : buf[e.half][k] >= e.first + k

\* The order of the batches, first samples against first samples: the one finished
\* last, the one at work, those that wait, the one being filled.  A drop on a full
\* queue or a restart of motor_task only leaves out some of them.
LateOrder ==
    /\ delivered <= now - idx /\ hand.first <= now - idx
    /\ t_rpc # "wait" => delivered < hand.first
    /\ \A j \in 1 .. Len(s_ready_q) :
          /\ s_ready_q[j].first <= now - idx
          /\ delivered < s_ready_q[j].first
          /\ t_rpc # "wait" => hand.first < s_ready_q[j].first
          /\ \A k \in 1 .. j - 1 : s_ready_q[k].first < s_ready_q[j].first

\* The inductive invariant of a reporter as late as it likes (control.c:552-580).
LateInv ==
    /\ T!TypeOK /\ LateOrder
    /\ \A k \in T!Slots : k < idx => s_buf[active][k] = now - idx + 1 + k
    /\ \A j \in 1 .. Len(s_ready_q) : Fresh(s_ready_q[j], s_buf, now)
    /\ Fresh(hand, s_buf, now)
    /\ FrameNotStale

LEMMA LateInit == T!Init => LateInv
BY LateSizes DEF T!Init, LateInv, LateOrder, T!TypeOK, Fresh, FrameNotStale, T!FrameNotStale,
    T!Halves, T!Slots, T!Entries

\* A batch handed over is later than all before it, whether it is queued or dropped.
LEMMA LateRecordOrder ==
    ASSUME T!TypeOK, LateOrder, T!Record
    PROVE  LateOrder'
<1>1. /\ idx \in 0 .. N - 1 /\ now \in Nat /\ now' = now + 1 /\ delivered \in Int
      /\ hand \in T!Entries /\ s_ready_q \in Seq(T!Entries)
      /\ UNCHANGED <<t_rpc, hand, delivered>>
      BY DEF T!TypeOK, T!Record, T!reporter, T!Slots
<1>2. hand.first \in Int /\ \A j \in 1 .. Len(s_ready_q) : s_ready_q[j].first \in Int
  <2>1. \A j \in 1 .. Len(s_ready_q) : s_ready_q[j] \in T!Entries
        BY <1>1
  <2> QED BY <1>1, <2>1 DEF T!Entries
<1>3. CASE s_ready_q' = s_ready_q
  <2>1. idx' \in Int /\ now' - idx' >= now - idx
        BY <1>1, LateSizes DEF T!Record, T!HandOver
  <2> QED BY <1>1, <1>2, <1>3, <2>1 DEF LateOrder
<1>4. CASE s_ready_q' # s_ready_q
  <2> PICK e : e = [half |-> active, first |-> now + 2 - N] OBVIOUS
  <2>1. idx + 1 >= N /\ idx' = 0 /\ s_ready_q' = Append(s_ready_q, e)
        BY <1>4 DEF T!Record, T!HandOver
  <2>2. e \in T!Entries /\ e.first = now + 1 - idx /\ e.first <= now' - idx'
        BY <1>1, <2>1, LateSizes DEF T!Entries, T!TypeOK
  <2>3. /\ Len(s_ready_q') = Len(s_ready_q) + 1 /\ s_ready_q'[Len(s_ready_q) + 1] = e
        /\ \A j \in 1 .. Len(s_ready_q) : s_ready_q'[j] = s_ready_q[j]
        BY <1>1, <2>1, <2>2
  <2>4. ASSUME NEW j \in 1 .. Len(s_ready_q')
        PROVE  /\ s_ready_q'[j].first <= now' - idx'
               /\ delivered' < s_ready_q'[j].first
               /\ t_rpc' # "wait" => hand'.first < s_ready_q'[j].first
               /\ \A k \in 1 .. j - 1 : s_ready_q'[k].first < s_ready_q'[j].first
    <3>1. CASE j = Len(s_ready_q) + 1
          BY <1>1, <1>2, <2>1, <2>2, <2>3, <3>1 DEF LateOrder
    <3>2. CASE j \in 1 .. Len(s_ready_q)
      <4>1. \A k \in 1 .. j - 1 : s_ready_q'[k] = s_ready_q[k]
            BY <1>1, <2>3, <3>2
      <4> QED BY <1>1, <1>2, <2>1, <2>3, <3>2, <4>1 DEF LateOrder
    <3> QED BY <1>1, <2>3, <3>1, <3>2
  <2> QED BY <1>1, <1>2, <2>1, <2>4 DEF LateOrder
<1> QED BY <1>3, <1>4

\* The reporter takes the first batch that waits, and finishes the one it took.
LEMMA LateOthersOrder ==
    ASSUME T!TypeOK, LateOrder, T!Restart \/ T!ReporterStep
    PROVE  LateOrder'
<1>1. /\ idx \in 0 .. N - 1 /\ now \in Nat /\ delivered \in Int
      /\ hand \in T!Entries /\ s_ready_q \in Seq(T!Entries)
      BY DEF T!TypeOK, T!Slots
<1>2. hand.first \in Int /\ \A j \in 1 .. Len(s_ready_q) : s_ready_q[j].first \in Int
  <2>1. \A j \in 1 .. Len(s_ready_q) : s_ready_q[j] \in T!Entries
        BY <1>1
  <2> QED BY <1>1, <2>1 DEF T!Entries
<1>3. CASE T!Restart
  <2>1. idx' = 0 /\ UNCHANGED <<now, s_ready_q, t_rpc, hand, delivered>>
        BY <1>3 DEF T!Restart, T!reporter
  <2> QED BY <1>1, <1>2, <2>1 DEF LateOrder
<1>4. CASE T!Receive
  <2>1. /\ t_rpc = "wait" /\ t_rpc' = "cache" /\ s_ready_q # <<>>
        /\ hand' = Head(s_ready_q) /\ s_ready_q' = Tail(s_ready_q)
        /\ UNCHANGED <<now, idx, delivered>>
        BY <1>4 DEF T!Receive, T!motor
  <2>2. /\ Len(s_ready_q) \in Nat /\ Len(s_ready_q) >= 1 /\ hand' = s_ready_q[1]
        /\ Len(s_ready_q') = Len(s_ready_q) - 1
        /\ \A j \in 1 .. Len(s_ready_q') : s_ready_q'[j] = s_ready_q[j + 1]
        BY <1>1, <2>1
  <2>3. ASSUME NEW j \in 1 .. Len(s_ready_q')
        PROVE  /\ s_ready_q'[j].first <= now' - idx'
               /\ delivered' < s_ready_q'[j].first
               /\ hand'.first < s_ready_q'[j].first
               /\ \A k \in 1 .. j - 1 : s_ready_q'[k].first < s_ready_q'[j].first
    <3>1. j + 1 \in 1 .. Len(s_ready_q) /\ 1 \in 1 .. (j + 1) - 1
          BY <2>2
    <3>2. ASSUME NEW k \in 1 .. j - 1
          PROVE  s_ready_q'[k].first < s_ready_q'[j].first
      <4>1. k + 1 \in 1 .. (j + 1) - 1 /\ s_ready_q'[k] = s_ready_q[k + 1]
            BY <2>2
      <4> QED BY <2>2, <3>1, <4>1 DEF LateOrder
    <3> QED BY <2>1, <2>2, <3>1, <3>2 DEF LateOrder
  <2>4. 1 \in 1 .. Len(s_ready_q)
        BY <2>2
  <2> QED BY <1>1, <2>1, <2>2, <2>3, <2>4 DEF LateOrder
<1>5. CASE T!Cache \/ T!PackSample \/ T!SendFrame
  <2>1. /\ t_rpc # "wait" /\ t_rpc' # "wait"
        /\ UNCHANGED <<now, idx, s_ready_q, hand, delivered>>
        BY <1>5 DEF T!Cache, T!PackSample, T!SendFrame, T!motor
  <2> QED BY <2>1 DEF LateOrder
<1>6. CASE T!Skip \/ T!SendLast
  <2>1. /\ t_rpc = "pack" /\ t_rpc' = "wait" /\ delivered' = hand.first
        /\ UNCHANGED <<now, idx, s_ready_q, hand>>
        BY <1>6 DEF T!Skip, T!SendLast, T!Finish, T!motor
  <2> QED BY <2>1 DEF LateOrder
<1> QED BY <1>3, <1>4, <1>5, <1>6 DEF T!ReporterStep

\* Whatever half a sample goes to, it is newer than any batch handed over.
LEMMA LateRecord ==
    ASSUME LateInv, T!Record
    PROVE  LateInv'
<1>1. /\ s_buf \in [T!Halves -> [T!Slots -> Nat]] /\ active \in T!Halves /\ idx \in T!Slots
      /\ now \in Nat /\ age \in Nat /\ now < MaxSamples /\ now' = now + 1
      /\ s_buf' = [s_buf EXCEPT ![active][idx] = now + 1]
      /\ began' = began /\ UNCHANGED <<t_rpc, hand, latest, topic, frame, delivered>>
      /\ age' = IF T!Work THEN age + 1 ELSE 0
      /\ s_drop_count \in Nat
      /\ s_ready_q \in Seq(T!Entries) /\ Len(s_ready_q) <= QLen
      BY LateSizes DEF LateInv, T!TypeOK, T!Record, T!reporter
<1>2. /\ s_buf' \in [T!Halves -> [T!Slots -> Nat]]
      /\ \A h \in T!Halves, k \in T!Slots :
            s_buf'[h][k] = IF h = active /\ k = idx THEN now + 1 ELSE s_buf[h][k]
      BY <1>1
<1>3. ASSUME NEW e \in T!Entries, Fresh(e, s_buf, now) PROVE Fresh(e, s_buf', now')
  <2>1. e.first \in Int /\ e.half \in T!Halves BY DEF T!Entries
  <2>2. \A k \in T!Slots : s_buf[e.half][k] >= e.first + k /\ e.first <= now + 1 - N
        BY <1>3 DEF Fresh
  <2>3. ASSUME NEW k \in T!Slots PROVE s_buf'[e.half][k] >= e.first + k
    <3>1. s_buf'[e.half][k] =
             IF e.half = active /\ k = idx THEN now + 1 ELSE s_buf[e.half][k]
          BY <1>2, <2>1
    <3>2. k \in 0 .. N - 1 BY DEF T!Slots
    <3>3. s_buf[e.half][k] >= e.first + k BY <2>2
    <3> QED BY <1>1, <2>1, <2>2, <3>1, <3>2, <3>3, LateSizes
  <2>4. e.first <= now' + 1 - N BY <1>1, <2>1, <1>3, LateSizes DEF Fresh
  <2> QED BY <2>3, <2>4 DEF Fresh
<1>4. \A j \in 1 .. Len(s_ready_q) : s_ready_q[j] \in T!Entries /\ Fresh(s_ready_q[j], s_buf', now')
  <2> SUFFICES ASSUME NEW j \in 1 .. Len(s_ready_q)
               PROVE  s_ready_q[j] \in T!Entries /\ Fresh(s_ready_q[j], s_buf', now')
        OBVIOUS
  <2>1. s_ready_q[j] \in T!Entries BY <1>1
  <2>2. Fresh(s_ready_q[j], s_buf, now) BY DEF LateInv
  <2> QED BY <1>3, <2>1, <2>2
<1>5. Fresh(hand', s_buf', now')
  <2>1. hand \in T!Entries /\ Fresh(hand, s_buf, now) BY DEF LateInv, T!TypeOK
  <2>2. hand' = hand BY <1>1
  <2> QED BY <1>3, <2>1, <2>2
<1>6. FrameNotStale' BY <1>1 DEF LateInv, FrameNotStale, T!FrameNotStale
<1>10. LateOrder' BY LateRecordOrder DEF LateInv
<1>7. \A k \in T!Slots : k < idx => s_buf[active][k] = now - idx + 1 + k
      BY DEF LateInv
<1>8. CASE idx + 1 < N
  <2>1. /\ idx' = idx + 1 /\ active' = active
        /\ s_ready_q' = s_ready_q /\ s_drop_count' = s_drop_count
        BY <1>1, <1>8, LateSizes DEF T!Record, T!Slots
  <2>2. T!TypeOK'
    <3>1. idx' \in T!Slots /\ now' \in 0 .. MaxSamples /\ age' \in Nat
          BY <1>1, <1>8, <2>1, LateSizes DEF T!Slots
    <3> QED BY <1>1, <1>2, <2>1, <3>1 DEF LateInv, T!TypeOK
  <2>3. \A k \in T!Slots : k < idx' => s_buf'[active'][k] = now' - idx' + 1 + k
        BY <1>1, <1>2, <1>7, <2>1, LateSizes DEF T!Slots
  <2> QED BY <1>4, <1>5, <1>6, <1>10, <2>1, <2>2, <2>3 DEF LateInv, Fresh
<1>9. CASE idx + 1 >= N
  <2>0. idx = N - 1 BY <1>1, <1>9, LateSizes DEF T!Slots
  <2>1. T!HandOver /\ idx' = 0 /\ active' = 1 - active
        BY <1>1, <1>9, LateSizes DEF T!Record, T!HandOver
  <2> PICK e : e = [half |-> active, first |-> now + 2 - N] OBVIOUS
  <2>2. e \in T!Entries /\ e.half = active /\ e.first = now + 2 - N
        BY <1>1, LateSizes DEF T!Entries
  <2>3. Fresh(e, s_buf', now')
    <3> SUFFICES ASSUME NEW k \in T!Slots PROVE s_buf'[active][k] >= now + 2 - N + k
        BY <1>1, <2>2, LateSizes DEF Fresh
    <3>1. s_buf'[active][k] = IF k = idx THEN now + 1 ELSE s_buf[active][k] BY <1>1, <1>2
    <3>2. k < idx => s_buf[active][k] = now - idx + 1 + k BY <1>7
    <3> QED BY <1>1, <2>0, <3>1, <3>2, LateSizes DEF T!Slots
  <2>4. \/ /\ s_ready_q' = Append(s_ready_q, e) /\ s_drop_count' = s_drop_count
           /\ Len(s_ready_q) < QLen
        \/ s_ready_q' = s_ready_q /\ s_drop_count' = s_drop_count + 1
        BY <2>1 DEF T!HandOver
  <2>5. s_ready_q' \in Seq(T!Entries) /\ Len(s_ready_q') <= QLen /\ s_drop_count' \in Nat
    <3>1. CASE /\ s_ready_q' = Append(s_ready_q, e) /\ s_drop_count' = s_drop_count
               /\ Len(s_ready_q) < QLen
      <4>1. Append(s_ready_q, e) \in Seq(T!Entries) /\ Len(Append(s_ready_q, e)) = Len(s_ready_q) + 1
            BY <1>1, <2>2
      <4> QED BY <1>1, <3>1, <4>1, LateSizes
    <3>2. CASE s_ready_q' = s_ready_q /\ s_drop_count' = s_drop_count + 1 BY <1>1, <3>2
    <3> QED BY <2>4, <3>1, <3>2
  <2>6. T!TypeOK'
    <3>1. /\ idx' \in T!Slots /\ active' \in T!Halves
          /\ now' \in 0 .. MaxSamples /\ age' \in Nat
          BY <1>1, <2>1, LateSizes DEF T!Slots, T!Halves
    <3> QED BY <1>1, <1>2, <2>5, <3>1 DEF LateInv, T!TypeOK
  <2>7. \A j \in 1 .. Len(s_ready_q') : Fresh(s_ready_q'[j], s_buf', now')
    <3>1. CASE s_ready_q' = Append(s_ready_q, e)
      <4> SUFFICES ASSUME NEW j \in 1 .. Len(s_ready_q')
                   PROVE  Fresh(s_ready_q'[j], s_buf', now')
            OBVIOUS
      <4>1. \/ j \in 1 .. Len(s_ready_q) /\ s_ready_q'[j] = s_ready_q[j]
            \/ s_ready_q'[j] = e
         BY <1>1, <2>2, <3>1
      <4> QED BY <1>4, <2>3, <4>1
    <3>2. CASE s_ready_q' = s_ready_q BY <1>4, <3>2
    <3> QED BY <2>4, <3>1, <3>2
  <2>8. \A k \in T!Slots : ~(k < idx') BY <2>1, LateSizes DEF T!Slots
  <2> QED BY <1>5, <1>6, <1>10, <2>6, <2>7, <2>8 DEF LateInv
<1> QED BY <1>1, <1>8, <1>9, LateSizes DEF T!Slots

\* The reporter copies from the halves; a restart moves only the place of the next
\* sample.
LEMMA LateOthers ==
    ASSUME LateInv, T!Restart \/ T!ReporterStep
    PROVE  LateInv'
<1>0. /\ T!TypeOK /\ FrameNotStale /\ Fresh(hand, s_buf, now)
      /\ \A k \in T!Slots : k < idx => s_buf[active][k] = now - idx + 1 + k
      /\ \A j \in 1 .. Len(s_ready_q) : Fresh(s_ready_q[j], s_buf, now)
      BY DEF LateInv
<1>5. LateOrder'
      BY LateOthersOrder DEF LateInv
<1>1. CASE T!Restart
  <2>1. T!TypeOK'
        BY <1>0, <1>1, LateSizes DEF T!TypeOK, T!Restart, T!reporter, T!Slots, T!Halves
  <2>2. idx' = 0 /\ UNCHANGED <<s_buf, now, s_ready_q, hand, t_rpc, latest, frame, delivered>>
        BY <1>1 DEF T!Restart, T!reporter
  <2>3. \A k \in T!Slots : ~(k < idx') BY <2>2, LateSizes DEF T!Slots
  <2> QED BY <1>0, <1>1, <1>5, <2>1, <2>2, <2>3
      DEF LateInv, Fresh, FrameNotStale, T!FrameNotStale
<1>2. CASE T!Receive
  <2>1. /\ s_ready_q \in Seq(T!Entries) /\ s_ready_q # <<>> /\ Len(s_ready_q) <= QLen
        /\ hand' = Head(s_ready_q) /\ s_ready_q' = Tail(s_ready_q)
        /\ t_rpc' = "cache" /\ UNCHANGED <<T!motor, age, latest, topic, frame, delivered>>
        BY <1>0, <1>2 DEF T!Receive, T!TypeOK
  <2>2. /\ hand' = s_ready_q[1] /\ hand' \in T!Entries /\ Len(s_ready_q) >= 1
        /\ s_ready_q' \in Seq(T!Entries) /\ Len(s_ready_q') = Len(s_ready_q) - 1
        /\ \A j \in 1 .. Len(s_ready_q') : s_ready_q'[j] = s_ready_q[j + 1]
        BY <2>1
  <2>3. T!TypeOK' BY <1>0, <2>1, <2>2, LateSizes DEF T!TypeOK, T!motor
  <2>4. Fresh(hand', s_buf', now') BY <1>0, <2>1, <2>2 DEF Fresh, T!motor
  <2>5. \A j \in 1 .. Len(s_ready_q') : Fresh(s_ready_q'[j], s_buf', now')
    <3> SUFFICES ASSUME NEW j \in 1 .. Len(s_ready_q')
                 PROVE  Fresh(s_ready_q'[j], s_buf', now')
          OBVIOUS
    <3>1. j + 1 \in 1 .. Len(s_ready_q) BY <2>1, <2>2
    <3> QED BY <1>0, <2>1, <2>2, <3>1 DEF Fresh, T!motor
  <2>6. FrameNotStale' BY <2>1 DEF FrameNotStale, T!FrameNotStale
  <2> QED BY <1>0, <1>5, <2>1, <2>3, <2>4, <2>5, <2>6 DEF LateInv, T!motor
<1>3. CASE T!Cache \/ T!Skip \/ T!SendFrame \/ T!SendLast
  <2>1. UNCHANGED <<s_buf, now, idx, active, s_ready_q, hand>>
        BY <1>3 DEF T!Cache, T!Skip, T!SendFrame, T!SendLast, T!Finish, T!motor
  <2>2. hand \in T!Entries /\ hand.half \in T!Halves /\ hand.first \in Int
        BY <1>0 DEF T!TypeOK, T!Entries
  <2>3. T!TypeOK'
    <3>1. CASE T!Cache
      <4>0. N - 1 \in T!Slots /\ s_buf \in [T!Halves -> [T!Slots -> Nat]]
            BY <1>0, LateSizes DEF T!TypeOK, T!Slots
      <4>1. s_buf[hand.half][N - 1] \in Nat BY <2>2, <4>0
      <4> QED BY <1>0, <3>1, <4>1, LateSizes DEF T!TypeOK, T!Cache, T!motor
    <3>2. CASE T!SendFrame
      <4>1. /\ topic' \in 1 .. Topics /\ frame' = <<>>
            /\ Len(frame') <= N /\ frame' \in Seq(Nat)
            BY <1>0, <3>2, LateSizes DEF T!TypeOK, T!SendFrame
      <4> QED BY <1>0, <3>2, <4>1 DEF T!TypeOK, T!SendFrame, T!motor
    <3>3. CASE T!Skip \/ T!SendLast
      <4>1. /\ t_rpc' = "wait" /\ age' = 0 /\ delivered' = hand.first
            /\ UNCHANGED <<T!motor, s_ready_q, hand, latest, topic, frame>>
            BY <3>3 DEF T!Skip, T!SendLast, T!Finish
      <4> QED BY <1>0, <2>2, <4>1 DEF T!TypeOK, T!motor
    <3> QED BY <1>3, <3>1, <3>2, <3>3
  <2>4. FrameNotStale'
    <3>1. CASE T!Cache
      <4>1. N - 1 \in T!Slots BY LateSizes DEF T!Slots
      <4>2. s_buf[hand.half][N - 1] >= hand.first + (N - 1) BY <1>0, <4>1 DEF Fresh
      <4>3. /\ latest' = s_buf[hand.half][N - 1] /\ hand' = hand
            /\ frame' = <<>> /\ Len(frame') = 0 /\ t_rpc' = "pack"
            BY <3>1 DEF T!Cache
      <4>4. hand'.first > delivered'
            BY <1>5, <4>3 DEF LateOrder
      <4> QED BY <2>2, <4>2, <4>3, <4>4, LateSizes DEF FrameNotStale, T!FrameNotStale
    <3>2. CASE T!Skip \/ T!SendFrame \/ T!SendLast
        BY <1>0, <3>2, LateSizes DEF FrameNotStale, T!FrameNotStale, T!Skip, T!SendFrame,
            T!SendLast, T!Finish
    <3> QED BY <1>3, <3>1, <3>2
  <2> QED BY <1>0, <1>5, <2>1, <2>3, <2>4 DEF LateInv, Fresh
<1>4. CASE T!PackSample
  <2>1. /\ frame \in Seq(Nat) /\ Len(frame) < N /\ t_rpc = "pack"
        /\ frame' = Append(frame, s_buf[hand.half][Len(frame)])
        /\ UNCHANGED <<T!motor, s_ready_q, age, t_rpc, hand, latest, topic, delivered>>
        BY <1>0, <1>4 DEF T!PackSample, T!TypeOK
  <2>2. hand \in T!Entries /\ hand.half \in T!Halves /\ hand.first \in Int
        BY <1>0 DEF T!TypeOK, T!Entries
  <2>3. Len(frame) \in T!Slots BY <2>1, LateSizes DEF T!Slots
  <2> PICK x : x = s_buf[hand.half][Len(frame)] OBVIOUS
  <2>4. x \in Nat /\ x >= hand.first + Len(frame) BY <1>0, <2>2, <2>3 DEF T!TypeOK, Fresh
  <2>5. /\ frame' = Append(frame, x) /\ frame' \in Seq(Nat) /\ Len(frame') = Len(frame) + 1
        /\ \A k \in 1 .. Len(frame) : frame'[k] = frame[k]
        /\ frame'[Len(frame) + 1] = x
        BY <2>1, <2>4
  <2>6. T!TypeOK' BY <1>0, <2>1, <2>5, LateSizes DEF T!TypeOK, T!motor
  <2>7. FrameNotStale'
    <3>1. /\ latest >= hand.first + N - 1 /\ hand.first > delivered
          /\ \A k \in 1 .. Len(frame) : frame[k] >= hand.first + k - 1
          BY <1>0, <2>1 DEF FrameNotStale, T!FrameNotStale
    <3>2. ASSUME NEW k \in 1 .. Len(frame') PROVE frame'[k] >= hand.first + k - 1
      <4>1. CASE k = Len(frame) + 1 BY <2>1, <2>2, <2>4, <2>5, <4>1
      <4>2. CASE k \in 1 .. Len(frame) BY <2>5, <3>1, <4>2
      <4> QED BY <2>1, <2>5, <3>2, <4>1, <4>2
    <3> QED BY <2>1, <3>1, <3>2 DEF FrameNotStale, T!FrameNotStale
  <2> QED BY <1>0, <1>5, <2>1, <2>6, <2>7 DEF LateInv, Fresh, T!motor
<1> QED BY <1>1, <1>2, <1>3, <1>4 DEF T!ReporterStep

-----------------------------------------------------------------------------
(* The activities together                                                   *)

\* The activity that runs keeps its invariant.  A sweep with commands in the
\* middle keeps only its types.
ActivityInv ==
    /\ GyroInv /\ PlayInv /\ LateInv
    /\ IF which = "busy sweep" THEN DB!TypeOK ELSE SweepInv
    /\ which = "script" => ScriptInv

\* A script no command cuts into is a script.
LEMMA QuietScript == P!Next => PB!Next
<1> USE DEF P!shared, PB!shared, P!httpd, PB!httpd, P!motor, PB!motor, P!Zero, PB!Zero
<1>1. P!Upload \/ P!Play \/ P!PlayStop => PB!Upload \/ PB!Play \/ PB!PlayStop
      BY DEF P!Upload, PB!Upload, P!Play, PB!Play, P!PlayStop, PB!PlayStop,
             P!Command, PB!Command, P!MayCommand, PB!MayCommand
<1>2. P!Begin \/ P!Append1 \/ P!Start => PB!Begin \/ PB!Append1 \/ PB!Start
      BY DEF P!Begin, PB!Begin, P!BeginIdx, PB!BeginIdx, P!BeginLen, PB!BeginLen,
             P!Append1, PB!Append1, P!AppendEnd, PB!AppendEnd, P!AppendL, PB!AppendL,
             P!AppendR, PB!AppendR, P!AppendLen, PB!AppendLen, P!UploadEnd, PB!UploadEnd,
             P!Import, PB!Import, P!PrevEnd, PB!PrevEnd, P!Store, PB!Store,
             P!Start, PB!Start, P!StartIdx, PB!StartIdx, P!StartReport, PB!StartReport,
             P!StartT0, PB!StartT0, P!StartActive, PB!StartActive
<1>3. P!Tick \/ P!PlaybackStep \/ P!Hold \/ P!Announce
      => PB!Tick \/ PB!PlaybackStep \/ PB!Hold \/ PB!Announce
      BY DEF P!Tick, PB!Tick, P!PlaybackStep, PB!PlaybackStep, P!ReadIdx, PB!ReadIdx,
             P!Scan, PB!Scan, P!StoreIdx, PB!StoreIdx, P!TestEnd, PB!TestEnd,
             P!EndActive, PB!EndActive, P!EndReport, PB!EndReport, P!OutL, PB!OutL,
             P!OutR, PB!OutR, P!Hold, PB!Hold, P!Announce, PB!Announce
<1> QED BY <1>1, <1>2, <1>3 DEF P!Next, PB!Next

\* At rest an activity keeps what it kept.
LEMMA AtRest ==
    /\ GyroInv /\ UNCHANGED gyro => GyroInv'
    /\ PlayInv /\ UNCHANGED playback => PlayInv'
    /\ ScriptInv /\ UNCHANGED playback => ScriptInv'
    /\ LateInv /\ UNCHANGED telemetry => LateInv'
    /\ SweepInv /\ UNCHANGED deadband => SweepInv'
    /\ DB!TypeOK /\ UNCHANGED deadband => DB!TypeOK'
<1>1. GyroInv /\ UNCHANGED gyro => GyroInv'
      BY DEF gyro, GyroInv, GyroBool, GyroRange, GyroCommanded, GyroRun, BiasIsHonest,
             G!BiasIsHonest, G!Bias
<1>2. PlayInv /\ UNCHANGED playback => PlayInv'
      BY DEF playback, PlayInv, PlayFlags, PlayArray, PlayOut, PlayRange, PlayRun,
             P!Cells, P!Values
<1>3. ScriptInv /\ UNCHANGED playback => ScriptInv'
      BY DEF playback, ScriptInv, ScriptQuiet, ScriptBuilt, ScriptPlace, Passed, P!Cells
<1>4. LateInv /\ UNCHANGED telemetry => LateInv'
      BY DEF telemetry, LateInv, LateOrder, T!TypeOK, Fresh, FrameNotStale, T!FrameNotStale,
             T!Halves, T!Slots, T!Entries
<1>5. SweepInv /\ UNCHANGED deadband => SweepInv'
      BY DEF deadband, SweepInv, D!TypeOK, SweepArming, SweepRamping, SweepPhases, OnRamp,
             Truthful, D!Wheels, D!Dirs, D!Dir, D!Sgn
<1>6. DB!TypeOK /\ UNCHANGED deadband => DB!TypeOK'
      BY DEF deadband, DB!TypeOK, DB!Wheels, DB!Dirs
<1> QED BY <1>1, <1>2, <1>3, <1>4, <1>5, <1>6

LEMMA ActivityInit == Init => ActivityInv
<1> SUFFICES ASSUME Init PROVE ActivityInv
    OBVIOUS
<1>1. G!Init /\ P!Init /\ T!Init /\ IF which = "busy sweep" THEN DB!Init ELSE D!Init
      BY DEF Init
<1>2. which # "busy sweep" => SweepInv
  <2> SUFFICES ASSUME D!Init PROVE SweepInv
      BY <1>1
  <2>1. D!TypeOK
        BY DSweep, SweepInitTypes, SweepSizes
  <2> QED BY <2>1, SweepStart DEF SweepInv
<1>3. which = "busy sweep" => DB!TypeOK
      BY <1>1, DBSweep, SweepInitTypes, SweepSizes
<1> QED BY <1>1, <1>2, <1>3, GyroInit, PlayInit, ScriptInit, LateInit DEF ActivityInv

LEMMA ActivityStep == ActivityInv /\ [Next]_vars => ActivityInv'
<1> SUFFICES ASSUME ActivityInv, [Next]_vars PROVE ActivityInv'
    OBVIOUS
<1>0. /\ GyroInv /\ PlayInv /\ LateInv
      /\ which = "busy sweep" => DB!TypeOK
      /\ which # "busy sweep" => SweepInv
      /\ which = "script" => ScriptInv
      BY DEF ActivityInv
<1>1. CASE Gyro(G!Next)
      BY <1>0, <1>1, GyroNext, AtRest DEF Gyro, ActivityInv
<1>2. CASE Script("script", P!Next)
  <2>1. PlayInv' /\ ScriptInv'
        BY <1>0, <1>2, QuietScript, PlayNext, QuietNext, BuiltNext, PlaceNext
           DEF Script, ScriptInv
  <2> QED BY <1>0, <1>2, <2>1, AtRest DEF Script, ActivityInv
<1>3. CASE Script("busy script", PB!Next)
      BY <1>0, <1>3, PlayNext, AtRest DEF Script, ActivityInv
<1>4. CASE Sweep("sweep", D!Next)
  <2>1. D!TypeOK'
        BY <1>0, <1>4, DSweep, SweepNextTypes, SweepSizes DEF Sweep, SweepInv
  <2> QED BY <1>0, <1>4, <2>1, SweepNext, AtRest DEF Sweep, ActivityInv
<1>5. CASE Sweep("busy sweep", DB!Next)
  <2>1. DB!TypeOK'
        BY <1>0, <1>5, DBSweep, SweepNextTypes, SweepSizes DEF Sweep
  <2> QED BY <1>0, <1>5, <2>1, AtRest DEF Sweep, ActivityInv
<1>6. CASE Late(T!Next)
      BY <1>0, <1>6, LateRecord, LateOthers, AtRest DEF Late, T!Next, ActivityInv
<1>7. CASE UNCHANGED vars
      BY <1>0, <1>7, AtRest DEF vars, ActivityInv
<1> QED BY <1>1, <1>2, <1>3, <1>4, <1>5, <1>6, <1>7 DEF Next

\* Every activity keeps its variables in range, whatever the sizes.
THEOREM ActivityTypes == Spec => []TypeOK
<1>1. GyroInv => G!TypeOK
      BY DEF GyroInv, G!TypeOK, GyroBool, GyroRange
<1>2. LateInv => T!TypeOK
      BY DEF LateInv
<1>3. SweepInv => D!TypeOK
      BY DEF SweepInv
<1>4. ActivityInv => TypeOK
      BY <1>1, <1>2, <1>3, PlayTypes DEF ActivityInv, TypeOK
<1> QED BY <1>4, ActivityInit, ActivityStep, PTL DEF Spec

\* What the calibration stores is the mean of GYROCAL_N samples of a robot at rest,
\* for every GYROCAL_N and any number of commands between results
\* (control.c:213-257).
THEOREM CalibrationIsHonest == Spec => []BiasIsHonest
<1>1. ActivityInv => BiasIsHonest
      BY DEF ActivityInv, GyroInv
<1> QED BY <1>1, ActivityInit, ActivityStep, PTL DEF Spec

\* No step past the array is played, for every capacity and however commands and
\* ticks interleave (control.c:361-376).
THEOREM ScriptStaysInBounds == Spec => []InBounds
<1>1. ActivityInv => InBounds
      BY DEF ActivityInv, PlayInv, PlayRun, InBounds, PB!InBounds
<1> QED BY <1>1, ActivityInit, ActivityStep, PTL DEF Spec

\* Between commands each tick plays the step its time falls into, for every length
\* of the script and of its steps (control.c:361-376).
THEOREM ScriptPlaysInTurn == Spec => StepsInTurn
<1>1. ActivityInv /\ [Next]_vars => [which = "script" => P!StepInTurn]_vars
  <2> SUFFICES ASSUME ActivityInv, Next, which = "script"
               PROVE  P!StepInTurn
      OBVIOUS
  <2>1. P!Next
        BY DEF Next, Gyro, Script, Sweep, Late
  <2> QED BY <2>1, ScriptTurn DEF ActivityInv
<1> QED BY <1>1, ActivityInit, ActivityStep, PTL DEF Spec, StepsInTurn

\* Between commands the end of a script is announced once, when it is over
\* (control.c:873-889).
THEOREM ScriptEndsOnce == Spec => FinishedIsFinished
<1>1. ActivityInv /\ [Next]_vars => [which = "script" => P!AnnouncedOnce]_vars
  <2> SUFFICES ASSUME ActivityInv, Next, which = "script"
               PROVE  P!AnnouncedOnce
      OBVIOUS
  <2>1. P!Next
        BY DEF Next, Gyro, Script, Sweep, Late
  <2> QED BY <2>1, ScriptOnce DEF ActivityInv
<1> QED BY <1>1, ActivityInit, ActivityStep, PTL DEF Spec, FinishedIsFinished

\* A sweep left alone reports a duty that turned the wheel, or the ceiling it went
\* to, for every number of wheels, ceiling and threshold (control.c:302-356).
THEOREM SweepReportsTruth == Spec => []SweepIsTruthful
<1>1. SweepInv => D!SweepIsTruthful
      BY DEF SweepInv, SweepPhases, Truthful, D!SweepIsTruthful, D!Dirs
<1>2. ActivityInv => SweepIsTruthful
      BY <1>1 DEF ActivityInv, SweepIsTruthful
<1> QED BY <1>2, ActivityInit, ActivityStep, PTL DEF Spec

\* However late the reporter and however often motor_task starts over, a frame is
\* never older than the batch it was handed (control.c:93, 552-580, 917-985).
THEOREM LateFramesAreNewer == Spec => []FrameNotStale
<1>1. ActivityInv => FrameNotStale
      BY DEF ActivityInv, LateInv
<1> QED BY <1>1, ActivityInit, ActivityStep, PTL DEF Spec
=============================================================================
