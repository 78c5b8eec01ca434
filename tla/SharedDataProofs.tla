-------------------------- MODULE SharedDataProofs --------------------------
(* What holds of the data handed over without a lock, of each part's own     *)
(* specification: the snapshot for every payload, every even wrap-around of  *)
(* the counter and every number of publications; the warnings for any number *)
(* of counters and of violations.  The telemetry batches have a module of    *)
(* their own, TelemetryHandoffProofs.                                        *)
EXTENDS MCSharedData, TLAPS

\* Incrementing a counter that wraps at an even number flips its parity.
LEMMA BumpFlips ==
    ASSUME NEW n \in 0 .. SeqMod - 1
    PROVE  /\ S!Bump(n) \in 0 .. SeqMod - 1
           /\ S!Odd(S!Bump(n)) <=> ~S!Odd(n)
BY SharedDataAssumption DEF S!SeqlockAssumption, S!Bump, S!Odd

\* The invariant holds before the first publication (control.c:87-122).
LEMMA SnapshotInitIInv == S!Init => S!IInv
BY SharedDataAssumption DEF S!SeqlockAssumption, S!Init, S!IInv, S!TypeOK, S!ParityInv,
       S!PayloadInv, S!CopyInv, S!NoTornRead, S!Odd

\* Every step of the writer or the reader keeps the invariant.
LEMMA SnapshotStepIInv == S!IInv /\ [S!Next]_(S!vars) => S!IInv'
<1> SUFFICES ASSUME S!IInv, [S!Next]_(S!vars) PROVE S!IInv'
    OBVIOUS
<1> USE SharedDataAssumption DEF S!SeqlockAssumption, S!IInv
<1>1. CASE S!WriteBegin
  <2>1. S!TypeOK' /\ S!ParityInv'
        BY <1>1, BumpFlips DEF S!WriteBegin, S!WriterRuns, S!TypeOK, S!ParityInv, S!rvars
  <2>2. S!PayloadInv'
        BY <1>1 DEF S!WriteBegin, S!TypeOK, S!PayloadInv, S!rvars
  <2>3. S!CopyInv'
        BY <1>1 DEF S!WriteBegin, S!WriterRuns, S!TypeOK, S!CopyInv, S!NoTornRead, S!rvars
  <2> QED BY <2>1, <2>2, <2>3
<1>2. CASE S!WriteEnd
  <2>1. S!TypeOK' /\ S!ParityInv'
        BY <1>2, BumpFlips DEF S!WriteEnd, S!WriterRuns, S!TypeOK, S!ParityInv, S!rvars
  <2>2. S!PayloadInv'
        BY <1>2 DEF S!WriteEnd, S!TypeOK, S!PayloadInv, S!rvars
  <2>3. S!CopyInv'
        BY <1>2 DEF S!WriteEnd, S!WriterRuns, S!TypeOK, S!CopyInv, S!NoTornRead, S!rvars
  <2> QED BY <2>1, <2>2, <2>3
<1>3. CASE \E w \in Words : S!WriteWord(w)
  <2> PICK w \in Words : S!WriteWord(w)
      BY <1>3
  <2>1. S!TypeOK' /\ S!ParityInv'
        BY DEF S!WriteWord, S!WriterRuns, S!TypeOK, S!ParityInv, S!rvars
  <2>2. S!PayloadInv'
        BY DEF S!WriteWord, S!TypeOK, S!PayloadInv, S!rvars
  <2>3. S!CopyInv'
        BY DEF S!WriteWord, S!WriterRuns, S!TypeOK, S!CopyInv, S!NoTornRead, S!rvars
  <2> QED BY <2>1, <2>2, <2>3
<1>4. CASE S!ReadBegin
  <2>1. S!TypeOK' /\ S!ParityInv' /\ S!PayloadInv'
        BY <1>4 DEF S!ReadBegin, S!TypeOK, S!ParityInv, S!PayloadInv, S!wvars
  <2>2. S!CopyInv'
        BY <1>4 DEF S!ReadBegin, S!TypeOK, S!ParityInv, S!CopyInv, S!NoTornRead, S!wvars
  <2> QED BY <2>1, <2>2
<1>5. CASE S!ReadEnd
  <2>1. S!TypeOK' /\ S!ParityInv' /\ S!PayloadInv'
        BY <1>5 DEF S!ReadEnd, S!TypeOK, S!ParityInv, S!PayloadInv, S!wvars
  <2>2. S!CopyInv'
        BY <1>5 DEF S!ReadEnd, S!TypeOK, S!CopyInv, S!NoTornRead, S!wvars
  <2> QED BY <2>1, <2>2
<1>6. CASE \E w \in Words : S!ReadWord(w)
  <2> PICK w \in Words : S!ReadWord(w)
      BY <1>6
  <2>1. S!TypeOK' /\ S!ParityInv' /\ S!PayloadInv'
        BY DEF S!ReadWord, S!TypeOK, S!ParityInv, S!PayloadInv, S!wvars
  <2>2. S!CopyInv'
        BY DEF S!ReadWord, S!TypeOK, S!PayloadInv, S!CopyInv, S!NoTornRead, S!wvars
  <2> QED BY <2>1, <2>2
<1>7. CASE S!ReaderRestart
  <2>1. S!TypeOK' /\ S!ParityInv' /\ S!PayloadInv'
        BY <1>7 DEF S!ReaderRestart, S!TypeOK, S!ParityInv, S!PayloadInv, S!wvars
  <2>2. S!CopyInv'
        BY <1>7 DEF S!ReaderRestart, S!TypeOK, S!CopyInv, S!NoTornRead, S!wvars
  <2> QED BY <2>1, <2>2
<1>8. CASE UNCHANGED S!vars
  BY <1>8 DEF S!vars, S!wvars, S!rvars, S!TypeOK, S!ParityInv,
           S!PayloadInv, S!CopyInv, S!NoTornRead
<1> QED BY <1>1, <1>2, <1>3, <1>4, <1>5, <1>6, <1>7, <1>8 DEF S!Next

\* The copy motor_task records is always one whole publication, wherever it
\* preempts the writer and however often the counter wraps (control.c:87-122).
THEOREM SnapshotIsWhole == S!Spec => [](S!IInv /\ NoTornRead)
<1>1. S!IInv => NoTornRead
      BY DEF S!IInv, S!CopyInv, NoTornRead
<1> QED BY <1>1, SnapshotInitIInv, SnapshotStepIInv, PTL DEF S!Spec

\* A read that begins ends with the newest complete publication: the reader
\* never has to spin (control.c:109-111).
THEOREM ReadGetsNewest == S!Spec => ReadIsNewest
<1>1. S!IInv /\ [S!Next]_(S!vars) =>
        [s_rpc = "copying" /\ s_rpc' = "idle" => \A w \in Words : pub'[w] = writes]_(S!vars)
  <2> SUFFICES ASSUME S!IInv, S!Next, s_rpc = "copying", s_rpc' = "idle"
               PROVE  \A w \in Words : pub'[w] = writes
      BY DEF S!vars
  <2>1. S!ReadEnd
        BY DEF S!Next, S!WriteBegin, S!WriteEnd, S!WriteWord, S!WriterRuns, S!ReadBegin,
               S!ReadWord, S!ReaderRestart, S!rvars
  <2> QED BY <2>1 DEF S!ReadEnd, S!IInv, S!TypeOK, S!CopyInv
<1> QED BY <1>1, SnapshotInitIInv, SnapshotStepIInv, PTL
    DEF S!Spec, S!ReadIsNewest, ReadIsNewest

\* The initial states of the seqlock are initial states of the register.
LEMMA InitSnapshot == S!Init => S!Register!SInit
BY SharedDataAssumption DEF S!SeqlockAssumption, S!Init, S!Register!SInit, S!AWord

\* Each step of the seqlock publishes, takes, forgets, or changes nothing the
\* register shows.
LEMMA StepSnapshot == S!IInv /\ [S!Next]_(S!vars) => [S!Register!SNext]_(S!Register!svars)
<1> SUFFICES ASSUME S!IInv, [S!Next]_(S!vars) PROVE [S!Register!SNext]_(S!Register!svars)
    OBVIOUS
<1> USE SharedDataAssumption DEF S!SeqlockAssumption, S!Register!SNext, S!Register!svars,
        S!Register!Publish, S!Register!Take, S!Register!Forget
<1>0. S!AWord \in Words
      BY DEF S!AWord
<1>1. CASE S!WriteBegin
      BY <1>0, <1>1 DEF S!WriteBegin, S!IInv, S!TypeOK, S!rvars
<1>2. CASE S!WriteEnd
      BY <1>0, <1>2 DEF S!WriteEnd, S!IInv, S!TypeOK, S!rvars
<1>3. CASE \E w \in Words : S!WriteWord(w)
      BY <1>0, <1>3 DEF S!WriteWord, S!IInv, S!TypeOK, S!rvars
<1>4. CASE S!ReadBegin
      BY <1>0, <1>4 DEF S!ReadBegin, S!wvars
<1>5. CASE S!ReadEnd
      BY <1>0, <1>5 DEF S!ReadEnd, S!IInv, S!TypeOK, S!CopyInv, S!wvars
<1>6. CASE \E w \in Words : S!ReadWord(w)
      BY <1>0, <1>6 DEF S!ReadWord, S!wvars
<1>7. CASE S!ReaderRestart
      BY <1>0, <1>7 DEF S!ReaderRestart, S!wvars
<1>8. CASE UNCHANGED S!vars
      BY <1>0, <1>8 DEF S!vars, S!wvars, S!rvars
<1> QED BY <1>1, <1>2, <1>3, <1>4, <1>5, <1>6, <1>7, <1>8 DEF S!Next

\* The seqlock implements the register of whole samples (control.c:87-122).
THEOREM SeqlockImplementsSnapshot == S!Spec => ImplementsSnapshot
BY SnapshotInitIInv, SnapshotStepIInv, InitSnapshot, StepSnapshot, PTL
   DEF S!Spec, ImplementsSnapshot, S!ImplementsSnapshot, S!Register!SSpec

-----------------------------------------------------------------------------

\* The counters start empty and nothing is owed.
LEMMA WarningsInitIInv == W!Init => W!IInv
  BY SharedDataAssumption DEF W!DrainAssumption, W!Init, W!IInv, W!TypeOK,
         W!MotorRemembered, W!Remembered, W!Groups

\* Storing back an incremented value leaves the counter above zero.
LEMMA WarningsAddIInv ==
  ASSUME W!IInv, NEW g \in W!Groups, NEW k \in Kinds, W!Add(g, k)
  PROVE  W!IInv'
<1> USE SharedDataAssumption DEF W!DrainAssumption
<1>1. W!TypeOK'
  BY DEF W!IInv, W!TypeOK, W!Add, W!reporter
<1>2. s_warn_count'[g][k] > 0
  BY DEF W!IInv, W!TypeOK, W!Add
<1>3. \A j \in Kinds :
        s_warn_count'["motor"][j] = s_warn_count["motor"][j] \/ (g = "motor" /\ j = k)
  BY DEF W!IInv, W!TypeOK, W!Add, W!Groups
<1>4. W!MotorRemembered'
  <2>1. CASE g = "motor"
    BY <2>1, <1>2 DEF W!MotorRemembered, W!Remembered
  <2>2. CASE g # "motor"
    BY <2>2, <1>3 DEF W!IInv, W!MotorRemembered, W!Remembered, W!Add, W!reporter, W!Nothing
  <2>3. QED BY <2>1, <2>2
<1>5. QED
  BY <1>1, <1>4 DEF W!IInv, W!Add, W!reporter, W!Nothing

\* Loading, reading and moving between groups clear nothing.
LEMMA WarningsQuietIInv ==
  ASSUME W!IInv,
         \/ \E g \in W!Groups, k \in Kinds : W!Load(g, k)
         \/ W!Enter
         \/ \E k \in Kinds : W!Read(k)
         \/ W!SkipClear
         \/ W!StartClear
         \/ UNCHANGED W!vars
  PROVE  W!IInv'
<1> USE SharedDataAssumption DEF W!DrainAssumption
<1>1. W!TypeOK'
  <2>1. CASE \E g \in W!Groups, k \in Kinds : W!Load(g, k)
    BY <2>1 DEF W!IInv, W!TypeOK, W!Load, W!reporter
  <2>2. CASE \E k \in Kinds : W!Read(k)
    BY <2>2 DEF W!IInv, W!TypeOK, W!Read, W!tasks
  <2>3. CASE W!Enter
    BY <2>3 DEF W!IInv, W!TypeOK, W!Enter, W!tasks, W!Groups
  <2>4. CASE W!SkipClear
    BY <2>4 DEF W!IInv, W!TypeOK, W!SkipClear, W!GoOn, W!tasks, W!Groups
  <2>5. CASE W!StartClear
    BY <2>5 DEF W!IInv, W!TypeOK, W!StartClear, W!tasks
  <2>6. CASE UNCHANGED W!vars
    BY <2>6 DEF W!IInv, W!TypeOK, W!vars, W!tasks, W!reporter
  <2>7. QED BY <2>1, <2>2, <2>3, <2>4, <2>5, <2>6
<1>2. s_warn_count' = s_warn_count /\ owed' = owed
  BY DEF W!Load, W!Enter, W!Read, W!SkipClear, W!StartClear, W!vars, W!tasks, W!reporter
<1>3. d_rpc = "clear" => d_rpc' = "clear" /\ group' = group /\ seen' = seen
  BY DEF W!Load, W!Enter, W!Read, W!SkipClear, W!StartClear, W!vars, W!tasks, W!reporter
<1>4. d_rpc' = "clear" /\ group' = "motor" => ~W!Nothing'
  BY DEF W!IInv, W!Load, W!Enter, W!Read, W!SkipClear, W!StartClear, W!GoOn, W!Nothing,
         W!vars, W!tasks, W!reporter
<1>5. W!MotorRemembered'
  BY <1>2, <1>3 DEF W!IInv, W!MotorRemembered, W!Remembered, W!Nothing
<1>6. QED BY <1>1, <1>4, <1>5 DEF W!IInv

\* A counter of the motor group is cleared only when its message is on the way.
LEMMA WarningsClearIInv ==
  ASSUME W!IInv, NEW k \in Kinds, W!Clear(k)
  PROVE  W!IInv'
<1> USE SharedDataAssumption DEF W!DrainAssumption
<1>1. W!TypeOK'
  BY DEF W!IInv, W!TypeOK, W!Clear, W!tasks
<1>2. W!MotorRemembered'
  <2>1. CASE group = "motor"
    BY <2>1 DEF W!IInv, W!MotorRemembered, W!Remembered, W!Clear, W!Nothing
  <2>2. CASE group # "motor"
    <3>1. s_warn_count'["motor"] = s_warn_count["motor"]
      BY <2>2 DEF W!IInv, W!TypeOK, W!Clear, W!Groups
    <3>2. QED BY <3>1, <2>2 DEF W!IInv, W!MotorRemembered, W!Remembered, W!Clear
  <2>3. QED BY <2>1, <2>2
<1>3. QED
  BY <1>1, <1>2 DEF W!IInv, W!Clear, W!Nothing

\* The message settles what was owed, or leaves the group as it was.
LEMMA WarningsSayIInv ==
  ASSUME W!IInv, W!Say
  PROVE  W!IInv'
<1> USE SharedDataAssumption DEF W!DrainAssumption
<1>1. W!TypeOK'
  BY DEF W!IInv, W!TypeOK, W!Say, W!GoOn, W!tasks, W!Groups
<1>2. W!MotorRemembered'
  BY DEF W!IInv, W!TypeOK, W!MotorRemembered, W!Remembered, W!Say, W!GoOn, W!Nothing, W!Groups
<1>3. d_rpc' # "clear"
  BY DEF W!Say, W!GoOn
<1>4. QED BY <1>1, <1>2, <1>3 DEF W!IInv

\* Whatever addition its clearing races with, the reporter does not forget that
\* the motor loop was late, early or skipped (control.c:737-753): between a
\* violation and its broadcast a counter shows it or the broadcast is on the way.
THEOREM MotorWarningsSurvive == W!Spec => [](W!TypeOK /\ MotorRemembered)
<1>1. W!IInv /\ [W!Next]_(W!vars) => W!IInv'
  <2> SUFFICES ASSUME W!IInv, [W!Next]_(W!vars) PROVE W!IInv'
    OBVIOUS
  <2>1. CASE \E g \in W!Groups, k \in Kinds : W!Add(g, k)
    BY <2>1, WarningsAddIInv
  <2>2. CASE \E k \in Kinds : W!Clear(k)
    BY <2>2, WarningsClearIInv
  <2>3. CASE W!Say
    BY <2>3, WarningsSayIInv
  <2>4. QED
    BY <2>1, <2>2, <2>3, WarningsQuietIInv DEF W!Next, W!Report
<1>2. W!IInv => W!TypeOK /\ MotorRemembered
  BY DEF W!IInv, MotorRemembered
<1>3. QED
  BY WarningsInitIInv, <1>1, <1>2, PTL DEF W!Spec

-----------------------------------------------------------------------------
\* A step of one part is a step of it or leaves it alone.
LEMMA SharedStep ==
    ASSUME [SharedNext]_all
    PROVE  [Next]_vars /\ [S!Next]_(S!vars) /\ [W!Next]_(W!vars)
<1> USE DEF vars, motor, reporter, snapshot, warnings,
            S!vars, S!wvars, S!rvars, W!vars, W!tasks, W!reporter
<1>1. CASE Batches(Next)
  BY <1>1 DEF Batches
<1>2. CASE Copies(S!Next)
  BY <1>2 DEF Copies
<1>3. CASE Counts(W!Next)
  BY <1>3 DEF Counts
<1>4. CASE UNCHANGED all
  BY <1>4 DEF all
<1> QED
  BY <1>1, <1>2, <1>3, <1>4 DEF SharedNext

\* The checked composition implements each part's own specification, so what is
\* proved of a part holds where the model checker runs it.
THEOREM SharedDataImplementsParts == SharedSpec => Spec /\ S!Spec /\ W!Spec
<1>1. SharedInit => Init /\ S!Init /\ W!Init
  BY DEF SharedInit
<1> QED
  BY <1>1, SharedStep, PTL DEF SharedSpec, Spec, S!Spec, W!Spec
=============================================================================
