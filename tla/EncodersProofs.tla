--------------------------- MODULE EncodersProofs ---------------------------
(* Reading an encoder is exact: the retry of encoder_count is enough against   *)
(* any rollover interrupt that may run between its loads.                      *)
EXTENDS Encoders, TLAPS

-----------------------------------------------------------------------------
(* The two words of an accumulator                                           *)

LEMMA Sizes == /\ LIMIT \in Nat /\ LIMIT > 1 /\ WORD \in Nat /\ WORD > 1
               /\ LIMIT % WORD # 0
  BY EncodersAssumption

\* A value is its two words, ...
LEMMA Words ==
    ASSUME NEW x \in Int
    PROVE  /\ Lo(x) \in 0 .. WORD - 1 /\ Lo(x) \in Int /\ Hi(x) \in Int
           /\ WORD * Hi(x) \in Int /\ x = Lo(x) + WORD * Hi(x)
<1>1. WORD \in Nat /\ WORD > 0
  BY Sizes
<1> QED
  BY <1>1, SMT DEF Lo, Hi

\* ... two values with the same words are one, ...
LEMMA WordsDiffer ==
    ASSUME NEW l \in 0 .. WORD - 1, NEW m \in 0 .. WORD - 1, NEW h \in Int, NEW k \in Int,
           l + WORD * h = m + WORD * k
    PROVE  l = m /\ h = k
<1>1. WORD \in Nat /\ WORD > 0 /\ l \in Int /\ m \in Int
  BY Sizes
<1>2. \A a, b \in Int : a < b => WORD * a + WORD <= WORD * b
  <2> TAKE a, b \in Int
  <2> HAVE a < b
  <2>1. PICK c \in Nat : b = a + 1 + c
    <3>1. b - a - 1 \in Nat /\ b = a + 1 + (b - a - 1)
      OBVIOUS
    <3> QED
      BY <3>1
  <2>2. WORD * b = WORD * a + WORD + WORD * c /\ WORD * c \in Nat /\ WORD * a \in Int
    BY <1>1, <2>1
  <2> QED
    BY <1>1, <2>2
<1>3. WORD * h \in Int /\ WORD * k \in Int
  BY <1>1
<1>4. ~(h < k)
  BY <1>1, <1>2, <1>3
<1>5. ~(k < h)
  BY <1>1, <1>2, <1>3
<1> QED
  BY <1>1, <1>3, <1>4, <1>5

\* ... a pair of words is the value they make, ...
LEMMA WordsMake ==
    ASSUME NEW l \in 0 .. WORD - 1, NEW h \in Int
    PROVE  /\ l + WORD * h \in Int
           /\ Lo(l + WORD * h) = l /\ Hi(l + WORD * h) = h
<1>1. WORD \in Nat /\ l \in Int
  BY Sizes
<1>2. l + WORD * h \in Int
  BY <1>1
<1> DEFINE x == l + WORD * h
<1>3. Lo(x) \in 0 .. WORD - 1 /\ Hi(x) \in Int /\ x = Lo(x) + WORD * Hi(x)
  BY <1>2, Words
<1>4. l + WORD * h = Lo(x) + WORD * Hi(x)
  BY <1>3
<1>5. l = Lo(x) /\ h = Hi(x)
  <2>1. \A m \in 0 .. WORD - 1, k \in Int : l + WORD * h = m + WORD * k => l = m /\ h = k
    BY WordsDiffer, Zenon
  <2> HIDE DEF x
  <2> QED
    BY <1>3, <1>4, <2>1, Zenon
<1> QED
  BY <1>2, <1>5

\* ... and a rollover shows in the low word.
LEMMA RolloverShows ==
    ASSUME NEW x \in Int, NEW r \in {LIMIT, -LIMIT}
    PROVE  Lo(x - r) # Lo(x)
<1> SUFFICES ASSUME Lo(x - r) = Lo(x) PROVE FALSE
  OBVIOUS
<1>1. x - r \in Int
  BY Sizes
<1>2. x = Lo(x) + WORD * Hi(x) /\ x - r = Lo(x) + WORD * Hi(x - r)
  BY <1>1, Words
<1>3. Lo(x) \in Int /\ Hi(x) \in Int /\ Hi(x - r) \in Int
  BY <1>1, Words
<1>4. PICK k \in Int : k = Hi(x) - Hi(x - r)
  BY <1>3
<1>5. r = WORD * k
  <2> DEFINE a == Hi(x)
             b == Hi(x - r)
             w == Lo(x)
  <2>1. /\ a \in Int /\ b \in Int /\ w \in Int /\ WORD \in Nat /\ LIMIT \in Nat
        /\ x = w + WORD * a /\ x - r = w + WORD * b /\ k = a - b
    BY <1>2, <1>3, <1>4, Sizes
  <2> HIDE DEF a, b, w
  <2>2. WORD * k = WORD * a - WORD * b /\ WORD * a \in Int /\ WORD * b \in Int
    BY <2>1
  <2> QED
    BY <2>1, <2>2
<1>6. \A j \in Int : (WORD * j) % WORD = 0
  <2>1. WORD \in Nat \ {0}
    BY Sizes
  <2> QED
    BY <2>1, SMT
<1>7. CASE r = LIMIT
  BY <1>5, <1>6, <1>7, Sizes
<1>8. CASE r = -LIMIT
  <2>1. LIMIT = WORD * (-k) /\ -k \in Int
    BY <1>5, <1>8, Sizes
  <2> QED
    BY <1>6, <2>1, Sizes
<1> QED
  BY <1>7, <1>8

-----------------------------------------------------------------------------
(* Types                                                                     *)

Limits == {0, LIMIT, -LIMIT}

EncFlags  == raced \in BOOLEAN /\ mixed \in BOOLEAN
EncPlaces ==
    /\ rpc \in {"idle", "hi0", "hw", "lo1", "hi1", "got"} /\ core \in {0, 1}
    /\ isr \in {"out", "loaded", "half"} /\ rst \in {"out", "half", "stored"}
EncCounts ==
    /\ hw \in -LIMIT + 1 .. LIMIT - 1 /\ pend \in Limits /\ cur \in -LIMIT + 1 .. LIMIT - 1
    /\ pos \in -MaxBack .. MaxTravel /\ moved \in 0 .. LIMIT /\ resets \in 0 .. MaxResets
EncValues ==
    /\ accum \in Int /\ isrAcc \in Int /\ a0 \in Int /\ a1 \in Int /\ got \in Int /\ seen \in Int
EncTypes == EncFlags /\ EncPlaces /\ EncCounts /\ EncValues

LEMMA LimitsAreInt == Limits \subseteq Int
  BY Sizes DEF Limits

LEMMA SignCases == sign \in {1, -1}
  BY DEF sign

LEMMA InitEncTypes == EncInit => EncTypes
<1> SUFFICES ASSUME EncInit PROVE EncTypes
  OBVIOUS
<1>1. EncFlags
  BY Zenon DEF EncInit, EncFlags
<1>2. EncPlaces /\ EncValues
  BY DEF EncInit, EncPlaces, EncValues
<1>3. EncCounts
  <2>1. LIMIT \in Nat /\ LIMIT > 1 /\ MaxBack \in Nat /\ MaxTravel \in Nat /\ MaxResets \in Nat
    BY EncodersAssumption
  <2> QED
    BY <2>1 DEF EncInit, EncCounts, Limits
<1> QED
  BY <1>1, <1>2, <1>3 DEF EncTypes

\* The wheel's step, seen from the counter: a rollover or a count.
LEMMA EdgeTurns ==
    ASSUME EncTypes, NEW d \in {1, -1}, Edge(d)
    PROVE  \E s \in {1, -1} :
             /\ s = sign * d
             /\ \/ /\ hw + s \in {LIMIT, -LIMIT} /\ pend = 0
                   /\ hw' = 0 /\ pend' = hw + s /\ raced' = (raced \/ rst # "out")
                \/ hw + s \notin {LIMIT, -LIMIT} /\ hw' = hw + s /\ UNCHANGED <<pend, raced>>
<1>1. sign * d \in {1, -1}
  BY SignCases
<1>2. PICK s \in {1, -1} : s = sign * d
  BY <1>1
<1>3. CASE hw + s \in {LIMIT, -LIMIT}
  BY <1>2, <1>3, Zenon DEF Edge
<1>4. CASE hw + s \notin {LIMIT, -LIMIT}
  BY <1>2, <1>4, Zenon DEF Edge
<1> QED
  BY <1>2, <1>3, <1>4

LEMMA EncFlagsStep ==
    ASSUME EncFlags, [EncNext]_encVars
    PROVE  EncFlags'
  BY Zenon DEF EncFlags, EncNext, encVars, Edge, IsrLoad, IsrStoreLow, IsrStoreHigh, CountCall,
           Attempt, ReadHi0, ReadHw, ReadLo1, Return, CountRetry, Consume, ResetLow, ResetHigh,
           ClearCount

LEMMA EncPlacesStep ==
    ASSUME EncPlaces, [EncNext]_encVars
    PROVE  EncPlaces'
  BY DEF EncPlaces, EncNext, encVars, encIsr, encReader, Edge, IsrLoad, IsrStoreLow,
         IsrStoreHigh, CountCall, Attempt, ReadHi0, ReadHw, ReadLo1, Return, CountRetry, Consume,
         ResetLow, ResetHigh, ClearCount

LEMMA EncCountsStep ==
    ASSUME EncTypes, [EncNext]_encVars
    PROVE  EncCounts'
<1>1. /\ LIMIT \in Nat /\ LIMIT > 1 /\ MaxBack \in Nat /\ MaxTravel \in Nat
      /\ MaxResets \in Nat
  BY EncodersAssumption
<1>2. ASSUME NEW d \in {1, -1}, Edge(d) PROVE EncCounts'
  <2>1. PICK s \in {1, -1} :
             \/ /\ hw + s \in {LIMIT, -LIMIT}
                /\ hw' = 0 /\ pend' = hw + s
             \/ hw + s \notin {LIMIT, -LIMIT} /\ hw' = hw + s /\ UNCHANGED pend
    BY <1>2, EdgeTurns
  <2>2. hw' \in -LIMIT + 1 .. LIMIT - 1 /\ pend' \in Limits
    BY <1>1, <2>1 DEF EncTypes, EncCounts, Limits
  <2>3. pos' \in -MaxBack .. MaxTravel
    BY <1>2 DEF Edge
  <2>4. moved' \in 0 .. LIMIT
    <3>1. CASE rpc = "idle"
      BY <1>1, <1>2, <3>1 DEF Edge
    <3>2. CASE rpc # "idle"
      BY <1>1, <1>2, <3>2 DEF Edge, EncTypes, EncCounts
    <3> QED
      BY <3>1, <3>2
  <2>5. UNCHANGED <<cur, resets>>
    BY <1>2 DEF Edge, encReader
  <2> QED
    BY <2>2, <2>3, <2>4, <2>5 DEF EncTypes, EncCounts
<1>3. CASE IsrLoad \/ IsrStoreLow \/ IsrStoreHigh
  BY <1>1, <1>3 DEF IsrLoad, IsrStoreLow, IsrStoreHigh, encReader, EncTypes, EncCounts, Limits
<1>4. CASE CountCall \/ CountRetry
  BY <1>1, <1>4 DEF CountCall, CountRetry, Attempt, encIsr, EncTypes, EncCounts
<1>5. CASE ReadHi0 \/ ReadHw \/ ReadLo1
  BY <1>1, <1>5 DEF ReadHi0, ReadHw, ReadLo1, encIsr, EncTypes, EncCounts
<1>6. CASE Return \/ Consume
  BY <1>1, <1>6 DEF Return, Consume, encIsr, EncTypes, EncCounts
<1>7. CASE ResetLow \/ ResetHigh \/ ClearCount
  BY <1>1, <1>7 DEF ResetLow, ResetHigh, ClearCount, encIsr, encReader, EncTypes, EncCounts
<1>8. CASE UNCHANGED encVars
  BY <1>8 DEF encVars, encIsr, encReader, EncTypes, EncCounts
<1> QED
  BY <1>2, <1>3, <1>4, <1>5, <1>6, <1>7, <1>8 DEF EncNext

LEMMA EncValuesStep ==
    ASSUME EncTypes, [EncNext]_encVars
    PROVE  EncValues'
<1>a. \A x \in Int : Lo(x) \in Int /\ Hi(x) \in Int /\ WORD * Hi(x) \in Int
  BY Words
<1>b. \A x, y \in Int : Lo(x) + WORD * Hi(y) \in Int
  BY <1>a
<1> USE DEF EncTypes, EncValues
<1>1. CASE IsrLoad
  BY <1>1 DEF IsrLoad, encReader
<1>2. CASE IsrStoreLow \/ IsrStoreHigh
  <2>1. isrAcc + pend \in Int
    BY LimitsAreInt DEF EncCounts
  <2>2. accum' \in Int
    BY <1>2, <1>b, <2>1, Zenon DEF IsrStoreLow, IsrStoreHigh
  <2> QED
    BY <1>2, <2>2 DEF IsrStoreLow, IsrStoreHigh, encReader
<1>3. CASE CountCall \/ CountRetry
  BY <1>3, <1>a DEF CountCall, CountRetry, Attempt, encIsr
<1>4. CASE ReadHi0
  <2>1. a0 + WORD * Hi(accum) \in Int
    BY <1>a
  <2> QED
    BY <1>4, <2>1 DEF ReadHi0, encIsr
<1>5. CASE ReadHw
  BY <1>5, EncodersAssumption DEF ReadHw, encIsr, EncCounts
<1>6. CASE ReadLo1
  BY <1>6, <1>a DEF ReadLo1, encIsr
<1>7. CASE Return
  <2>1. cur \in Int
    BY Sizes DEF EncCounts
  <2>2. sign * (a0 + cur) \in Int
    BY <2>1, SignCases
  <2> QED
    BY <1>7, <2>2 DEF Return, encIsr
<1>8. CASE Consume
  BY <1>8 DEF Consume, encIsr
<1>9. CASE ResetLow \/ ResetHigh
  <2>1. accum' \in Int
    BY <1>9, <1>a DEF ResetLow, ResetHigh
  <2> QED
    BY <1>9, <2>1 DEF ResetLow, ResetHigh, encIsr, encReader
<1>10. CASE ClearCount \/ (\E d \in {1, -1} : Edge(d)) \/ UNCHANGED encVars
  BY <1>10 DEF ClearCount, Edge, encVars, encIsr, encReader
<1> QED
  BY <1>1, <1>2, <1>3, <1>4, <1>5, <1>6, <1>7, <1>8, <1>9, <1>10 DEF EncNext

LEMMA EncTypesStep == EncTypes /\ [EncNext]_encVars => EncTypes'
  BY EncFlagsStep, EncPlacesStep, EncCountsStep, EncValuesStep DEF EncTypes

-----------------------------------------------------------------------------
(* The accumulator                                                           *)

\* What accum holds when no interrupt is pending: the position without the counter.
Base == sign * pos - hw

\* A pending interrupt is for a limit.
IsrInv == isr # "out" => pend # 0

\* Unless a rollover met the last reset, accum is behind by what is pending at most, and
\* half way through the store it has the old high word still.
AccumInv ==
    ~raced =>
      /\ rst = "half" => pend = 0 /\ Lo(accum) = 0
      /\ rst = "stored" => pend = 0 /\ accum = 0
      /\ rst = "out" /\ isr # "half" => accum + pend = Base
      /\ rst = "out" /\ isr = "loaded" => isrAcc = accum
      /\ rst = "out" /\ isr = "half" =>
           /\ isrAcc + pend = Base
           /\ accum = Lo(isrAcc + pend) + WORD * Hi(isrAcc)

LEMMA BaseInt == EncTypes => Base \in Int /\ hw \in Int /\ pend \in Int /\ cur \in Int
<1>1. LIMIT \in Nat /\ MaxBack \in Nat /\ MaxTravel \in Nat
  BY EncodersAssumption
<1>2. ASSUME EncTypes PROVE hw \in Int /\ pend \in Int /\ pos \in Int /\ cur \in Int
  BY <1>1, <1>2 DEF EncTypes, EncCounts, Limits
<1> QED
  BY <1>2, SignCases DEF Base

\* A rollover moves the base by the limit, any other count leaves it.
LEMMA EdgeBase ==
    ASSUME EncTypes, NEW d \in {1, -1}, Edge(d)
    PROVE  \/ /\ UNCHANGED <<pend, raced>> /\ Base' = Base
              /\ hw' = hw + 1 \/ hw' = hw - 1
           \/ /\ pend = 0 /\ pend' \in {LIMIT, -LIMIT} /\ Base' = Base + pend' /\ hw' = 0
              /\ pend' = hw + 1 \/ pend' = hw - 1
              /\ raced' = (raced \/ rst # "out")
<1>1. PICK s \in {1, -1} :
             /\ s = sign * d
             /\ \/ /\ hw + s \in {LIMIT, -LIMIT} /\ pend = 0
                   /\ hw' = 0 /\ pend' = hw + s /\ raced' = (raced \/ rst # "out")
                \/ hw + s \notin {LIMIT, -LIMIT} /\ hw' = hw + s /\ UNCHANGED <<pend, raced>>
  BY EdgeTurns
<1>2. pos' = pos + d /\ pos \in Int /\ hw \in Int
  <2>1. MaxBack \in Nat /\ MaxTravel \in Nat /\ LIMIT \in Nat
    BY EncodersAssumption
  <2> QED
    BY <2>1 DEF Edge, EncTypes, EncCounts
<1>3. sign * pos' = sign * pos + s /\ sign * pos \in Int
  BY <1>1, <1>2, SignCases
<1>4. CASE /\ hw + s \in {LIMIT, -LIMIT} /\ pend = 0
           /\ hw' = 0 /\ pend' = hw + s /\ raced' = (raced \/ rst # "out")
  <2>1. Base' = Base + pend'
    BY <1>2, <1>3, <1>4 DEF Base
  <2>2. pend' = hw + 1 \/ pend' = hw - 1
    BY <1>2, <1>4
  <2> QED
    BY <1>4, <2>1, <2>2
<1>5. CASE hw' = hw + s /\ UNCHANGED <<pend, raced>>
  <2>1. Base' = Base
    BY <1>2, <1>3, <1>5 DEF Base
  <2>2. hw' = hw + 1 \/ hw' = hw - 1
    BY <1>2, <1>5
  <2> QED
    BY <1>5, <2>1, <2>2
<1> QED
  BY <1>1, <1>4, <1>5

LEMMA AccumStep ==
    ASSUME EncTypes, IsrInv, AccumInv, [EncNext]_encVars
    PROVE  IsrInv' /\ AccumInv'
<1>a. Base \in Int /\ accum \in Int /\ isrAcc \in Int /\ pend \in Int
  BY BaseInt DEF EncTypes, EncValues
<1>1. ASSUME NEW d \in {1, -1}, Edge(d) PROVE IsrInv' /\ AccumInv'
  <2>1. UNCHANGED <<accum, isr, isrAcc, rst>>
    BY <1>1 DEF Edge, encIsr
  <2>2. CASE UNCHANGED <<pend, raced>> /\ Base' = Base
    BY <2>1, <2>2 DEF IsrInv, AccumInv
  <2>3. CASE /\ pend = 0 /\ pend' \in {LIMIT, -LIMIT} /\ Base' = Base + pend'
             /\ raced' = (raced \/ rst # "out")
    <3>1. pend' # 0 /\ pend' \in Int /\ isr = "out"
      BY <2>3, Sizes DEF IsrInv
    <3>2. ~raced' => ~raced /\ rst = "out"
      BY <2>3
    <3>3. ~raced' => accum' + pend' = Base'
      BY <1>a, <2>1, <2>3, <3>1, <3>2 DEF AccumInv
    <3> QED
      BY <2>1, <3>1, <3>2, <3>3 DEF IsrInv, AccumInv
  <2> QED
    BY <1>1, <2>2, <2>3, EdgeBase
<1>2. CASE UNCHANGED <<accum, isr, isrAcc, rst, pend, raced, hw, pos>>
  BY <1>2 DEF IsrInv, AccumInv, Base
<1>3. CASE CountCall \/ ReadHi0 \/ ReadHw \/ ReadLo1 \/ Return \/ CountRetry \/ Consume
  BY <1>2, <1>3 DEF CountCall, ReadHi0, ReadHw, ReadLo1, Return, CountRetry, Attempt, Consume,
                    encIsr
<1>4. CASE UNCHANGED encVars
  BY <1>2, <1>4 DEF encVars, encIsr
<1>5. CASE IsrLoad
  <2>1. Base' = Base /\ UNCHANGED <<accum, pend, raced, rst>>
    BY <1>5 DEF IsrLoad, Base
  <2>2. pend # 0 /\ isr = "out" /\ isr' = "loaded" /\ isrAcc' = accum
    BY <1>5 DEF IsrLoad
  <2>3. ~raced => rst # "half" /\ rst # "stored" /\ (rst = "out" => accum + pend = Base)
    BY <2>2 DEF AccumInv
  <2> QED
    BY <2>1, <2>2, <2>3 DEF IsrInv, AccumInv
<1>6. CASE IsrStoreLow
  <2>1. Base' = Base /\ UNCHANGED <<isrAcc, pend, raced, rst>>
    BY <1>6 DEF IsrStoreLow, Base
  <2>2. /\ isr = "loaded" /\ isr' = "half"
        /\ accum' = Lo(isrAcc + pend) + WORD * Hi(accum)
    BY <1>6 DEF IsrStoreLow
  <2>3. pend # 0
    BY <2>2 DEF IsrInv
  <2>4. ~raced => /\ rst # "half" /\ rst # "stored"
                  /\ rst = "out" => accum + pend = Base /\ isrAcc = accum
    BY <2>2, <2>3 DEF AccumInv
  <2> QED
    BY <2>1, <2>2, <2>3, <2>4 DEF IsrInv, AccumInv
<1>7. CASE IsrStoreHigh
  <2>1. Base' = Base /\ UNCHANGED <<raced, rst>> /\ pend' = 0 /\ isr' = "out"
    BY <1>7 DEF IsrStoreHigh, Base
  <2>2. isr = "half" /\ pend # 0
    BY <1>7 DEF IsrStoreHigh, IsrInv
  <2>3. ASSUME ~raced PROVE rst = "out" /\ accum' = Base
    <3>1. rst = "out"
      BY <2>2, <2>3 DEF AccumInv, EncTypes, EncPlaces
    <3>2. isrAcc + pend = Base /\ accum = Lo(isrAcc + pend) + WORD * Hi(isrAcc)
      BY <2>2, <2>3, <3>1 DEF AccumInv
    <3>3. Lo(Base) \in 0 .. WORD - 1 /\ Hi(isrAcc) \in Int
          /\ Base = Lo(Base) + WORD * Hi(Base)
      BY <1>a, Words
    <3>4. Lo(accum) = Lo(Base)
      BY <3>2, <3>3, WordsMake, Zenon
    <3>5. accum' = Lo(accum) + WORD * Hi(Base)
      BY <1>7, <3>2 DEF IsrStoreHigh
    <3> QED
      BY <3>1, <3>3, <3>4, <3>5
  <2> QED
    BY <1>a, <2>1, <2>3 DEF IsrInv, AccumInv
<1>8. CASE ResetLow
  <2>1. rst' = "half" /\ raced' = (pend # 0) /\ pend' = pend /\ accum' = WORD * Hi(accum)
        /\ isr' = isr
    BY <1>8 DEF ResetLow, encIsr
  <2>2. Lo(WORD * Hi(accum)) = 0
    <3>1. 0 \in 0 .. WORD - 1 /\ Hi(accum) \in Int /\ WORD * Hi(accum) \in Int
      BY <1>a, Words, Sizes
    <3>2. 0 + WORD * Hi(accum) = WORD * Hi(accum)
      BY <3>1
    <3>3. Lo(0 + WORD * Hi(accum)) = 0
      BY <3>1, WordsMake, Zenon
    <3> QED
      BY <3>2, <3>3
  <2> QED
    BY <2>1, <2>2 DEF IsrInv, AccumInv
<1>9. CASE ResetHigh
  <2>1. /\ rst = "half" /\ rst' = "stored" /\ accum' = Lo(accum)
        /\ UNCHANGED <<isr, pend, raced>>
    BY <1>9 DEF ResetHigh, encIsr
  <2> QED
    BY <2>1 DEF IsrInv, AccumInv
<1>10. CASE ClearCount
  <2>1. /\ rst = "stored" /\ rst' = "out" /\ hw' = 0 /\ pos' = 0
        /\ UNCHANGED <<accum, isr, pend, raced>>
    BY <1>10 DEF ClearCount, encIsr
  <2>2. Base' = 0
    BY <2>1, SignCases DEF Base
  <2>3. ~raced => isr = "out" /\ accum + pend = 0
    BY <2>1 DEF IsrInv, AccumInv
  <2> QED
    BY <2>1, <2>2, <2>3 DEF IsrInv, AccumInv
<1> QED
  BY <1>1, <1>3, <1>4, <1>5, <1>6, <1>7, <1>8, <1>9, <1>10 DEF EncNext

-----------------------------------------------------------------------------
(* A read                                                                    *)

Good    == ~raced /\ ~mixed
Reading == rpc \in {"hi0", "hw", "lo1", "hi1"}

\* Beside the interrupt, on core 0: accum stands still as long as no store has been seen,
\* and may be one limit behind.
BesideIsr ==
    /\ isr # "half"
    /\ rpc = "hi0" => a0 = Lo(accum)
    /\ rpc # "hi0" => a0 = accum
    /\ rpc \in {"lo1", "hi1"} => sign * seen - cur - accum \in Limits
    /\ rpc = "hi1" => a1 = Lo(accum)

\* Under the interrupt, on core 1: r, s, t and u are the rollover, if any, since the first
\* load, the second, the counter and the third.  A second rollover would take LIMIT counts.
Since(r, s) == s = 0 \/ s = r
UnderIsr(r, s, t, u) ==
    /\ r # 0 => hw < moved /\ -hw < moved
    /\ Since(r, s) /\ Since(s, t) /\ Since(t, u)
    /\ rpc = "hi0" => a0 = Lo(Base - r)
    /\ rpc # "hi0" => a0 = Lo(Base - r) + WORD * Hi(Base - s)
    /\ rpc \in {"lo1", "hi1"} => sign * seen - cur = Base - t
    /\ rpc = "hi1" => a1 = Lo(Base - u)
    /\ pend # 0 /\ rpc = "hi0" => r = pend
    /\ pend # 0 /\ rpc \in {"hw", "lo1"} => s = pend
    /\ pend # 0 /\ rpc = "hi1" => u = pend

ReadInv ==
    Good =>
      /\ rpc # "idle" => rst = "out"
      /\ Reading /\ core = 0 => BesideIsr
      /\ Reading /\ core = 1 => \E r, s, t, u \in Limits : UnderIsr(r, s, t, u)

\* Where a load is not interrupted accum is what it should be.
LEMMA SettledAccum ==
    ASSUME EncTypes, IsrInv, AccumInv, Good, rst = "out", pend = 0
    PROVE  accum = Base /\ accum \in Int /\ Base - 0 = Base
<1>1. isr = "out" /\ accum + pend = Base /\ accum \in Int
  BY DEF IsrInv, AccumInv, Good, EncTypes, EncValues
<1> QED
  BY <1>1, BaseInt

LEMMA ZeroIsLimit == 0 \in Limits
  BY DEF Limits

\* Whatever happens to accum before it, a first load starts a read.
LEMMA AttemptReads ==
    ASSUME EncTypes, IsrInv, AccumInv, NEW c \in {0, 1}, Attempt(c), c = 1 => pend = 0
    PROVE  ReadInv'
<1>1. SUFFICES ASSUME Good' PROVE ReadInv'
  BY DEF ReadInv
<1>2. /\ rpc' = "hi0" /\ core' = c /\ a0' = Lo(accum) /\ rst = "out" /\ rst' = "out"
      /\ isr # "half" /\ ~raced
      /\ UNCHANGED <<accum, isr, pend, pos, hw>>
  BY <1>1 DEF Attempt, Good, encIsr
<1>3. CASE c = 0
  <2>1. BesideIsr'
    BY <1>2 DEF BesideIsr
  <2> QED
    BY <1>2, <1>3, <2>1 DEF ReadInv
<1>4. CASE c = 1
  <2>1. accum = Base /\ Base - 0 = Base /\ Base' = Base
    <3>1. accum + pend = Base /\ accum \in Int
      BY <1>2 DEF AccumInv, EncTypes, EncValues
    <3>2. pend = 0
      BY <1>4
    <3>3. Base' = Base
      BY <1>2 DEF Base
    <3> QED
      BY <3>1, <3>2, <3>3, BaseInt
  <2>2. UnderIsr(0, 0, 0, 0)'
    BY <1>2, <1>4, <2>1 DEF UnderIsr, Since
  <2>3. \E r, s, t, u \in Limits : UnderIsr(r, s, t, u)'
    BY <2>2, ZeroIsLimit, Zenon
  <2> QED
    BY <1>2, <1>4, <2>3 DEF ReadInv
<1> QED
  BY <1>3, <1>4

\* Turning the wheel: a first rollover since the read began takes the base with it, and
\* there is no second one.
LEMMA EdgeReads ==
    ASSUME EncTypes, ReadInv, NEW d \in {1, -1}, Edge(d)
    PROVE  ReadInv'
<1>1. UNCHANGED <<accum, isr, rpc, core, a0, cur, a1, got, seen, rst, mixed>>
  BY DEF Edge, encIsr, encReader
<1>2. SUFFICES ASSUME Good', rpc # "idle" PROVE ReadInv'
  BY <1>1 DEF ReadInv, Reading
<1>3. moved < LIMIT - 1 /\ moved' = moved + 1 /\ moved \in Nat
  BY <1>2, Sizes DEF Edge, EncTypes, EncCounts
<1>4. Good /\ rst = "out"
  BY <1>1, <1>2, EdgeBase DEF Good, ReadInv
<1>5. Reading /\ core = 0 => BesideIsr'
  BY <1>1, <1>4 DEF ReadInv, BesideIsr
<1>6. ASSUME Reading, core = 1 PROVE \E r, s, t, u \in Limits : UnderIsr(r, s, t, u)'
  <2>1. PICK r, s, t, u \in Limits : UnderIsr(r, s, t, u)
    BY <1>4, <1>6, Zenon DEF ReadInv
  <2>2. Base \in Int /\ hw \in Int
    BY BaseInt
  <2>3. CASE UNCHANGED pend /\ Base' = Base /\ (hw' = hw + 1 \/ hw' = hw - 1)
    <3>1. hw < moved /\ -hw < moved => hw' < moved' /\ -hw' < moved'
      BY <1>3, <2>2, <2>3
    <3>2. UnderIsr(r, s, t, u)'
      BY <1>1, <2>1, <2>3, <3>1, Zenon DEF UnderIsr
    <3> QED
      BY <3>2
  <2>4. CASE /\ pend' \in {LIMIT, -LIMIT} /\ Base' = Base + pend' /\ hw' = 0
             /\ (pend' = hw + 1 \/ pend' = hw - 1)
    <3>1. pend' \in Int /\ pend' \in Limits /\ pend' # 0
      BY <2>4, Sizes DEF Limits
    <3>2. ~(hw < moved /\ -hw < moved)
      BY <1>3, <2>2, <2>4, Sizes
    <3>3. r = 0 /\ s = 0 /\ t = 0 /\ u = 0
      <4>1. r = 0
        BY <2>1, <3>2, Zenon DEF UnderIsr
      <4>2. Since(r, s) /\ Since(s, t) /\ Since(t, u)
        BY <2>1, Zenon DEF UnderIsr
      <4> QED
        BY <4>1, <4>2 DEF Since
    <3>4. Base' - pend' = Base /\ Base - 0 = Base
      <4>1. \A b, p \in Int : (b + p) - p = b /\ b - 0 = b
        OBVIOUS
      <4> QED
        BY <2>2, <2>4, <3>1, <4>1, Zenon
    <3>5. hw' < moved' /\ -hw' < moved'
      BY <1>3, <2>4
    <3>6. UnderIsr(pend, pend, pend, pend)'
      BY <1>1, <2>1, <3>3, <3>4, <3>5, Zenon DEF UnderIsr, Since
    <3> QED
      BY <3>1, <3>6, Zenon
  <2> QED
    BY <2>3, <2>4, EdgeBase
<1> QED
  BY <1>1, <1>4, <1>5, <1>6, Zenon DEF ReadInv, Reading

\* The interrupt: what it changes, a reader on core 1 does not see until it is over.
LEMMA IsrReads ==
    ASSUME EncTypes, ReadInv, IsrLoad \/ IsrStoreLow \/ IsrStoreHigh
    PROVE  ReadInv'
<1>1. UNCHANGED <<hw, pos, rpc, core, a0, cur, a1, seen, moved, rst, raced>> /\ Base' = Base
  BY DEF IsrLoad, IsrStoreLow, IsrStoreHigh, encReader, Base
<1>2. SUFFICES ASSUME Good' PROVE ReadInv'
  BY DEF ReadInv
<1>3. Good
  <2>1. mixed => mixed'
    BY Zenon DEF IsrLoad, IsrStoreLow, IsrStoreHigh
  <2> QED
    BY <1>1, <1>2, <2>1 DEF Good
<1>4. Reading /\ core = 0 => BesideIsr'
  <2>1. SUFFICES ASSUME Reading, core = 0 PROVE BesideIsr'
    OBVIOUS
  <2>2. BesideIsr /\ rpc # "idle"
    BY <1>3, <2>1 DEF ReadInv, Reading
  <2>3. accum' = accum /\ isr' # "half"
    BY <1>2, <2>1, <2>2 DEF BesideIsr, Good, IsrLoad, IsrStoreLow, IsrStoreHigh
  <2> QED
    BY <1>1, <2>2, <2>3 DEF BesideIsr
<1>5. ASSUME Reading, core = 1 PROVE \E r, s, t, u \in Limits : UnderIsr(r, s, t, u)'
  <2>1. PICK r, s, t, u \in Limits : UnderIsr(r, s, t, u)
    BY <1>3, <1>5, Zenon DEF ReadInv
  <2>2. pend' = pend \/ pend' = 0
    BY DEF IsrLoad, IsrStoreLow, IsrStoreHigh
  <2>3. UnderIsr(r, s, t, u)'
    BY <1>1, <2>1, <2>2, Zenon DEF UnderIsr
  <2> QED
    BY <2>3
<1> QED
  BY <1>1, <1>3, <1>4, <1>5, Zenon DEF ReadInv, Reading

\* The loads in turn.
LEMMA LoadsRead ==
    ASSUME EncTypes, IsrInv, AccumInv, ReadInv, ReadHi0 \/ ReadHw \/ ReadLo1
    PROVE  ReadInv'
<1>1. UNCHANGED <<hw, pend, accum, isr, pos, core, moved, rst, raced, mixed>> /\ Base' = Base
      /\ Reading
  BY DEF ReadHi0, ReadHw, ReadLo1, encIsr, Base, Reading
<1>2. SUFFICES ASSUME Good PROVE ReadInv'
  BY <1>1 DEF ReadInv, Good
<1>3. rst = "out" /\ accum \in Int
  BY <1>1, <1>2 DEF ReadInv, Reading, EncTypes, EncValues
<1>4. accum = Lo(accum) + WORD * Hi(accum)
  BY <1>3, Words
<1>5. ASSUME core = 0 PROVE BesideIsr'
  <2>1. BesideIsr
    BY <1>1, <1>2, <1>5 DEF ReadInv
  <2>2. CASE ReadHi0
    BY <1>1, <1>4, <2>1, <2>2 DEF ReadHi0, BesideIsr
  <2>3. CASE ReadHw
    <3>1. accum + pend = Base /\ pend \in Limits /\ pend \in Int /\ Base \in Int
      BY <1>2, <1>3, <2>1, BaseInt DEF AccumInv, BesideIsr, Good, EncTypes, EncCounts
    <3>2. sign * seen' - cur' = Base
      BY <2>3 DEF ReadHw, Base
    <3>3. sign * seen' - cur' - accum \in Limits
      BY <1>3, <3>1, <3>2
    <3> QED
      BY <1>1, <2>1, <2>3, <3>3 DEF ReadHw, BesideIsr
  <2>4. CASE ReadLo1
    BY <1>1, <2>1, <2>4 DEF ReadLo1, BesideIsr
  <2> QED
    BY <2>2, <2>3, <2>4
<1>6. ASSUME core = 1 PROVE \E r, s, t, u \in Limits : UnderIsr(r, s, t, u)'
  <2>1. PICK r, s, t, u \in Limits : UnderIsr(r, s, t, u)
    BY <1>1, <1>2, <1>6, Zenon DEF ReadInv
  <2>2. CASE ReadHi0
    <3>1. pend = 0 /\ accum = Base /\ Base - 0 = Base
      BY <1>2, <1>3, <1>6, <2>2, SettledAccum DEF ReadHi0, Uninterrupted
    <3>2. rpc = "hi0" /\ rpc' = "hw" /\ a0' = a0 + WORD * Hi(accum)
      BY <2>2 DEF ReadHi0
    <3>3. UnderIsr(r, 0, 0, 0)'
      BY <1>1, <2>1, <3>1, <3>2 DEF UnderIsr, Since
    <3> QED
      BY <3>3, ZeroIsLimit, Zenon
  <2>3. CASE ReadHw
    <3>1. rpc = "hw" /\ rpc' = "lo1" /\ sign * seen' - cur' = Base /\ a0' = a0
      BY <2>3 DEF ReadHw, Base
    <3>2. Base - 0 = Base
      BY BaseInt
    <3>3. UnderIsr(r, s, 0, 0)'
      BY <1>1, <2>1, <3>1, <3>2 DEF UnderIsr, Since
    <3> QED
      BY <3>3, ZeroIsLimit, Zenon
  <2>4. CASE ReadLo1
    <3>1. pend = 0 /\ accum = Base /\ Base - 0 = Base
      BY <1>2, <1>3, <1>6, <2>4, SettledAccum DEF ReadLo1, Uninterrupted
    <3>2. rpc = "lo1" /\ rpc' = "hi1" /\ a1' = Lo(accum) /\ UNCHANGED <<a0, cur, seen>>
      BY <2>4 DEF ReadLo1
    <3>3. UnderIsr(r, s, t, 0)'
      BY <1>1, <2>1, <3>1, <3>2 DEF UnderIsr, Since
    <3> QED
      BY <3>3, ZeroIsLimit, Zenon
  <2> QED
    BY <2>2, <2>3, <2>4
<1>7. Reading' => Reading
  BY <1>1
<1> QED
  BY <1>1, <1>3, <1>5, <1>6, Zenon DEF ReadInv

\* Everything else ends a read or spoils it.
LEMMA ReadStep ==
    ASSUME EncTypes, IsrInv, AccumInv, ReadInv, [EncNext]_encVars
    PROVE  ReadInv'
<1>1. CASE \E d \in {1, -1} : Edge(d)
  BY <1>1, EdgeReads
<1>2. CASE IsrLoad \/ IsrStoreLow \/ IsrStoreHigh
  BY <1>2, IsrReads
<1>3. CASE CountCall
  BY <1>3, AttemptReads DEF CountCall
<1>4. CASE CountRetry
  BY <1>4, AttemptReads DEF CountRetry, Uninterrupted, EncTypes, EncPlaces
<1>5. CASE ReadHi0 \/ ReadHw \/ ReadLo1
  BY <1>5, LoadsRead
<1>6. CASE Return
  BY <1>6 DEF Return, ReadInv, Good, Reading
<1>7. CASE Consume
  BY <1>7 DEF Consume, ReadInv, Reading
<1>8. CASE ResetLow
  BY <1>8 DEF ResetLow, encReader, ReadInv, Good, Reading
<1>9. CASE ResetHigh \/ ClearCount
  BY <1>9 DEF ResetHigh, ClearCount, encReader, ReadInv, Good, Reading
<1>10. CASE UNCHANGED encVars
  <2>1. Base' = Base /\ Good' = Good /\ Reading' = Reading /\ BesideIsr' = BesideIsr
    <3>1. UNCHANGED <<hw, pos, raced, mixed, rpc, isr, a0, a1, accum, cur, seen>>
      BY <1>10, Zenon DEF encVars, encIsr, encReader
    <3> QED
      BY <3>1 DEF Base, Good, Reading, BesideIsr
  <2>2. ASSUME NEW r \in Limits, NEW s \in Limits, NEW t \in Limits, NEW u \in Limits,
               UnderIsr(r, s, t, u)
        PROVE  UnderIsr(r, s, t, u)'
    <3>1. UNCHANGED <<hw, moved, rpc, a0, a1, cur, seen, pend>>
      BY <1>10, Zenon DEF encVars, encReader
    <3> QED
      BY <2>1, <2>2, <3>1, Zenon DEF UnderIsr
  <2>3. (\E r, s, t, u \in Limits : UnderIsr(r, s, t, u))
          => \E r, s, t, u \in Limits : UnderIsr(r, s, t, u)'
    BY <2>2, Zenon
  <2>4. UNCHANGED <<rpc, rst, core>>
    BY <1>10, Zenon DEF encVars, encReader
  <2> QED
    BY <2>1, <2>3, <2>4, Zenon DEF ReadInv
<1> QED
  BY <1>1, <1>2, <1>3, <1>4, <1>5, <1>6, <1>7, <1>8, <1>9, <1>10 DEF EncNext

\* The value handed out is the one at the counter's reading: the low words agree only if
\* no rollover ended between the two loads.
LEMMA ReturnIsExact ==
    ASSUME EncTypes, IsrInv, AccumInv, ReadInv, Good, Return
    PROVE  CountIsExact'
<1>1. /\ rpc = "hi1" /\ Reading /\ Agree /\ got' = sign * (a0 + cur) /\ rpc' = "got"
      /\ UNCHANGED <<seen, core>>
  BY DEF Return, Reading
<1>2. accum \in Int /\ a0 \in Int /\ cur \in Int /\ seen \in Int /\ sign * seen \in Int
      /\ Base \in Int /\ rst = "out"
  <2>1. accum \in Int /\ a0 \in Int /\ seen \in Int
    BY DEF EncTypes, EncValues
  <2>2. sign * seen \in Int
    BY <2>1, SignCases
  <2> QED
    BY <1>1, <2>1, <2>2, BaseInt DEF ReadInv
<1>3. CASE core = 0
  <2>1. BesideIsr
    BY <1>1, <1>3 DEF ReadInv
  <2>2. PICK l \in Limits : sign * seen - cur - accum = l
    BY <1>1, <2>1 DEF BesideIsr
  <2>3. got' = sign * (sign * seen - l)
    <3>1. a0 + cur = sign * seen - l
      BY <1>1, <1>2, <2>1, <2>2, LimitsAreInt DEF BesideIsr
    <3> QED
      BY <1>1, <3>1
  <2>4. got' \in {seen, seen - LIMIT, seen + LIMIT}
    BY <1>2, <2>2, <2>3, SignCases, Sizes DEF Limits
  <2> QED
    BY <1>1, <1>3, <2>4 DEF CountIsExact
<1>4. CASE core = 1
  <2>1. PICK r, s, t, u \in Limits : UnderIsr(r, s, t, u)
    BY <1>1, <1>4, Zenon DEF ReadInv
  <2>2. pend = 0 /\ accum = Base /\ Base - 0 = Base
    BY <1>2, <1>4, SettledAccum DEF Return, Uninterrupted
  <2>3. r \in Int /\ s \in Int /\ t \in Int /\ u \in Int
    BY LimitsAreInt
  <2>4. /\ Lo(Base - r) \in 0 .. WORD - 1 /\ Lo(Base - u) \in 0 .. WORD - 1
        /\ Hi(Base - s) \in Int /\ Hi(Base) \in Int
    BY <1>2, <2>3, Words
  <2>5. Lo(Base - r) + WORD * Hi(Base - s) = Lo(Base - u) + WORD * Hi(Base)
    BY <1>1, <2>1, <2>2 DEF UnderIsr, Agree
  <2>6. Lo(Base - r) = Lo(Base - u)
    BY <2>4, <2>5, WordsDiffer
  <2>7. (r = 0 <=> u = 0)
    <3>1. CASE r = 0 /\ u # 0
      BY <1>2, <2>2, <2>6, <3>1, RolloverShows DEF Limits
    <3>2. CASE u = 0 /\ r # 0
      BY <1>2, <2>2, <2>6, <3>2, RolloverShows DEF Limits
    <3> QED
      BY <3>1, <3>2
  <2>8. s = r /\ t = r
    BY <2>1, <2>7 DEF UnderIsr, Since
  <2>9. a0 = Base - r
    <3>1. Base - r \in Int
      BY <1>2, <2>3
    <3>2. Base - r = Lo(Base - r) + WORD * Hi(Base - r)
      BY <3>1, Words
    <3> QED
      BY <1>1, <2>1, <2>8, <3>2 DEF UnderIsr
  <2>10. a0 + cur = sign * seen
    <3>1. sign * seen - cur = a0
      BY <1>1, <2>1, <2>8, <2>9 DEF UnderIsr
    <3> QED
      BY <1>2, <3>1
  <2>11. got' = seen
    BY <1>1, <1>2, <2>10, SignCases
  <2> QED
    BY <1>1, <1>4, <2>11 DEF CountIsExact
<1> QED
  BY <1>3, <1>4 DEF EncTypes, EncPlaces

LEMMA ExactStep ==
    ASSUME EncTypes, IsrInv, AccumInv, ReadInv, CountIsExact, [EncNext]_encVars
    PROVE  CountIsExact'
<1>1. CASE Return
  <2>1. CASE Good
    BY <1>1, <2>1, ReturnIsExact
  <2>2. CASE ~Good
    BY <1>1, <2>2 DEF Return, Good, CountIsExact
  <2> QED
    BY <2>1, <2>2
<1>2. CASE rpc' # "got"
  BY <1>2 DEF CountIsExact
<1>3. CASE \E d \in {1, -1} : Edge(d)
  <2>1. UNCHANGED <<rpc, core, got, seen, mixed>> /\ (raced => raced')
    BY <1>3, EdgeBase DEF Edge, encReader
  <2>2. CASE raced'
    BY <2>2, Zenon DEF CountIsExact
  <2>3. CASE ~raced
    BY <2>1, <2>3, Zenon DEF CountIsExact
  <2> QED
    BY <2>1, <2>2, <2>3, Zenon
<1>4. CASE IsrLoad \/ IsrStoreLow \/ IsrStoreHigh \/ ResetHigh \/ ClearCount
  <2>1. UNCHANGED <<rpc, core, got, seen, raced>>
    BY <1>4 DEF IsrLoad, IsrStoreLow, IsrStoreHigh, ResetHigh, ClearCount, encReader
  <2>2. mixed => mixed'
    BY <1>4, Zenon DEF IsrLoad, IsrStoreLow, IsrStoreHigh, ResetHigh, ClearCount
  <2> QED
    BY <2>1, <2>2, Zenon DEF CountIsExact
<1>5. CASE ResetLow
  BY <1>5 DEF ResetLow, encReader, CountIsExact
<1>6. CASE CountCall \/ ReadHi0 \/ ReadHw \/ ReadLo1 \/ CountRetry \/ Consume
  BY <1>2, <1>6 DEF CountCall, ReadHi0, ReadHw, ReadLo1, CountRetry, Consume, Attempt
<1>7. CASE UNCHANGED encVars
  BY <1>7 DEF encVars, encReader, CountIsExact
<1> QED
  BY <1>1, <1>3, <1>4, <1>5, <1>6, <1>7 DEF EncNext

EncInv == EncTypes /\ IsrInv /\ AccumInv /\ ReadInv /\ CountIsExact

LEMMA InitEncInv == EncInit => EncInv
<1> SUFFICES ASSUME EncInit PROVE EncInv
  OBVIOUS
<1>1. Base = 0
  BY SignCases DEF EncInit, Base
<1>2. IsrInv /\ AccumInv
  BY <1>1 DEF EncInit, IsrInv, AccumInv
<1>3. ReadInv /\ CountIsExact
  BY DEF EncInit, ReadInv, Reading, CountIsExact
<1> QED
  BY <1>2, <1>3, InitEncTypes DEF EncInv

LEMMA EncStep == EncInv /\ [EncNext]_encVars => EncInv'
  BY EncTypesStep, AccumStep, ReadStep, ExactStep DEF EncInv

LEMMA EncTyped == EncTypes => EncTypeOK
  BY DEF EncTypes, EncFlags, EncPlaces, EncCounts, EncValues, Limits, EncTypeOK

\* Whatever counts, interrupts and retries fall between its four loads, encoder_count on
\* the interrupt's core returns the position at the moment it read the counter, and on the
\* other core one limit away at most (encoders.c:103-127), for any counter limit that shows
\* in the low word, unless a reset meets a rollover or a store meets the read.
THEOREM ExactCount == EncSpec => []CountIsExact
<1>1. EncInv => CountIsExact
  BY DEF EncInv
<1> QED
  BY InitEncInv, EncStep, <1>1, PTL DEF EncSpec
=============================================================================
