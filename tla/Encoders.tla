------------------------------ MODULE Encoders ------------------------------
(* One quadrature encoder (firmware/main/encoders.c): a hardware counter that *)
(* wraps to 0 at +/-LIMIT, an interrupt on core 1 that folds the limit into a *)
(* 64-bit accumulator, a reader that adds the two without a lock, and a reset *)
(* from core 0.  A 64-bit value is loaded and stored in two words of WORD      *)
(* values, low word first; nothing below depends on that order.              *)
EXTENDS Integers

CONSTANTS
    LIMIT,      \* ENC_PCNT_HIGH
    WORD,       \* values of one machine word
    Mirrored,   \* the wheel is mounted the other way round (ENC_L_SIGN)
    MaxTravel,  \* bounds on the position, forward
    MaxBack,    \* and back
    MaxResets   \* bound on the calls of encoder_reset

\* A rollover is seen in the low word (30000 and 2^32 in the code).
ASSUME EncodersAssumption ==
    /\ LIMIT \in Nat /\ WORD \in Nat /\ WORD > 1 /\ LIMIT > 1 /\ LIMIT % WORD # 0
    /\ Mirrored \in BOOLEAN /\ {MaxTravel, MaxBack, MaxResets} \subseteq Nat

sign == IF Mirrored THEN -1 ELSE 1

VARIABLES
    hw, pend,      \* the counter, and the limit whose interrupt is pending (or 0)
    accum,         \* encoder_t.accum
    isr, isrAcc,   \* enc_on_reach: "out", "loaded" accum, "half" stored; what it loaded
    pos,           \* the position since the last reset, which nobody can read
    rpc, core,     \* where encoder_count is, and on which core it runs
    a0, cur, a1,   \* its locals, words loaded so far
    got, seen,     \* what it returned, and the position when it read the counter
    moved,         \* edges since it began this attempt
    rst, resets,   \* encoder_reset: "out", "half" stored accum, "stored" it
    raced, mixed   \* a rollover met the last reset; a store of core 0, or one of core 1
                   \* under a read on core 0, met this read

encReader == <<rpc, core, a0, cur, a1, got, seen>>
encIsr    == <<isr, isrAcc>>
encVars   == <<hw, pend, accum, encIsr, pos, encReader, moved, rst, resets, raced, mixed>>

Lo(x) == x % WORD
Hi(x) == x \div WORD

EncInit ==
    /\ hw = 0 /\ pend = 0 /\ accum = 0 /\ isr = "out" /\ isrAcc = 0 /\ pos = 0
    /\ rpc = "idle" /\ core = 1 /\ a0 = 0 /\ cur = 0 /\ a1 = 0 /\ got = 0 /\ seen = 0
    /\ moved = 0 /\ rst = "out" /\ resets = 0 /\ raced = FALSE /\ mixed = FALSE

-----------------------------------------------------------------------------
\* The wheel turns by one count.  At a limit the counter restarts at 0 and raises
\* its event; the next limit is LIMIT counts away, far longer than the interrupt
\* is pending, and no attempt to read sees LIMIT counts go by.
Edge(d) ==
    /\ pos + d \in -MaxBack .. MaxTravel
    /\ rpc # "idle" => moved < LIMIT - 1
    /\ LET h == hw + sign * d IN
         IF h \in {LIMIT, -LIMIT}
           THEN /\ pend = 0
                /\ hw' = 0 /\ pend' = h /\ raced' = (raced \/ rst # "out")
           ELSE /\ hw' = h /\ UNCHANGED <<pend, raced>>
    /\ pos' = pos + d
    /\ moved' = IF rpc = "idle" THEN 0 ELSE moved + 1
    /\ UNCHANGED <<accum, encIsr, encReader, rst, resets, mixed>>

\* enc_on_reach adds the watch point to accum: a load and two stores.
IsrLoad ==
    /\ pend # 0 /\ isr = "out"
    /\ isr' = "loaded" /\ isrAcc' = accum
    /\ UNCHANGED <<hw, pend, accum, pos, encReader, moved, rst, resets, raced, mixed>>

IsrStoreLow ==
    /\ isr = "loaded" /\ isr' = "half"
    /\ accum' = Lo(isrAcc + pend) + WORD * Hi(accum)
    /\ mixed' = (mixed \/ (rpc # "idle" /\ core = 0))
    /\ UNCHANGED <<hw, pend, isrAcc, pos, encReader, moved, rst, resets, raced>>

IsrStoreHigh ==
    /\ isr = "half"
    /\ accum' = Lo(accum) + WORD * Hi(isrAcc + pend)
    /\ pend' = 0 /\ isr' = "out" /\ isrAcc' = 0
    /\ UNCHANGED <<hw, pos, encReader, moved, rst, resets, raced, mixed>>

-----------------------------------------------------------------------------
\* A reader on core 1 is interrupted before its next load of accum; one on core 0
\* runs beside the interrupt.
Uninterrupted == core = 1 => pend = 0

\* encoder_count begins, or begins again: the low word of a0.
Attempt(c) ==
    /\ core' = c /\ a0' = Lo(accum) /\ moved' = 0 /\ rpc' = "hi0"
    /\ mixed' = (rst # "out" \/ isr = "half")
    /\ UNCHANGED <<hw, pend, accum, encIsr, pos, cur, a1, got, seen, rst, resets, raced>>

CountCall == rpc = "idle" /\ \E c \in {0, 1} : (c = 1 => pend = 0) /\ Attempt(c)

ReadHi0 ==
    /\ rpc = "hi0" /\ Uninterrupted
    /\ a0' = a0 + WORD * Hi(accum) /\ rpc' = "hw"
    /\ UNCHANGED <<hw, pend, accum, encIsr, pos, core, cur, a1, got, seen, moved, rst,
                   resets, raced, mixed>>

\* pcnt_unit_get_count reads the counter with interrupts masked: it may have
\* wrapped with the event still pending.
ReadHw ==
    /\ rpc = "hw" /\ (core = 1 => isr = "out")
    /\ cur' = hw /\ seen' = pos /\ rpc' = "lo1"
    /\ UNCHANGED <<hw, pend, accum, encIsr, pos, core, a0, a1, got, moved, rst, resets,
                   raced, mixed>>

ReadLo1 ==
    /\ rpc = "lo1" /\ Uninterrupted
    /\ a1' = Lo(accum) /\ rpc' = "hi1"
    /\ UNCHANGED <<hw, pend, accum, encIsr, pos, core, a0, cur, got, seen, moved, rst,
                   resets, raced, mixed>>

\* Wrong variant of Agree: accum is not read again after the counter.
AgreeNoRecheck == TRUE

\* The second load ends; on a difference the loop starts over.
Agree == a0 = a1 + WORD * Hi(accum)

Return ==
    /\ rpc = "hi1" /\ Uninterrupted /\ Agree
    /\ got' = sign * (a0 + cur) /\ rpc' = "got"
    /\ a0' = 0 /\ cur' = 0 /\ a1' = 0
    /\ UNCHANGED <<hw, pend, accum, encIsr, pos, core, seen, moved, rst, resets, raced,
                   mixed>>

CountRetry == rpc = "hi1" /\ Uninterrupted /\ ~Agree /\ Attempt(core)

Consume ==
    /\ rpc = "got"
    /\ rpc' = "idle" /\ got' = 0 /\ seen' = 0
    /\ moved' = 0 /\ mixed' = FALSE /\ core' = 1
    /\ UNCHANGED <<hw, pend, accum, encIsr, pos, a0, cur, a1, rst, resets, raced>>

\* encoder_reset on core 0: accum first, the counter after it.
ResetLow ==
    /\ rst = "out" /\ resets < MaxResets
    /\ accum' = WORD * Hi(accum) /\ rst' = "half" /\ resets' = resets + 1
    /\ raced' = (pend # 0) /\ mixed' = (rpc # "idle")
    /\ UNCHANGED <<hw, pend, encIsr, pos, encReader, moved>>

ResetHigh ==
    /\ rst = "half"
    /\ accum' = Lo(accum) /\ rst' = "stored"
    /\ UNCHANGED <<hw, pend, encIsr, pos, encReader, moved, resets, raced, mixed>>

ClearCount ==
    /\ rst = "stored"
    /\ hw' = 0 /\ pos' = 0 /\ rst' = "out"
    /\ UNCHANGED <<pend, accum, encIsr, encReader, moved, resets, raced, mixed>>

EncNext ==
    \/ \E d \in {1, -1} : Edge(d)
    \/ IsrLoad \/ IsrStoreLow \/ IsrStoreHigh
    \/ CountCall \/ ReadHi0 \/ ReadHw \/ ReadLo1 \/ Return \/ CountRetry \/ Consume
    \/ ResetLow \/ ResetHigh \/ ClearCount

EncSpec == EncInit /\ [][EncNext]_encVars

-----------------------------------------------------------------------------
EncTypeOK ==
    /\ hw \in -LIMIT + 1 .. LIMIT - 1 /\ pend \in {-LIMIT, 0, LIMIT}
    /\ pos \in -MaxBack .. MaxTravel /\ moved \in 0 .. LIMIT
    /\ {accum, isrAcc, a0, a1, got, seen} \subseteq Int /\ cur \in -LIMIT + 1 .. LIMIT - 1
    /\ rpc \in {"idle", "hi0", "hw", "lo1", "hi1", "got"} /\ core \in {0, 1}
    /\ isr \in {"out", "loaded", "half"} /\ rst \in {"out", "half", "stored"}
    /\ {raced, mixed} \subseteq BOOLEAN /\ resets \in 0 .. MaxResets

\* What encoder_count returns is the position at the moment it read the counter, on
\* core 1, where the rollover interrupt runs.  On core 0 it may be one limit off, an
\* interrupt pending, and never more (encoders.c:103-104 promise it for both).
\* Excluded: a read that a store of the other core cuts into, and a reset that meets a
\* rollover; neither is guarded, and both may leave any value.
CountIsExact ==
    (rpc = "got" /\ ~raced /\ ~mixed) =>
        IF core = 1 THEN got = seen ELSE got \in {seen, seen - LIMIT, seen + LIMIT}

\* "so we never mix an old accum with a new count" (encoders.c:103-104), on either core
\* and with the same reads and resets excluded.
NeverMixed == (rpc = "got" /\ ~raced /\ ~mixed) => got = seen
=============================================================================
