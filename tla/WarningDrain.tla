---------------------------- MODULE WarningDrain ----------------------------
(* How the reporter drains the warning counters the real-time tasks keep     *)
(* (control.c:728-815): motor_task and imu_task on core 1 add to plain       *)
(* volatile counters, the reporter on core 0 reads them, clears them and     *)
(* broadcasts one message per group.  An addition is a load and a store.     *)
(*                                                                           *)
(* Group "motor" (out-of-range and missed ticks; the over-budget and dropped *)
(* batch counters are treated like it) is cleared only when something was    *)
(* counted; group "imu" (missed and stale ticks) is cleared every time.      *)
EXTENDS Naturals

CONSTANTS
    Kinds,     \* counters of a group
    NoKind,    \* no addition is under way
    MaxEvents  \* bound on violations that happen in a group

DrainAssumption == Kinds # {} /\ NoKind \notin Kinds /\ MaxEvents \in Nat

Groups == {"motor", "imu"}

VARIABLES
    s_warn_count, \* with s_motor_missed, s_imu_missed, s_imu_stale_count beside it
    adding,    \* per group, the counter its task is adding to, or NoKind
    load,      \* per group, the value the task has loaded
    rpc,       \* reporter: "wait", "read" or "clear"
    group,     \* the group it is at
    left,      \* counters of it still to be read or cleared
    seen,      \* what it read
    happened,  \* history: violations, per group
    owed       \* history: groups with a violation since their last broadcast

tasks    == <<adding, load, happened>>
reporter == <<rpc, group, left, seen>>
vars     == <<s_warn_count, tasks, reporter, owed>>

Init ==
    /\ s_warn_count = [g \in Groups |-> [k \in Kinds |-> 0]]
    /\ adding = [g \in Groups |-> NoKind] /\ load = [g \in Groups |-> 0]
    /\ rpc = "wait" /\ group = "motor" /\ left = {} /\ seen = [k \in Kinds |-> 0]
    /\ happened = [g \in Groups |-> 0] /\ owed = {}

-----------------------------------------------------------------------------
(* motor_task, imu_task: one violation is one addition to a counter          *)

Load(g, k) ==
    /\ adding[g] = NoKind /\ happened[g] < MaxEvents
    /\ adding' = [adding EXCEPT ![g] = k]
    /\ load' = [load EXCEPT ![g] = s_warn_count[g][k]]
    /\ UNCHANGED <<s_warn_count, happened, reporter, owed>>

\* Wrong variant of Add: what was loaded is stored back.
AddNothing(g, k) ==
    /\ adding[g] = k
    /\ s_warn_count' = [s_warn_count EXCEPT ![g][k] = load[g]]
    /\ adding' = [adding EXCEPT ![g] = NoKind]
    /\ happened' = [happened EXCEPT ![g] = @ + 1] /\ owed' = owed \cup {g}
    /\ UNCHANGED <<load, reporter>>

Add(g, k) ==
    /\ adding[g] = k
    /\ s_warn_count' = [s_warn_count EXCEPT ![g][k] = load[g] + 1]
    /\ adding' = [adding EXCEPT ![g] = NoKind]
    /\ happened' = [happened EXCEPT ![g] = @ + 1] /\ owed' = owed \cup {g}
    /\ UNCHANGED <<load, reporter>>

-----------------------------------------------------------------------------
(* emit_pending_warning                                                      *)

Enter ==
    /\ rpc = "wait"
    /\ rpc' = "read" /\ group' = "motor" /\ left' = Kinds
    /\ UNCHANGED <<s_warn_count, tasks, seen, owed>>

Read(k) ==
    /\ rpc = "read" /\ k \in left
    /\ seen' = [seen EXCEPT ![k] = s_warn_count[group][k]]
    /\ left' = left \ {k}
    /\ UNCHANGED <<s_warn_count, tasks, rpc, group, owed>>

Nothing == \A k \in Kinds : seen[k] = 0

\* On to the next group, or back to the caller.
GoOn ==
    /\ rpc' = IF group = "motor" THEN "read" ELSE "wait"
    /\ left' = IF group = "motor" THEN Kinds ELSE {}
    /\ group' = "imu"

\* Only the motor group is looked at before it is cleared.
SkipClear ==
    /\ rpc = "read" /\ left = {} /\ group = "motor" /\ Nothing
    /\ GoOn
    /\ UNCHANGED <<s_warn_count, tasks, seen, owed>>

StartClear ==
    /\ rpc = "read" /\ left = {} /\ ~(group = "motor" /\ Nothing)
    /\ rpc' = "clear" /\ left' = Kinds
    /\ UNCHANGED <<s_warn_count, tasks, group, seen, owed>>

Clear(k) ==
    /\ rpc = "clear" /\ k \in left
    /\ s_warn_count' = [s_warn_count EXCEPT ![group][k] = 0]
    /\ left' = left \ {k}
    /\ UNCHANGED <<tasks, rpc, group, seen, owed>>

\* Wrong variant of Say: the message is sent only when every counter moved.
SayBoth ==
    /\ rpc = "clear" /\ left = {}
    /\ owed' = IF \E k \in Kinds : seen[k] = 0 THEN owed ELSE owed \ {group}
    /\ GoOn
    /\ UNCHANGED <<s_warn_count, tasks, seen>>

\* The message, if there is anything to say.
Say ==
    /\ rpc = "clear" /\ left = {}
    /\ owed' = IF Nothing THEN owed ELSE owed \ {group}
    /\ GoOn
    /\ UNCHANGED <<s_warn_count, tasks, seen>>

Report ==
    \/ Enter \/ SkipClear \/ StartClear \/ Say
    \/ \E k \in Kinds : Read(k) \/ Clear(k)

Next ==
    \/ \E g \in Groups, k \in Kinds : Load(g, k) \/ Add(g, k)
    \/ Report

Spec == Init /\ [][Next]_vars

\* The reporter runs, and a core-1 task finishes the addition it is in.
FairSpec ==
    /\ Spec /\ WF_vars(Report)
    /\ \A g \in Groups : WF_vars(\E k \in Kinds : Add(g, k))

-----------------------------------------------------------------------------
TypeOK ==
    /\ s_warn_count \in [Groups -> [Kinds -> Nat]]
    /\ adding \in [Groups -> Kinds \cup {NoKind}] /\ load \in [Groups -> Nat]
    /\ rpc \in {"wait", "read", "clear"} /\ group \in Groups
    /\ left \in SUBSET Kinds /\ seen \in [Kinds -> Nat]
    /\ happened \in [Groups -> Nat] /\ owed \in SUBSET Groups

\* Group g has been counted and not broadcast: a counter still shows it, or the
\* reporter is about to broadcast the group.
Remembered(g) ==
    g \in owed =>
        \/ \E k \in Kinds : s_warn_count[g][k] > 0
        \/ rpc = "clear" /\ group = g /\ ~Nothing

\* "races are harmless" (control.c:741): whatever addition the clearing of the
\* motor counters races with, the group is not forgotten.
MotorRemembered == Remembered("motor")

\* A violation of the motor loop is in the end broadcast (control.c:737-753).
MotorIsTold == ("motor" \in owed) ~> ("motor" \notin owed)

\* The reporter at its clearing has something of the motor group to tell: the
\* invariant that makes MotorRemembered inductive (control.c:739-742).
IInv ==
    /\ TypeOK /\ MotorRemembered
    /\ rpc = "clear" /\ group = "motor" => ~Nothing
=============================================================================
