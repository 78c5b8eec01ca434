---------------------------- MODULE BalanceButton ----------------------------
(* From the start/stop button to the balance flag and the LEDs: button_task    *)
(* debounces the polled level and toggles balance (firmware/main/control.c),   *)
(* a web command sets it, each change puts a blink pattern into a mailbox of   *)
(* one, and led_task shows what it finds there (firmware/main/led.c).          *)
EXTENDS Integers

CONSTANT BTN_DEBOUNCE_N

ASSUME ButtonAssumption == BTN_DEBOUNCE_N \in Nat \ {0, 1}

VARIABLES
    stable, cand, nPolls,      \* button_task's locals (nPolls is n)
    s_bal_enabled,
    bpc, bWants,               \* where each thread is in control_set_balance, and its `on`
    mailbox, shown,            \* s_led_q, and the pattern led_task plays
    booted,                    \* app_main has queued its default heartbeat
    level, same, held,         \* the level of the last polls, how many of them, and the
                               \* level last held for BTN_DEBOUNCE_N polls
    want,                      \* the balance state the presses and commands ask for
    met                        \* two calls of control_set_balance met, and no call of its
                               \* own has changed the flag since

buttonVars == <<stable, cand, nPolls, s_bal_enabled, bpc, bWants, mailbox, shown, booted,
                level, same, held, want, met>>

Setters      == {"button", "httpd"}
Pattern(on)  == IF on THEN "1 Hz" ELSE "slow"

ButtonInit ==
    /\ stable = 1 /\ cand = 1 /\ nPolls = 0 /\ s_bal_enabled = FALSE
    /\ bpc = [t \in Setters |-> "out"] /\ bWants = [t \in Setters |-> FALSE]
    /\ mailbox = "empty" /\ shown = "off" /\ booted = FALSE
    /\ level = 1 /\ same = BTN_DEBOUNCE_N /\ held = 1 /\ want = FALSE
    /\ met = FALSE

-----------------------------------------------------------------------------
\* app_main's last call; it takes no longer than the first press.
BootHeartbeat ==
    /\ ~booted /\ booted' = TRUE /\ mailbox' = Pattern(FALSE)
    /\ UNCHANGED <<stable, cand, nPolls, s_bal_enabled, bpc, bWants, shown, level, same,
                   held, want, met>>

\* Thread t calls control_set_balance(on), perhaps while the other one is inside.
Enter(t, on) ==
    /\ bpc' = [bpc EXCEPT ![t] = "test"] /\ bWants' = [bWants EXCEPT ![t] = on]
    /\ met' = IF \E u \in Setters \ {t} : bpc[u] # "out" THEN TRUE
                ELSE met /\ on = s_bal_enabled

\* balance_toggle reads the flag to decide which way it goes.
Toggle == Enter("button", ~s_bal_enabled)

\* What the button does to the person who holds it: a press is a low level held for
\* BTN_DEBOUNCE_N polls after a high one held as long.
Polled(raw) ==
    LET k == IF raw # level THEN 1 ELSE IF same < BTN_DEBOUNCE_N THEN same + 1 ELSE same
    IN  /\ level' = raw /\ same' = k
        /\ held' = IF k = BTN_DEBOUNCE_N THEN raw ELSE held
        /\ want' = IF held = 1 /\ held' = 0
                     THEN ~(IF met THEN s_bal_enabled ELSE want) ELSE want

\* Wrong variant of Poll: the way back to the stable level does not clear the count.
PollAccumulates(raw) ==
    /\ booted /\ bpc["button"] = "out"
    /\ Polled(raw)
    /\ IF raw = stable THEN UNCHANGED <<stable, cand, nPolls, bpc, bWants, met>>
       ELSE /\ cand' = raw
            /\ IF nPolls + 1 < BTN_DEBOUNCE_N
                 THEN nPolls' = nPolls + 1 /\ UNCHANGED <<stable, bpc, bWants, met>>
                 ELSE /\ stable' = raw /\ nPolls' = 0
                      /\ IF raw = 0 THEN Toggle ELSE UNCHANGED <<bpc, bWants, met>>
    /\ UNCHANGED <<s_bal_enabled, mailbox, shown, booted>>

\* One poll of button_task: back to the stable level, a new candidate, one more
\* equal poll, or enough of them, which commits the level and fires on a press.
Poll(raw) ==
    /\ booted /\ bpc["button"] = "out"
    /\ Polled(raw)
    /\ \/ /\ raw = stable /\ cand' = stable /\ nPolls' = 0
          /\ UNCHANGED <<stable, bpc, bWants, met>>
       \/ /\ raw # stable /\ raw # cand /\ cand' = raw /\ nPolls' = 1
          /\ UNCHANGED <<stable, bpc, bWants, met>>
       \/ /\ raw # stable /\ raw = cand /\ nPolls + 1 < BTN_DEBOUNCE_N
          /\ nPolls' = nPolls + 1 /\ UNCHANGED <<stable, cand, bpc, bWants, met>>
       \/ /\ raw # stable /\ raw = cand /\ nPolls + 1 >= BTN_DEBOUNCE_N
          /\ stable' = raw /\ nPolls' = 0 /\ UNCHANGED cand
          /\ IF raw = 0 THEN Toggle ELSE UNCHANGED <<bpc, bWants, met>>
    /\ UNCHANGED <<s_bal_enabled, mailbox, shown, booted>>

\* 'balance on', 'balance off' or an experiment preset, in the server task.
WebSets(on) ==
    /\ booted /\ bpc["httpd"] = "out"
    /\ Enter("httpd", on) /\ want' = on
    /\ UNCHANGED <<stable, cand, nPolls, s_bal_enabled, mailbox, shown, booted, level, same,
                   held>>

\* control_set_balance: on a change of the flag a new pattern overwrites the mailbox,
\* then the flag is set.
TestAndBlink(t) ==
    /\ bpc[t] = "test" /\ bpc' = [bpc EXCEPT ![t] = "set"]
    /\ mailbox' = IF bWants[t] # s_bal_enabled THEN Pattern(bWants[t]) ELSE mailbox
    /\ UNCHANGED <<stable, cand, nPolls, s_bal_enabled, bWants, shown, booted, level, same,
                   held, want, met>>

SetFlag(t) ==
    /\ bpc[t] = "set" /\ bpc' = [bpc EXCEPT ![t] = "out"]
    /\ s_bal_enabled' = bWants[t] /\ bWants' = [bWants EXCEPT ![t] = FALSE]
    /\ UNCHANGED <<stable, cand, nPolls, mailbox, shown, booted, level, same, held, want,
                   met>>

\* led_task takes the newest pattern, whatever it was playing.
LedReceives ==
    /\ mailbox # "empty" /\ shown' = mailbox /\ mailbox' = "empty"
    /\ UNCHANGED <<stable, cand, nPolls, s_bal_enabled, bpc, bWants, booted, level, same,
                   held, want, met>>

ButtonNext ==
    \/ BootHeartbeat \/ LedReceives
    \/ \E raw \in {0, 1} : Poll(raw)
    \/ \E on \in BOOLEAN : WebSets(on)
    \/ \E t \in Setters : TestAndBlink(t) \/ SetFlag(t)

ButtonSpec == ButtonInit /\ [][ButtonNext]_buttonVars

-----------------------------------------------------------------------------
ButtonTypeOK ==
    /\ {stable, cand, level, held} \subseteq {0, 1}
    /\ nPolls \in 0 .. BTN_DEBOUNCE_N - 1 /\ same \in 1 .. BTN_DEBOUNCE_N
    /\ bpc \in [Setters -> {"out", "test", "set"}] /\ bWants \in [Setters -> BOOLEAN]
    /\ mailbox \in {"empty", "slow", "1 Hz"} /\ shown \in {"off", "slow", "1 Hz"}
    /\ {s_bal_enabled, booted, want, met} \subseteq BOOLEAN

\* However the contact bounces, every press toggles balance once and nothing but a
\* press or a command does, and once the mailbox is read the LEDs show the state the
\* robot is in (control.c:992-994, 1105-1106).  A press that meets a command may leave
\* them apart (control.c:1107-1109), until the next change by one of the two alone.
PressShows ==
    (booted /\ ~met /\ \A t \in Setters : bpc[t] = "out") =>
        /\ s_bal_enabled = want
        /\ mailbox = "empty" => shown = Pattern(s_bal_enabled)
=============================================================================
