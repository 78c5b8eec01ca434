------------------------------ MODULE MCDevices ------------------------------
(* Model-checking instance of the parts that share nothing: an encoder, the    *)
(* IMU's FIFO, the HTTP server, the pairing of the ESP-NOW quick checks, the   *)
(* balance button and the two controllers.  One behaviour runs one of them,    *)
(* `which`, and leaves the others in their initial state.                      *)
EXTENDS Encoders, ImuFifo, HttpServer, Pairing, BalanceButton, Controllers

VARIABLE which

\* One step of the part that runs leaves the others alone.
Only(part) ==
    /\ which = part /\ UNCHANGED which
    /\ IF part = "encoder" THEN TRUE ELSE UNCHANGED encVars
    /\ IF part = "fifo"    THEN TRUE ELSE UNCHANGED fifoVars
    /\ IF part = "http"    THEN TRUE ELSE UNCHANGED httpVars
    /\ IF part = "pairing" THEN TRUE ELSE UNCHANGED pairVars
    /\ IF part = "button"  THEN TRUE ELSE UNCHANGED buttonVars
    /\ CASE part = "wheel pi"    -> UNCHANGED balance
         [] part = "balance pid" -> UNCHANGED wheelPi
         [] OTHER                -> UNCHANGED piVars

vars == <<which, encVars, fifoVars, httpVars, pairVars, buttonVars, piVars>>

DevicesInit ==
    /\ which \in {"encoder", "fifo", "http", "pairing", "button", "wheel pi", "balance pid"}
    /\ EncInit /\ FifoInit /\ HttpInit /\ PairInit /\ ButtonInit /\ PiInit

\* The wheels' PI and the balance PID have no variable in common either.
DevicesNext ==
    \/ Only("encoder") /\ EncNext
    \/ Only("fifo") /\ FifoNext
    \/ Only("http") /\ HttpNext
    \/ Only("pairing") /\ PairNext
    \/ Only("button") /\ ButtonNext
    \/ Only("wheel pi") /\ PiNext
    \/ Only("balance pid") /\ PiNext

\* The fairness each part states.
DevicesSpec ==
    /\ DevicesInit /\ [][DevicesNext]_vars
    /\ WF_httpVars(which = "http" /\ ServerStep)
    /\ SF_httpVars(which = "http" /\ Command("stop"))
    /\ \A x \in Nodes : /\ WF_pairVars(which = "pairing" /\ BootNode(x))
                        /\ WF_pairVars(which = "pairing" /\ PairRound(x))

-----------------------------------------------------------------------------
\* Every part keeps its variables in range, and the controllers their clamps.
TypeOK ==
    EncTypeOK /\ FifoTypeOK /\ HttpTypeOK /\ PairTypeOK /\ ButtonTypeOK /\ PiTypeOK

=============================================================================
