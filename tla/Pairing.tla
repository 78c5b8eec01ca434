------------------------------- MODULE Pairing ------------------------------
(* The two ESP-NOW quick checks: each node broadcasts a beacon every half     *)
(* second, takes the first node it hears as its peer, sends MOREBEACONS more  *)
(* beacons and then only unicasts to that peer.  The station and the mobile   *)
(* node run the same handshake (quick-checks/esp-now-uart-station and         *)
(* quick-checks/esp-now-mobile, main/app_main.c).  Beacons are lost at will,  *)
(* at most MAXLOST of one sender in a row; nothing acknowledges them.         *)
EXTENDS Integers

CONSTANTS MOREBEACONS, MAXLOST, RXBUF

ASSUME PairingAssumption ==
    {MOREBEACONS, MAXLOST, RXBUF} \subseteq Nat /\ MOREBEACONS > 0

Nodes   == {"station", "mobile"}
Peer(x) == CHOOSE y \in Nodes : y # x

VARIABLES
    up,              \* the node has booted and registered on_recv
    pairing,         \* its pair_task still runs
    s_peer_pending, s_paired,
    post,            \* beacons it sent since it paired
    lost,            \* its last beacons that were lost, in a row
    s_from_station,  \* payloads in the mobile node's stream buffer
    echoes           \* payloads the station has for its WebSocket clients

pairVars == <<up, pairing, s_peer_pending, s_paired, post, lost, s_from_station, echoes>>

PairInit ==
    /\ up = [x \in Nodes |-> FALSE] /\ pairing = [x \in Nodes |-> TRUE]
    /\ s_peer_pending = [x \in Nodes |-> FALSE] /\ s_paired = [x \in Nodes |-> FALSE]
    /\ post = [x \in Nodes |-> 0] /\ lost = [x \in Nodes |-> 0]
    /\ s_from_station = 0 /\ echoes = 0

\* app_main: the radio first, then the tasks.
BootNode(x) ==
    /\ ~up[x] /\ up' = [up EXCEPT ![x] = TRUE]
    /\ UNCHANGED <<pairing, s_peer_pending, s_paired, post, lost, s_from_station, echoes>>

\* on_recv of node y: a beacon counts while it looks for a peer.
OnBeacon(y) ==
    s_peer_pending' = [s_peer_pending EXCEPT ![y] = @ \/ ~s_paired'[y]]

\* Wrong variant of PairRound: one beacon too few after pairing.
PairRoundShort(x) ==
    /\ up[x] /\ pairing[x]
    /\ s_paired' = [s_paired EXCEPT ![x] = @ \/ s_peer_pending[x]]
    /\ post' = [post EXCEPT ![x] = IF s_paired'[x] THEN @ + 1 ELSE @]
    /\ pairing' = [pairing EXCEPT ![x] = ~(s_paired'[x] /\ post'[x] >= MOREBEACONS - 1)]
    /\ \/ up[Peer(x)] /\ OnBeacon(Peer(x)) /\ lost' = [lost EXCEPT ![x] = 0]
       \/ ~up[Peer(x)] /\ UNCHANGED <<s_peer_pending, lost>>
       \/ /\ up[Peer(x)] /\ lost[x] < MAXLOST /\ lost' = [lost EXCEPT ![x] = @ + 1]
          /\ UNCHANGED s_peer_pending
    /\ UNCHANGED <<up, s_from_station, echoes>>

\* One round of pair_task: adopt the pending peer, send a beacon, and stop after
\* enough of them.
PairRound(x) ==
    /\ up[x] /\ pairing[x]
    /\ s_paired' = [s_paired EXCEPT ![x] = @ \/ s_peer_pending[x]]
    /\ post' = [post EXCEPT ![x] = IF s_paired'[x] THEN @ + 1 ELSE @]
    /\ pairing' = [pairing EXCEPT ![x] = ~(s_paired'[x] /\ post'[x] >= MOREBEACONS)]
    /\ \/ up[Peer(x)] /\ OnBeacon(Peer(x)) /\ lost' = [lost EXCEPT ![x] = 0]
       \/ ~up[Peer(x)] /\ UNCHANGED <<s_peer_pending, lost>>
       \/ /\ up[Peer(x)] /\ lost[x] < MAXLOST /\ lost' = [lost EXCEPT ![x] = @ + 1]
          /\ UNCHANGED s_peer_pending
    /\ UNCHANGED <<up, s_from_station, echoes>>

\* A unicast of paired node x that arrives (or is lost): a peer that is not paired
\* drops it, a full stream buffer too.
Into(buf, y) == IF s_paired[y] /\ buf < RXBUF THEN {buf, buf + 1} ELSE {buf}

\* ws_rx_forward on the station.
Forward ==
    /\ s_paired["station"]
    /\ s_from_station' \in Into(s_from_station, "mobile")
    /\ UNCHANGED <<up, pairing, s_peer_pending, s_paired, post, lost, echoes>>

\* from_station_task on the mobile node: take what there is and echo it.
Echo ==
    /\ s_from_station > 0 /\ s_from_station' = 0
    /\ IF s_paired["mobile"] THEN echoes' \in Into(echoes, "station") ELSE UNCHANGED echoes
    /\ UNCHANGED <<up, pairing, s_peer_pending, s_paired, post, lost>>

\* heartbeat_task on the mobile node.
Heartbeat ==
    /\ s_paired["mobile"] /\ echoes' \in Into(echoes, "station")
    /\ UNCHANGED <<up, pairing, s_peer_pending, s_paired, post, lost, s_from_station>>

\* radio_to_ws_task on the station.
ToClients ==
    /\ echoes > 0 /\ echoes' = 0
    /\ UNCHANGED <<up, pairing, s_peer_pending, s_paired, post, lost, s_from_station>>

PairNext ==
    \/ \E x \in Nodes : BootNode(x) \/ PairRound(x)
    \/ Forward \/ Echo \/ Heartbeat \/ ToClients

\* Both nodes boot, and pair_task wakes every half second.
PairSpec ==
    /\ PairInit /\ [][PairNext]_pairVars
    /\ \A x \in Nodes : WF_pairVars(BootNode(x)) /\ WF_pairVars(PairRound(x))

-----------------------------------------------------------------------------
PairTypeOK ==
    /\ {up, pairing, s_peer_pending, s_paired} \subseteq [Nodes -> BOOLEAN]
    /\ post \in [Nodes -> 0 .. MOREBEACONS] /\ lost \in [Nodes -> 0 .. MAXLOST]
    /\ {s_from_station, echoes} \subseteq 0 .. RXBUF

\* Nodes that are both up end up paired, whichever boots first, as long as fewer than
\* MOREBEACONS beacons of a node are lost in a row: "both nodes broadcast a small
\* beacon until they hear each other" (esp-now-uart-station/main/app_main.c:12).
BothPair == (\A x \in Nodes : up[x]) ~> (\A x \in Nodes : s_paired[x])
=============================================================================
