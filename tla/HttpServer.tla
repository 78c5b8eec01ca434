----------------------------- MODULE HttpServer -----------------------------
(* The single HTTP server task (firmware/main/web_server.c): it serves one    *)
(* request at a time and, between requests, the broadcast messages other      *)
(* tasks queued.  An upload occupies it to its end.  The flash and its two    *)
(* OTA slots outlive a reset, which may come at any step.                     *)
EXTENDS Integers

CONSTANTS
    Clients,   \* WebSocket clients
    QMAX,      \* messages httpd_queue_work holds
    CHUNKS     \* bound on the pieces an upload arrives in

ASSUME HttpAssumption == QMAX \in Nat /\ CHUNKS \in Nat

VARIABLES
    srv,            \* what the task is in
    asked,          \* requests that wait in their sockets
    link, left,     \* the uploader's connection, and pieces still to come
    body, handle,   \* the receive buffer is allocated; the OTA handle
    work, live,     \* broadcasts queued, ws_msg_t blocks allocated
    rep,            \* reporter_task is inside ws_enqueue with a block
    conn, todo,     \* the clients, and those the message in hand still goes to
    parked,         \* STOP_CONTROL
    slot, running, boot   \* the two app slots, the one that runs, the one that boots

request   == <<link, left, body, handle>>
broadcast == <<work, live, rep, conn, todo>>
flash     == <<slot, running, boot>>
httpVars  == <<srv, asked, request, broadcast, parked, flash>>

Requests  == {"start", "stop", "ota", "seq", "rollback"}
Receiving == {"ota recv", "seq recv"}
Slots     == {0, 1}
\* Wrong variant of target: the upload goes to the slot that runs.
targetRunning == running
target == 1 - running      \* esp_ota_get_next_update_partition

HttpInit ==
    /\ srv = "idle" /\ asked = {} /\ link = "up" /\ left = 0 /\ body = FALSE /\ handle = "closed"
    /\ work = 0 /\ live = 0 /\ rep = FALSE /\ conn = [c \in Clients |-> "open"] /\ todo = {}
    /\ parked = FALSE
    /\ slot = [s \in Slots |-> IF s = 0 THEN "whole" ELSE "blank"] /\ running = 0 /\ boot = 0

-----------------------------------------------------------------------------
\* The outside: requests, the uploader's link, clients that stop reading or reconnect.
Ask(r) ==
    /\ asked' = asked \cup {r}
    /\ UNCHANGED <<srv, request, broadcast, parked, flash>>

LinkTo(l) ==
    /\ srv \in Receiving /\ link # "down"
    /\ link' = l
    /\ UNCHANGED <<srv, asked, left, body, handle, broadcast, parked, flash>>

ClientTo(c, s) ==
    /\ <<conn[c], s>> \in {<<"open", "wedged">>, <<"closed", "open">>}
    /\ conn' = [conn EXCEPT ![c] = s]
    /\ UNCHANGED <<srv, asked, request, work, live, rep, todo, parked, flash>>

\* esp_restart, a panic or the power: memory is gone, the flash is not.
Reset ==
    /\ srv' = "idle" /\ asked' = {} /\ link' = "up" /\ left' = 0 /\ body' = FALSE
    /\ handle' = "closed" /\ work' = 0 /\ live' = 0 /\ rep' = FALSE /\ todo' = {}
    /\ conn' = [c \in Clients |-> "closed"] /\ parked' = FALSE
    /\ running' = boot /\ UNCHANGED <<slot, boot>>

-----------------------------------------------------------------------------
\* ws_enqueue in reporter_task: a block (or no memory), then the server's queue; a
\* queue that refuses gets the block freed.
Allocate ==
    /\ ~rep
    /\ rep' = TRUE /\ live' = live + 1
    /\ UNCHANGED <<srv, asked, request, work, conn, todo, parked, flash>>

\* Wrong variant of Queue: the block of a refused message is forgotten.
QueueForgets ==
    /\ rep /\ rep' = FALSE
    /\ \/ work < QMAX /\ work' = work + 1
       \/ UNCHANGED work
    /\ UNCHANGED <<srv, asked, request, live, conn, todo, parked, flash>>

Queue ==
    /\ rep /\ rep' = FALSE
    /\ \/ work < QMAX /\ work' = work + 1 /\ UNCHANGED live
       \/ live' = live - 1 /\ UNCHANGED work
    /\ UNCHANGED <<srv, asked, request, conn, todo, parked, flash>>

\* ws_async_send: to each client in turn, closing one whose send fails.
TakeWork ==
    /\ srv = "idle" /\ work > 0
    /\ work' = work - 1
    /\ \/ srv' = "send" /\ todo' = {c \in Clients : conn[c] # "closed"} /\ UNCHANGED live
       \/ live' = live - 1 /\ UNCHANGED <<srv, todo>>      \* no client list
    /\ UNCHANGED <<asked, request, rep, conn, parked, flash>>

SendTo(c) ==
    /\ srv = "send" /\ c \in todo
    /\ todo' = todo \ {c}
    /\ conn' \in {conn, [conn EXCEPT ![c] = "closed"]}
    /\ conn[c] = "wedged" => conn'[c] = "closed"
    /\ UNCHANGED <<srv, asked, request, work, live, rep, parked, flash>>

Sent ==
    /\ srv = "send" /\ todo = {}
    /\ srv' = "idle" /\ live' = live - 1
    /\ UNCHANGED <<asked, request, work, rep, conn, todo, parked, flash>>

-----------------------------------------------------------------------------
\* The task picks up request r; the connection is new.
Serve(r) == srv = "idle" /\ r \in asked /\ asked' = asked \ {r} /\ link' = "up"

\* The request is over, by its end or by an error.
Over == srv' = "idle" /\ left' = 0

\* 'control start' and 'control stop'.
Command(r) ==
    /\ Serve(r) /\ parked' = (r = "stop")
    /\ UNCHANGED <<srv, left, body, handle, broadcast, flash>>

\* ota_post_handler: refused outside STOP, or begun, or an error before the buffer.
OtaPost ==
    /\ Serve("ota")
    /\ \/ Over /\ UNCHANGED handle
       \/ parked /\ srv' = "ota buffer" /\ handle' = "open" /\ UNCHANGED left
    /\ UNCHANGED <<body, broadcast, parked, flash>>

OtaBuffer ==
    /\ srv = "ota buffer"
    /\ \/ body' = TRUE /\ srv' = "ota recv" /\ left' \in 0 .. CHUNKS /\ UNCHANGED handle
       \/ Over /\ handle' = "closed" /\ UNCHANGED body
    /\ UNCHANGED <<asked, link, broadcast, parked, flash>>

\* Wrong variant of OtaRecv: a receive error is retried like a timeout.
OtaRecvRetries ==
    /\ srv = "ota recv" /\ left > 0 /\ link = "up"
    /\ slot' = [slot EXCEPT ![target] = "part"]
    /\ \/ left' = left - 1 /\ handle' = "written" /\ UNCHANGED <<srv, body>>
       \/ Over /\ handle' = "closed" /\ body' = FALSE
    /\ UNCHANGED <<asked, link, broadcast, parked, running, boot>>

\* A piece that arrives is written; a receive error or a failed write aborts; a
\* timeout is retried, so nothing happens on a stalled link.
OtaRecv ==
    /\ srv = "ota recv" /\ left > 0
    /\ \/ /\ link = "up"
          /\ slot' = [slot EXCEPT ![target] = "part"] /\ left' = left - 1
          /\ handle' = "written" /\ UNCHANGED <<srv, body>>
       \/ /\ link # "stalled"
          /\ Over /\ handle' = "closed" /\ body' = FALSE
          /\ slot' \in {slot, [slot EXCEPT ![target] = "part"]}
    /\ UNCHANGED <<asked, link, broadcast, parked, running, boot>>

\* The buffer goes; esp_ota_end closes the handle and verifies what was written, if
\* anything was.
OtaEnd ==
    /\ srv = "ota recv" /\ left = 0
    /\ body' = FALSE /\ handle' = "closed"
    /\ \/ /\ handle = "written"
          /\ slot' = [slot EXCEPT ![target] = "whole"] /\ srv' = "ota boot" /\ UNCHANGED left
       \/ Over /\ UNCHANGED slot
    /\ UNCHANGED <<asked, link, broadcast, parked, running, boot>>

\* esp_ota_set_boot_partition verifies the image once more, then the chip restarts.
SetBoot ==
    \/ slot[target] = "whole" /\ boot' = target /\ srv' = "restart"
    \/ srv' = "idle" /\ UNCHANGED boot

OtaBoot ==
    /\ srv = "ota boot" /\ SetBoot
    /\ UNCHANGED <<asked, request, broadcast, parked, slot, running>>

Rollback ==
    /\ Serve("rollback") /\ SetBoot
    /\ UNCHANGED <<left, body, handle, broadcast, parked, slot, running>>

Restart == srv = "restart" /\ Reset

\* seq_import: refused or too large, or received whole and then loaded.
SeqPost ==
    /\ Serve("seq")
    /\ \/ Over /\ UNCHANGED body
       \/ ~parked /\ srv' = "seq recv" /\ body' = TRUE /\ left' \in 1 .. CHUNKS
    /\ UNCHANGED <<handle, broadcast, parked, flash>>

SeqRecv ==
    /\ srv = "seq recv"
    /\ \/ link = "up" /\ left > 0 /\ left' = left - 1 /\ UNCHANGED <<srv, body>>
       \/ (left = 0 \/ link # "stalled") /\ Over /\ body' = FALSE
    /\ UNCHANGED <<asked, link, handle, broadcast, parked, flash>>

ServerStep ==
    \/ \E c \in Clients : SendTo(c)
    \/ Sent
    \/ OtaBuffer \/ OtaRecv \/ OtaEnd \/ OtaBoot \/ Restart
    \/ SeqRecv

HttpNext ==
    \/ \E r \in Requests : Ask(r)
    \/ \E l \in {"up", "stalled", "down"} : LinkTo(l)
    \/ \E c \in Clients, s \in {"open", "wedged"} : ClientTo(c, s)
    \/ Allocate \/ Queue \/ TakeWork
    \/ \E r \in {"start", "stop"} : Command(r)
    \/ OtaPost \/ Rollback \/ SeqPost
    \/ ServerStep
    \/ Reset

HttpSpec == HttpInit /\ [][HttpNext]_httpVars

\* The task is always scheduled, and one round of it serves at most one queued
\* message before it looks at every socket that has something to read.
HttpFairSpec == HttpSpec /\ WF_httpVars(ServerStep) /\ SF_httpVars(Command("stop"))

-----------------------------------------------------------------------------
HttpTypeOK ==
    /\ srv \in {"idle", "send", "ota buffer", "ota boot", "restart"} \cup Receiving
    /\ asked \subseteq Requests /\ link \in {"up", "stalled", "down"} /\ left \in 0 .. CHUNKS
    /\ {body, rep, parked} \subseteq BOOLEAN /\ handle \in {"closed", "open", "written"}
    /\ work \in 0 .. QMAX /\ live \in 0 .. QMAX + 2
    /\ conn \in [Clients -> {"open", "wedged", "closed"}] /\ todo \subseteq Clients
    /\ slot \in [Slots -> {"whole", "part", "blank"}] /\ {running, boot} \subseteq Slots

\* Whatever fails, and whenever the power goes, the slot that boots next and the one
\* that runs hold a verified image: "a bad upload can't brick the board"
\* (web_server.c:557-560).
BootsWhole == slot[boot] = "whole" /\ slot[running] = "whole"

\* Every message block is in the reporter's hand, queued or being sent, and a request
\* that is over, on any of its error paths, has left neither buffer nor OTA handle
\* behind (web_server.c:540, 592-628).
NothingLeaks ==
    /\ live = work + (IF rep THEN 1 ELSE 0) + (IF srv = "send" THEN 1 ELSE 0)
    /\ body <=> srv \in Receiving
    /\ handle # "closed" <=> srv \in {"ota buffer", "ota recv"}

\* A command is served, wedged clients and failed uploads notwithstanding, unless an
\* upload stalls: its timeouts are retried for ever (web_server.c:605, 735).
ServerComesBack == ("stop" \in asked) ~> ("stop" \notin asked \/ link = "stalled")
=============================================================================
