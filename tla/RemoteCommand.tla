---------------------------- MODULE RemoteCommand ----------------------------
(***************************************************************************)
(* sys/remote_command: the connection to the server and the two tasks that *)
(* keep it, remote_command_connect_send_task and ..._recevie_task.  Both   *)
(* steer by one word, s_remote_cmd_status, which either may overwrite, as  *)
(* may the Wi-Fi event handler (smartconfig_main.c); whoever wants the     *)
(* sender to look at it posts SYNC_DISCONNECT_TYPE to its queue.           *)
(* assemble_remote_json waits for room in that queue on the task that      *)
(* calls it: system_task, whose timer sends the greeting and the           *)
(* heartbeat; the receiver, for its acknowledgement; and the apps, which   *)
(* are wechat_task, story_push_task, story_player_task and, in             *)
(* realtime_push_play_cb, the AMS task.                                    *)
(*                                                                         *)
(* External: the sockets (a close wakes the reader), the server, the       *)
(* network, and the login request, which DownloadServer answers once.      *)
(* The delays of the two tasks last for any time.  Left out:               *)
(* sync_to_recevie_queue, which only ends the receiver's pauses early, and *)
(* what the callbacks of the apps do with a packet.                        *)
(*                                                                         *)
(* A suffixed name (Lost_Unnoticed) is the definition after it with a     *)
(* slip in it, kept to show which property would notice.                   *)
(***************************************************************************)
EXTENDS Naturals, Sequences

CONSTANTS
  Apps,        (* the tasks of the apps that send: see above                 *)
  MaxSockets,  (* CONFIG_LWIP_MAX_SOCKETS                                    *)
  QueueSize,   (* RECEVE_REMOTE_CMD_SIZE                                     *)
  MaxIncidents, (* bound: losses of the Wi-Fi, failures of login, server,    *)
                (* link or socket, and commands the server sends, together   *)
  None

ASSUME RemoteAssumption ==
  /\ "system_task" \notin Apps
  /\ MaxSockets \in Nat \ {0} /\ QueueSize \in Nat \ {0}
  /\ None \notin Nat
  /\ MaxIncidents \in Nat

VARIABLES
  status,    (* s_remote_cmd_status                                         *)
  sock,      (* s_sock, None when it is INVALID_SOCK or not yet set         *)
  link,      (* of each socket: "free" | "up" | "silent" | "reset"          *)
  asked,     (* what was written to it last and is not acknowledged         *)
  inbox,     (* what arrived last and is not read                           *)
  queue,     (* sendto_server_info_queue                                    *)
  waiters,   (* the clients that wait in assemble_remote_json, in order     *)
  send,      (* where the sender is                                         *)
  req,       (* req_buff                                                    *)
  tries,     (* i, the failed writes of req                                 *)
  recv,      (* where the receiver is: "top" | "read" | "failed" | "late",  *)
             (* or "ack": it waits in assemble_remote_json                  *)
  reading,   (* the socket of its read                                        *)
  wifi,      (* sta_connected                                               *)
  event,     (* where wifi_net_event_handler is                             *)
  struck,    (* history: a Wi-Fi event has overwritten the status of a connection *)
  incidents

net    == <<link, asked, inbox>>
sender == <<send, req, tries>>
receiver == <<recv, reading>>
vars == <<status, sock, net, queue, waiters, sender, receiver, wifi, event, struck, incidents>>

Fd == 1..MaxSockets
Statuses == {"LOGIN", "INIT", "CONNECT", "DISCONNECT"}
Clients  == Apps \cup {"system_task"}
SendPlaces == {"top", "demote", "dark", "idle", "switch", "login", "retry", "drain", "connect",
               "receive", "write", "stay", "select", "timeout", "close"}
Events == {"none", "got", "got_post", "lost", "lost_post", "drop"}

(* remote_cmd_info_t: "beat" is of type 0x02, "data" all the rest. *)
Message == {"sync", "beat", "data"}

Init ==
  /\ status = "LOGIN" /\ sock = None
  /\ link = [s \in Fd |-> "free"] /\ asked = [s \in Fd |-> FALSE] /\ inbox = [s \in Fd |-> "none"]
  /\ queue = <<>> /\ waiters = <<>>
  /\ send = "top" /\ req = None /\ tries = 0
  /\ recv = "top" /\ reading = None
  /\ wifi = FALSE /\ event = "none"  /\ struck = FALSE
  /\ incidents = 0

Incident == incidents < MaxIncidents /\ incidents' = incidents + 1
NoIncident == UNCHANGED incidents

-----------------------------------------------------------------------------
(* POSTING.  send_net_req_Q does not wait: with the queue full the message  *)
(* is lost.  assemble_remote_json does not ask twice whether the server is  *)
(* connected, and waits.  Room goes to the receiver first, whose priority   *)
(* is higher, and then to the clients as they came.  (That of AMS is lower; *)
(* but the others come again only after a minute or with a new event.)      *)
Room == Len(queue) < QueueSize
PostSync == queue' = IF Room THEN Append(queue, "sync") ELSE queue

Waiting(c) == \E i \in DOMAIN waiters : waiters[i].task = c

Call(c, kind) ==
  /\ ~Waiting(c) /\ status = "CONNECT"
  /\ waiters' = Append(waiters, [task |-> c, msg |-> kind])
  /\ UNCHANGED <<status, sock, net, queue, sender, receiver, wifi, event, struck, incidents>>

Enqueue ==
  /\ Room
  /\ \/ /\ recv = "ack" /\ recv' = "read" /\ reading' = sock
        /\ queue' = Append(queue, "data")
        /\ UNCHANGED waiters
     \/ /\ recv # "ack" /\ waiters # <<>>
        /\ queue' = Append(queue, Head(waiters).msg) /\ waiters' = Tail(waiters)
        /\ UNCHANGED receiver
  /\ UNCHANGED <<status, sock, net, sender, wifi, event, struck, incidents>>

(* system_manager_tick, of the timer or of force_handshake_with_server, and *)
(* system_task, which asks get_server_connect_status again.                 *)
Tick == \E kind \in {"data", "beat"} : Call("system_task", kind)

(* A message heard, an album or a song asked for or over, the next lesson.  *)
Notify == \E c \in Apps : Call(c, "data")

-----------------------------------------------------------------------------
(* THE SENDER.  A wait on its queue ends with a message, which replaces     *)
(* req_buff, or after its time.                                             *)
WaitOnQueue(place) ==
  /\ send' = place
  /\ IF queue # <<>> THEN req' = Head(queue) /\ queue' = Tail(queue)
                     ELSE UNCHANGED <<req, queue>>

(* The head of the loop looks at the status up to three times.              *)
Check ==
  /\ \/ /\ send = "top"
        /\ send' = IF wifi THEN "switch" ELSE IF status = "CONNECT" THEN "demote" ELSE "dark"
        /\ UNCHANGED status
     \/ /\ send = "demote" /\ send' = "dark"
        /\ status' = "DISCONNECT"
     \/ /\ send = "dark"
        /\ send' = IF status = "LOGIN" THEN "idle" ELSE "switch"
        /\ UNCHANGED status
  /\ UNCHANGED <<sock, net, queue, waiters, req, tries, receiver, wifi, event, struck, incidents>>

Idle ==
  /\ \/ send = "idle" /\ WaitOnQueue("top")
     \/ send = "retry" /\ WaitOnQueue("login")
  /\ UNCHANGED <<status, sock, net, waiters, tries, receiver, wifi, event, struck, incidents>>

(* The switch; the lost connection is closed after the status has changed.  *)
Dispatch ==
  /\ send = "switch"
  /\ send' = CASE status = "LOGIN" -> "login"
               [] status = "INIT" -> "drain"
               [] status = "CONNECT" -> "receive"
               [] status = "DISCONNECT" -> "close"
  /\ IF status = "DISCONNECT" THEN status' = "LOGIN" /\ req' = None
                              ELSE UNCHANGED <<status, req>>
  /\ UNCHANGED <<sock, net, queue, waiters, tries, receiver, wifi, event, struck, incidents>>

Closed_Kept(s) == UNCHANGED net
Closed(s) ==
  /\ link' = [link EXCEPT ![s] = "free"]
  /\ asked' = [asked EXCEPT ![s] = FALSE] /\ inbox' = [inbox EXCEPT ![s] = "none"]

Close ==
  /\ send = "close" /\ send' = "top"
  /\ IF sock \in Fd THEN Closed(sock) ELSE UNCHANGED net
  /\ IF recv = "read" /\ reading = sock THEN recv' = "failed" /\ reading' = None
                                        ELSE UNCHANGED receiver
  /\ UNCHANGED <<status, sock, queue, waiters, req, tries, wifi, event, struck, incidents>>

(* get_login_info asks the download server and waits for its callback for   *)
(* as long as it takes.                                                     *)
Login ==
  /\ send = "login" /\ event = "none"
  /\ \/ wifi /\ status' = "INIT" /\ send' = "top" /\ NoIncident
     \/ ~wifi /\ status' = "LOGIN" /\ send' = "retry" /\ NoIncident
     \/ status' = "LOGIN" /\ send' = "retry" /\ Incident
  /\ UNCHANGED <<sock, net, queue, waiters, req, tries, receiver, wifi, event, struck>>

(* The server has dropped the device: factory settings, and a restart. *)
FactoryReset ==
  /\ send = "login" /\ Incident
  /\ status' = "LOGIN" /\ sock' = None
  /\ link' = [s \in Fd |-> "free"] /\ asked' = [s \in Fd |-> FALSE] /\ inbox' = [s \in Fd |-> "none"]
  /\ queue' = <<>> /\ waiters' = <<>>
  /\ send' = "top" /\ req' = None /\ tries' = 0 /\ recv' = "top" /\ reading' = None
  /\ wifi' = FALSE /\ event' = "none" /\ struck' = FALSE

(* Messages are freed as long as req_buff holds one: a sync ends it. *)
HasData(m) == m # None /\ m # "sync"
Drain ==
  /\ send = "drain"
  /\ IF ~HasData(req) THEN send' = "connect" /\ UNCHANGED <<req, queue>>
     ELSE IF queue = <<>> THEN req' = None /\ UNCHANGED <<send, queue>>
     ELSE req' = Head(queue) /\ queue' = Tail(queue) /\ UNCHANGED send
  /\ UNCHANGED <<status, sock, net, waiters, tries, receiver, wifi, event, struck, incidents>>

(* sock_connect_plus, and force_handshake_with_server *)
Connect ==
  /\ send = "connect" /\ send' = "top" /\ event = "none"
  /\ \/ /\ wifi /\ NoIncident
        /\ \E s \in Fd :
             /\ link[s] = "free" /\ \A t \in 1..(s - 1) : link[t] # "free"
             /\ sock' = s /\ link' = [link EXCEPT ![s] = "up"]
        /\ status' = "CONNECT"
     \/ /\ IF wifi /\ \E s \in Fd : link[s] = "free" THEN Incident ELSE NoIncident
        /\ sock' = None /\ status' = "LOGIN"
        /\ UNCHANGED <<link>>
  /\ UNCHANGED <<asked, inbox, queue, waiters, req, tries, receiver, wifi, event, struck>>

(* The wait for a message, and what is looked at as soon as there is one. *)
Lost_Unnoticed == FALSE
Lost == status = "DISCONNECT"
Receive ==
  /\ send = "receive" /\ queue # <<>>
  /\ req' = Head(queue) /\ queue' = Tail(queue) /\ tries' = 0
  /\ send' = IF Lost THEN "top" ELSE IF Head(queue) = "sync" THEN "stay" ELSE "write"
  /\ UNCHANGED <<status, sock, net, waiters, receiver, wifi, event, struck, incidents>>

ERROR_RETRY_COUNT == 3

Write ==
  /\ send = "write"
  /\ \/ /\ link[sock] # "reset" /\ NoIncident
        /\ asked' = [asked EXCEPT ![sock] = TRUE]
        /\ send' = "stay"
        /\ UNCHANGED <<status, req, tries>>
     \/ /\ IF link[sock] = "reset" THEN NoIncident ELSE Incident
        /\ status' = "DISCONNECT" /\ tries' = tries + 1
        /\ IF tries' = ERROR_RETRY_COUNT THEN send' = "top" /\ req' = None
                                         ELSE UNCHANGED <<send, req>>
        /\ UNCHANGED asked
  /\ UNCHANGED <<sock, link, inbox, queue, waiters, receiver, wifi, event, struck>>

(* The status is CONNECT again, whatever was written to it meanwhile. *)
Stay ==
  /\ send = "stay"
  /\ status' = "CONNECT"
  /\ IF req = "beat" THEN send' = "select" /\ UNCHANGED req ELSE send' = "top" /\ req' = None
  /\ UNCHANGED <<sock, net, queue, waiters, tries, receiver, wifi, event, struck, incidents>>

(* select for 30 s: anything to read, or a dead socket, will do.  What the  *)
(* receiver has read already is not there any more.                         *)
Select ==
  /\ send = "select"
  /\ \/ (inbox[sock] # "none" \/ link[sock] = "reset") /\ send' = "top" /\ req' = None /\ NoIncident
     \/ /\ inbox[sock] = "none" /\ link[sock] # "reset"
        /\ send' = "timeout" /\ UNCHANGED req
        /\ IF wifi /\ link[sock] = "up" /\ asked[sock] THEN Incident ELSE NoIncident
  /\ UNCHANGED <<status, sock, net, queue, waiters, tries, receiver, wifi, event, struck>>

Timeout ==
  /\ send = "timeout" /\ send' = "top" /\ req' = None
  /\ status' = "DISCONNECT"
  /\ UNCHANGED <<sock, net, queue, waiters, tries, receiver, wifi, event, struck, incidents>>

Sender == Check \/ Idle \/ Dispatch \/ Close \/ Login \/ Drain \/ Connect
          \/ Receive \/ Write \/ Stay \/ Select \/ Timeout

-----------------------------------------------------------------------------
(* THE RECEIVER *)
Look ==
  /\ recv = "top"
  /\ IF status = "CONNECT" THEN recv' = "read" /\ reading' = sock ELSE UNCHANGED receiver
  /\ IF status = "DISCONNECT" THEN PostSync ELSE UNCHANGED queue
  /\ UNCHANGED <<status, sock, net, waiters, sender, wifi, event, struck, incidents>>

(* notify_all_register_app: the server's greeting sets connected_server, a  *)
(* command is acknowledged by its msgID; then read is called anew.          *)
Deliver ==
  /\ recv = "read" /\ reading \in Fd /\ inbox[reading] # "none"
  /\ inbox' = [inbox EXCEPT ![reading] = "none"]
  /\ IF inbox[reading] = "command" /\ status = "CONNECT"
       THEN recv' = "ack" /\ reading' = None
       ELSE reading' = sock /\ UNCHANGED recv
  /\ UNCHANGED <<status, sock, link, asked, queue, waiters, sender, wifi, event, struck, incidents>>

ReadFails_Closes ==
  /\ recv = "read" /\ reading \in Fd /\ link[reading] \in {"free", "reset"}
  /\ recv' = "failed" /\ reading' = None
  /\ Closed(reading)
  /\ UNCHANGED <<status, sock, queue, waiters, sender, wifi, event, struck, incidents>>
ReadFails ==
  /\ recv = "read"
  /\ IF reading \in Fd THEN link[reading] \in {"free", "reset"} ELSE TRUE
  /\ recv' = "failed" /\ reading' = None
  /\ UNCHANGED <<status, sock, net, queue, waiters, sender, wifi, event, struck, incidents>>

(* The 5 s after the failure do not go by while the sender has something to *)
(* do at once; when they have, the status is written, whatever it is by now. *)
SenderWaits ==
  \/ send \in {"idle", "login", "retry", "connect", "write", "select"}
  \/ send = "receive" /\ queue = <<>>
Elapse ==
  /\ recv = "failed" /\ recv' = "late"
  /\ SenderWaits
  /\ UNCHANGED <<status, sock, net, queue, waiters, sender, reading, wifi, event, struck, incidents>>

Late ==
  /\ recv = "late" /\ recv' = "top"
  /\ status' = "DISCONNECT"
  /\ UNCHANGED <<sock, net, queue, waiters, sender, reading, wifi, event, struck, incidents>>

Receiver == Look \/ Deliver \/ ReadFails \/ Elapse \/ Late

-----------------------------------------------------------------------------
(* WI-FI EVENTS: SYSTEM_EVENT_STA_GOT_IP and ..._DISCONNECTED call          *)
(* set_server_connect_status(0).                                            *)
GotIp ==
  /\ event = "none" /\ ~wifi /\ wifi' = TRUE /\ event' = "got"
  /\ UNCHANGED <<status, sock, net, queue, waiters, sender, receiver, struck, incidents>>

LoseWifi ==
  /\ event = "none" /\ wifi /\ Incident
  /\ event' = "lost"
  /\ UNCHANGED <<status, sock, net, queue, waiters, sender, receiver, wifi, struck>>

SetStatus ==
  /\ event \in {"got", "lost"}
  /\ status' = "LOGIN"
  /\ event' = IF event = "got" THEN "got_post" ELSE "lost_post"
  /\ struck' = (struck \/ status \in {"CONNECT", "DISCONNECT"})
  /\ UNCHANGED <<sock, net, queue, waiters, sender, receiver, wifi, incidents>>

PostStatus ==
  /\ event \in {"got_post", "lost_post"}
  /\ PostSync
  /\ event' = IF event = "got_post" THEN "none" ELSE "drop"
  /\ UNCHANGED <<status, sock, net, waiters, sender, receiver, wifi, struck, incidents>>

Drop ==
  /\ event = "drop" /\ event' = "none" /\ wifi' = FALSE
  /\ UNCHANGED <<status, sock, net, queue, waiters, sender, receiver, struck, incidents>>

EventTask == GotIp \/ SetStatus \/ PostStatus \/ Drop

-----------------------------------------------------------------------------
(* THE NETWORK AND THE SERVER *)
Reached(s) == link[s] = "up" /\ wifi

(* The server takes what was written, and answers a greeting or a heartbeat. *)
Serve(s) ==
  /\ Reached(s) /\ asked[s]
  /\ asked' = [asked EXCEPT ![s] = FALSE]
  /\ inbox' = [inbox EXCEPT ![s] = "answer"]
  /\ UNCHANGED <<status, sock, link, queue, waiters, sender, receiver, wifi, event, struck, incidents>>

Command(s) ==
  /\ Reached(s) /\ inbox[s] = "none" /\ Incident
  /\ inbox' = [inbox EXCEPT ![s] = "command"]
  /\ UNCHANGED <<status, sock, link, asked, queue, waiters, sender, receiver, wifi, event,  struck>>

LinkFails(s) ==
  /\ link[s] = "up" /\ Incident
  /\ \E how \in {"silent", "reset"} : link' = [link EXCEPT ![s] = how]
  /\ UNCHANGED <<status, sock, asked, inbox, queue, waiters, sender, receiver, wifi, event, struck>>

(* TCP gives up on what is never acknowledged (CONFIG_TCP_MAXRTX). *)
GiveUp(s) ==
  /\ link[s] \in {"up", "silent"} /\ ~Reached(s) /\ asked[s]
  /\ link' = [link EXCEPT ![s] = "reset"]
  /\ UNCHANGED <<status, sock, asked, inbox, queue, waiters, sender, receiver, wifi, event, struck, incidents>>

Next ==
  \/ Sender \/ FactoryReset \/ Receiver \/ EventTask \/ LoseWifi \/ Tick \/ Notify \/ Enqueue
  \/ \E s \in Fd : Serve(s) \/ Command(s) \/ LinkFails(s) \/ GiveUp(s)

Spec == Init /\ [][Next]_vars

(* Every task goes on; the Wi-Fi comes back (GotIp), the timer ticks, and   *)
(* the server answers on a link that works.                                 *)
Fairness ==
  /\ WF_vars(Sender) /\ WF_vars(Receiver) /\ WF_vars(EventTask) /\ WF_vars(Tick)
  /\ WF_vars(Enqueue) /\ SF_vars(Elapse)
  /\ \A s \in Fd : WF_vars(Serve(s)) /\ WF_vars(GiveUp(s))
FairSpec == Spec /\ Fairness

-----------------------------------------------------------------------------
TypeOK ==
  /\ status \in Statuses /\ sock \in Fd \cup {None}
  /\ link \in [Fd -> {"free", "up", "silent", "reset"}]
  /\ asked \in [Fd -> BOOLEAN]
  /\ inbox \in [Fd -> {"none", "answer", "command"}]
  /\ queue \in Seq(Message) /\ Len(queue) <= QueueSize
  /\ waiters \in Seq([task : Clients, msg : Message])
  /\ send \in SendPlaces /\ req \in Message \cup {None} /\ tries \in 0..ERROR_RETRY_COUNT
  /\ recv \in {"top", "read", "ack", "failed", "late"} /\ reading \in Fd \cup {None}
  /\ wifi \in BOOLEAN /\ event \in Events /\ struck \in BOOLEAN
  /\ incidents \in Nat

(* Although three tasks write the status, CONNECT always stands for a       *)
(* socket that is open, and the sender never uses another one.              *)
Using == {"receive", "write", "stay", "select", "timeout"}
ConnectedIsOpen ==
  status = "CONNECT" \/ send \in Using => sock \in Fd /\ link[sock] # "free"

(* As long as no Wi-Fi event has overwritten the status of a connection, a  *)
(* connection that is replaced has been closed: sockets do not run out.     *)
NoneLeaks == ~struck => \A s \in Fd : link[s] # "free" => s = sock

(* However the link dies, the tasks overtake each other, or posts get lost, *)
(* the device is connected again.                                           *)
Reconnects == []<>(status = "CONNECT" /\ sock \in Fd /\ Reached(sock))

(* As long as no Wi-Fi event has overwritten the status of a connection,    *)
(* the receiver comes back to the one the sender made: the device hears.    *)
Heard ==
  []~struck => []<>(recv = "read" /\ sock \in Fd /\ reading = sock /\ Reached(sock))

(* None of the tasks that wait for room in the sender's queue waits for     *)
(* ever, although the sender does not read it while it logs in.             *)
Unblocked ==
  /\ \A c \in Clients : []<>~Waiting(c)
  /\ []<>(recv # "ack")

(* "when the server is connected again, discard all leftover data"          *)
(* (init.c:143): when the device connects, no message of before is queued.  *)
(* Not so where the loop that discards them is left early (README, 6).      *)
LeftoversDropped == send = "connect" => \A i \in DOMAIN queue : queue[i] = "sync"
=============================================================================
