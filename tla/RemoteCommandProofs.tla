------------------------- MODULE RemoteCommandProofs -------------------------
(* The connection and its sockets, for any number of sockets, any queue and *)
(* any number of incidents.                                                 *)
EXTENDS RemoteCommand, TLAPS

(* The third failure ends the attempts to write a message.                  *)
Typed == TypeOK /\ (send = "write" => tries < ERROR_RETRY_COUNT)

(* Between Dispatch and Close nobody makes the status CONNECT.              *)
ClosedInTime == send = "close" => status # "CONNECT"

AllFree == \A s \in Fd : link[s] = "free"

(* Where the sender has no connection, there is none.                       *)
Unconnected ==
  \/ send \in {"idle", "login", "retry", "drain", "connect"}
  \/ send \in {"top", "dark", "switch"} /\ status \in {"LOGIN", "INIT"}

(* A connection in use loses its status to DISCONNECT only.                 *)
Accounted ==
  ~struck => /\ Unconnected => AllFree
             /\ send \in Using => status \in {"CONNECT", "DISCONNECT"}
             /\ \A s \in Fd : link[s] # "free" => s = sock

IInv == Typed /\ ConnectedIsOpen /\ ClosedInTime /\ Accounted

-----------------------------------------------------------------------------
LEMMA EmptyQueue == <<>> \in Seq(Message) /\ Len(<<>>) = 0
  OBVIOUS

LEMMA PostType ==
  ASSUME queue \in Seq(Message), Len(queue) <= QueueSize, PostSync
  PROVE  queue' \in Seq(Message) /\ Len(queue') <= QueueSize
  BY RemoteAssumption DEF PostSync, Room, Message

LEMMA PopType ==
  ASSUME NEW S, NEW q \in Seq(S), q # <<>>
  PROVE  Head(q) \in S /\ Tail(q) \in Seq(S) /\ Len(Tail(q)) = Len(q) - 1
  OBVIOUS

LEMMA ReadType ==
  ASSUME queue \in Seq(Message), queue # <<>>
  PROVE  Head(queue) \in Message /\ Tail(queue) \in Seq(Message) /\ Len(Tail(queue)) = Len(queue) - 1
  BY PopType

LEMMA TypedStep == Typed /\ [Next]_vars => Typed'
<1> SUFFICES ASSUME Typed, [Next]_vars PROVE Typed'
  OBVIOUS
<1> USE RemoteAssumption DEF Typed, TypeOK
<1>1. CASE UNCHANGED vars
  BY <1>1 DEF vars, net, sender, receiver
<1>2. CASE Sender
  <2>1. CASE Check
    BY <2>1 DEF Check, net, receiver, Statuses, SendPlaces
  <2>2. CASE Idle
    <3>1. req' \in Message \cup {None} /\ queue' \in Seq(Message) /\ Len(queue') <= QueueSize
      <4>1. queue \in Seq(Message) /\ Len(queue) \in Nat /\ Len(queue) <= QueueSize /\ req \in Message \cup {None}
        OBVIOUS
      <4> HIDE DEF Typed, TypeOK
      <4>2. \/ UNCHANGED queue /\ req' \in {req, None}
            \/ queue # <<>> /\ req' = Head(queue) /\ queue' = Tail(queue)
        BY <2>2 DEF Idle, WaitOnQueue
      <4>3. QED
        BY <4>1, <4>2, ReadType
    <3>2. send' \in SendPlaces /\ send' # "write"
      BY <2>2 DEF Idle, WaitOnQueue, SendPlaces
    <3>3. QED
      BY <2>2, <3>1, <3>2 DEF Idle, net, receiver
  <2>3. CASE Dispatch
    BY <2>3 DEF Dispatch, net, receiver, Statuses, SendPlaces
  <2>4. CASE Close
    BY <2>4 DEF Close, Closed, net, receiver, SendPlaces
  <2>5. CASE Login
    BY <2>5 DEF Login, Incident, NoIncident, net, receiver, Statuses, SendPlaces
  <2>6. CASE Drain
    <3>1. req' \in Message \cup {None} /\ queue' \in Seq(Message) /\ Len(queue') <= QueueSize
      <4>1. queue \in Seq(Message) /\ Len(queue) \in Nat /\ Len(queue) <= QueueSize /\ req \in Message \cup {None}
        OBVIOUS
      <4> HIDE DEF Typed, TypeOK
      <4>2. \/ UNCHANGED queue /\ req' \in {req, None}
            \/ queue # <<>> /\ req' = Head(queue) /\ queue' = Tail(queue)
        BY <2>6 DEF Drain
      <4>3. QED
        BY <4>1, <4>2, ReadType
    <3>2. send' \in SendPlaces /\ send' # "write"
      BY <2>6 DEF Drain, SendPlaces
    <3>3. QED
      BY <2>6, <3>1, <3>2 DEF Drain, net, receiver
  <2>7. CASE Connect
    BY <2>7 DEF Connect, Incident, NoIncident, receiver, Statuses, SendPlaces
  <2>8. CASE Receive
    BY <2>8 DEF Receive, Lost, net, receiver, SendPlaces, ERROR_RETRY_COUNT
  <2>9. CASE Write
    <3>1. asked' \in [Fd -> BOOLEAN] /\ incidents' \in Nat /\ status' \in Statuses
      <4>1. asked' = [asked EXCEPT ![sock] = TRUE] \/ UNCHANGED asked
        BY <2>9 DEF Write
      <4>2. asked' \in [Fd -> BOOLEAN]
        BY <4>1
      <4>3. incidents' \in Nat /\ status' \in Statuses
        BY <2>9 DEF Write, Incident, NoIncident, Statuses
      <4>4. QED
        BY <4>2, <4>3
    <3>2. /\ tries' \in 0..ERROR_RETRY_COUNT /\ send' \in SendPlaces
          /\ req' \in Message \cup {None} /\ (send' = "write" => tries' < ERROR_RETRY_COUNT)
      BY <2>9 DEF Write, SendPlaces, ERROR_RETRY_COUNT
    <3>3. QED
      BY <2>9, <3>1, <3>2 DEF Write, receiver
  <2>10. CASE Stay
    BY <2>10 DEF Stay, net, receiver, Statuses, SendPlaces
  <2>11. CASE Select
    BY <2>11 DEF Select, Incident, NoIncident, net, receiver, SendPlaces
  <2>12. CASE Timeout
    BY <2>12 DEF Timeout, net, receiver, Statuses, SendPlaces
  <2>13. QED
    BY <1>2, <2>1, <2>2, <2>3, <2>4, <2>5, <2>6, <2>7, <2>8, <2>9, <2>10, <2>11, <2>12 DEF Sender
<1>3. CASE FactoryReset
  <2>1. queue' \in Seq(Message) /\ Len(queue') <= QueueSize /\ incidents' \in Nat
    BY <1>3, EmptyQueue DEF FactoryReset, Incident
  <2>2. /\ link' \in [Fd -> {"free", "up", "silent", "reset"}] /\ asked' \in [Fd -> BOOLEAN]
        /\ inbox' \in [Fd -> {"none", "answer", "command"}]
        /\ waiters' \in Seq([task : Clients, msg : Message])
    BY <1>3 DEF FactoryReset
  <2>3. /\ status' \in Statuses /\ sock' = None /\ send' \in SendPlaces /\ send' # "write"
        /\ req' = None /\ tries' \in 0..ERROR_RETRY_COUNT /\ reading' = None
    BY <1>3 DEF FactoryReset, Statuses, SendPlaces, ERROR_RETRY_COUNT
  <2>4. recv' = "top" /\ wifi' = FALSE /\ event' \in Events /\ struck' = FALSE
    BY <1>3 DEF FactoryReset, Events
  <2>5. QED
    BY <2>1, <2>2, <2>3, <2>4
<1>4. CASE Receiver
  <2>1. CASE Look
    <3>1. queue' \in Seq(Message) /\ Len(queue') <= QueueSize
      BY <2>1, PostType DEF Look
    <3>2. recv' \in {"top", "read"} \cup {recv} /\ reading' \in Fd \cup {None}
      BY <2>1 DEF Look, receiver
    <3>3. QED
      BY <2>1, <3>1, <3>2 DEF Look, net, sender
  <2>2. CASE Deliver
    BY <2>2 DEF Deliver, sender
  <2>3. CASE ReadFails
    BY <2>3 DEF ReadFails, net, sender
  <2>4. CASE Elapse
    BY <2>4 DEF Elapse, net, sender
  <2>5. CASE Late
    BY <2>5 DEF Late, net, sender, Statuses
  <2>6. QED
    BY <1>4, <2>1, <2>2, <2>3, <2>4, <2>5 DEF Receiver
<1>5. CASE EventTask \/ LoseWifi
  <2>1. CASE GotIp
    BY <2>1 DEF GotIp, net, sender, receiver, Events
  <2>2. CASE SetStatus
    BY <2>2 DEF SetStatus, net, sender, receiver, Events, Statuses
  <2>3. CASE PostStatus
    BY <2>3 DEF PostStatus, PostSync, Room, Message, net, sender, receiver, Events
  <2>4. CASE Drop
    BY <2>4 DEF Drop, net, sender, receiver, Events
  <2>5. CASE LoseWifi
    BY <2>5 DEF LoseWifi, Incident, net, sender, receiver, Events
  <2>6. QED
    BY <1>5, <2>1, <2>2, <2>3, <2>4, <2>5 DEF EventTask
<1>6. CASE Tick \/ Notify
  <2>1. PICK c \in Clients, kind \in Message : Call(c, kind)
    BY <1>6 DEF Tick, Notify, Clients, Message
  <2>2. waiters' \in Seq([task : Clients, msg : Message])
    BY <2>1 DEF Call
  <2>3. QED
    BY <2>1, <2>2 DEF Call, net, sender, receiver
<1>7. CASE Enqueue
  <2>1. CASE recv = "ack"
    BY <1>7, <2>1 DEF Enqueue, Room, net, sender, Message
  <2>2. CASE recv # "ack"
    <3>1. waiters # <<>> /\ queue' = Append(queue, Head(waiters).msg) /\ waiters' = Tail(waiters)
      BY <1>7, <2>2 DEF Enqueue
    <3>2. Head(waiters).msg \in Message /\ waiters' \in Seq([task : Clients, msg : Message])
      <4> DEFINE Caller == [task : Clients, msg : Message]
      <4>1. waiters \in Seq(Caller)
        OBVIOUS
      <4> HIDE DEF Caller
      <4>2. Head(waiters) \in Caller /\ waiters' \in Seq(Caller)
        BY <3>1, <4>1, PopType
      <4>3. QED
        BY <4>2 DEF Caller
    <3>3. queue' \in Seq(Message) /\ Len(queue') <= QueueSize
      BY <1>7, <3>1, <3>2 DEF Enqueue, Room
    <3>4. QED
      BY <1>7, <2>2, <3>2, <3>3 DEF Enqueue, net, sender, receiver
  <2>3. QED
    BY <2>1, <2>2
<1>8. ASSUME NEW s \in Fd, Serve(s) \/ Command(s) \/ LinkFails(s) \/ GiveUp(s) PROVE Typed'
  <2>1. link' \in [Fd -> {"free", "up", "silent", "reset"}] /\ asked' \in [Fd -> BOOLEAN]
    BY <1>8 DEF Serve, Command, LinkFails, GiveUp
  <2>2. inbox' \in [Fd -> {"none", "answer", "command"}] /\ incidents' \in Nat
    BY <1>8 DEF Serve, Command, LinkFails, GiveUp, Incident
  <2>3. QED
    BY <1>8, <2>1, <2>2 DEF Serve, Command, LinkFails, GiveUp, sender, receiver
<1>9. QED
  BY <1>1, <1>2, <1>3, <1>4, <1>5, <1>6, <1>7, <1>8 DEF Next

-----------------------------------------------------------------------------
(* The connection: what the sender does to it.                              *)
LEMMA SenderStep == IInv /\ Sender => (ConnectedIsOpen /\ ClosedInTime /\ Accounted)'
<1> SUFFICES ASSUME IInv, Sender PROVE (ConnectedIsOpen /\ ClosedInTime /\ Accounted)'
  OBVIOUS
<1> USE RemoteAssumption DEF IInv, Typed, TypeOK, ConnectedIsOpen, ClosedInTime, Accounted, Using,
                             Unconnected, AllFree
<1>1. CASE Check
  BY <1>1 DEF Check, net, Statuses
<1>2. CASE Idle
  BY <1>2 DEF Idle, WaitOnQueue, net
<1>3. CASE Dispatch
  BY <1>3 DEF Dispatch, net, Statuses
<1>4. CASE Close
  <2>1. sock \in Fd => link' = [link EXCEPT ![sock] = "free"]
    BY <1>4 DEF Close, Closed
  <2>2. ~struck => AllFree'
    BY <1>4, <2>1 DEF Close, net
  <2>3. QED
    BY <1>4, <2>2 DEF Close
<1>5. CASE Login
  BY <1>5 DEF Login, net
<1>6. CASE Drain
  BY <1>6 DEF Drain, net
<1>7. CASE Connect
  BY <1>7 DEF Connect
<1>8. CASE Receive
  BY <1>8 DEF Receive, net
<1>9. CASE Write
  BY <1>9 DEF Write
<1>10. CASE Stay
  BY <1>10 DEF Stay, net
<1>11. CASE Select
  BY <1>11 DEF Select, net
<1>12. CASE Timeout
  BY <1>12 DEF Timeout, net
<1>13. QED
  BY <1>1, <1>2, <1>3, <1>4, <1>5, <1>6, <1>7, <1>8, <1>9, <1>10, <1>11, <1>12 DEF Sender

(* What everybody else does to it.                                          *)
LEMMA OthersStep ==
  ASSUME IInv, \/ UNCHANGED vars \/ FactoryReset \/ Receiver \/ EventTask \/ LoseWifi
               \/ Tick \/ Notify \/ Enqueue
               \/ \E s \in Fd : Serve(s) \/ Command(s) \/ LinkFails(s) \/ GiveUp(s)
  PROVE  (ConnectedIsOpen /\ ClosedInTime /\ Accounted)'
<1> USE RemoteAssumption DEF IInv, Typed, TypeOK, ConnectedIsOpen, ClosedInTime, Accounted, Using,
                             Unconnected, AllFree
<1>1. CASE \/ UNCHANGED vars \/ Tick \/ Notify \/ LoseWifi \/ Look \/ Deliver \/ ReadFails \/ Elapse
           \/ GotIp \/ PostStatus \/ Drop \/ Enqueue
  <2>1. UNCHANGED <<status, sock, link, send, struck>>
    BY <1>1 DEF vars, net, sender, Tick, Notify, Call, LoseWifi, Look, Deliver, ReadFails, Elapse, GotIp,
                PostStatus, Drop, Enqueue
  <2>2. QED
    BY <2>1
<1>2. CASE FactoryReset
  BY <1>2 DEF FactoryReset
<1>3. CASE Late
  BY <1>3 DEF Late, net, sender
<1>4. CASE SetStatus
  BY <1>4 DEF SetStatus, net, sender, Statuses
<1>5. ASSUME NEW s \in Fd, Serve(s) \/ Command(s) \/ LinkFails(s) \/ GiveUp(s)
      PROVE  (ConnectedIsOpen /\ ClosedInTime /\ Accounted)'
  <2>1. UNCHANGED <<status, sock, send, struck>>
    BY <1>5 DEF Serve, Command, LinkFails, GiveUp, sender
  <2>2. \A t \in Fd : link'[t] = "free" <=> link[t] = "free"
    BY <1>5 DEF Serve, Command, LinkFails, GiveUp
  <2>3. QED
    BY <2>1, <2>2
<1>6. QED
  BY <1>1, <1>2, <1>3, <1>4, <1>5 DEF Receiver, EventTask

-----------------------------------------------------------------------------
LEMMA InitInductive == Init => IInv
<1> SUFFICES ASSUME Init PROVE IInv
  OBVIOUS
<1>1. queue \in Seq(Message) /\ Len(queue) <= QueueSize
  BY EmptyQueue, RemoteAssumption DEF Init
<1>2. /\ link \in [Fd -> {"free", "up", "silent", "reset"}] /\ asked \in [Fd -> BOOLEAN]
      /\ inbox \in [Fd -> {"none", "answer", "command"}]
      /\ waiters \in Seq([task : Clients, msg : Message])
  BY DEF Init
<1>3. /\ status \in Statuses /\ sock = None /\ send \in SendPlaces /\ send # "write"
      /\ req = None /\ tries \in 0..ERROR_RETRY_COUNT /\ reading = None
  BY DEF Init, Statuses, SendPlaces, ERROR_RETRY_COUNT
<1>4. recv = "top" /\ wifi = FALSE /\ event \in Events /\ struck = FALSE /\ incidents \in Nat
  BY DEF Init, Events
<1>5. Typed
  BY <1>1, <1>2, <1>3, <1>4 DEF Typed, TypeOK
<1>6. ConnectedIsOpen /\ ClosedInTime /\ Accounted
  BY DEF Init, ConnectedIsOpen, ClosedInTime, Accounted, Unconnected, AllFree, Using
<1>7. QED
  BY <1>5, <1>6 DEF IInv

(* The inductive invariant of the two tasks and the event handler.          *)
THEOREM Inductive == Spec => []IInv
<1>1. IInv /\ [Next]_vars => IInv'
  BY TypedStep, SenderStep, OthersStep DEF Next, IInv
<1>2. QED
  BY InitInductive, <1>1, PTL DEF Spec

(* Every state of remote_command is well typed, whatever the server and the *)
(* Wi-Fi do.                                                                *)
THEOREM TypeCorrect == Spec => []TypeOK
  BY Inductive, PTL DEF IInv, Typed

(* CONNECT stands for an open socket, although three tasks write the status *)
(* of remote_command.c without a lock.                                      *)
THEOREM StatusHolds == Spec => []ConnectedIsOpen
  BY Inductive, PTL DEF IInv

(* A connection that is replaced has been closed, unless a Wi-Fi event has  *)
(* overwritten its status (set_server_connect_status).                      *)
THEOREM SocketsKept == Spec => []NoneLeaks
<1>1. IInv => NoneLeaks
  BY DEF IInv, Accounted, NoneLeaks
<1>2. QED
  BY Inductive, <1>1, PTL
=============================================================================
