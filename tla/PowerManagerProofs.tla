-------------------------- MODULE PowerManagerProofs --------------------------
(***************************************************************************)
(* Theorems about the power manager, for any list of locks and any lengths *)
(* of the two queues.                                                      *)
(***************************************************************************)
EXTENDS PowerManager, SequenceTheorems, TLAPS

(* What Append and Tail do, in the terms of the model. *)
LEMMA AppendFacts ==
  ASSUME NEW S, NEW s \in Seq(S), NEW e \in S
  PROVE /\ Append(s, e) \in Seq(S) /\ Len(Append(s, e)) = Len(s) + 1
        /\ Append(s, e) # <<>>
        /\ Append(s, e)[Len(s) + 1] = e
        /\ \A i \in DOMAIN s : i \in DOMAIN Append(s, e) /\ Append(s, e)[i] = s[i]
        /\ Len(s) + 1 \in DOMAIN Append(s, e)
<1>1. Append(s, e) \in Seq(S) /\ Len(Append(s, e)) = Len(s) + 1
  BY AppendProperties
<1>2. \A i \in 1..Len(s) : Append(s, e)[i] = s[i]
  BY AppendProperties
<1>3. Append(s, e)[Len(s) + 1] = e
  BY AppendProperties
<1>4. Len(s) \in Nat /\ DOMAIN s = 1..Len(s)
  BY LenProperties
<1>5. DOMAIN Append(s, e) = 1..(Len(s) + 1)
  BY <1>1, LenProperties
<1>6. Append(s, e) # <<>>
  BY <1>1, <1>4, EmptySeq
<1> QED
  BY <1>1, <1>2, <1>3, <1>4, <1>5, <1>6

LEMMA TailFacts ==
  ASSUME NEW S, NEW s \in Seq(S), s # <<>>
  PROVE /\ Head(s) \in S /\ Head(s) = s[1] /\ Tail(s) \in Seq(S)
        /\ Len(Tail(s)) = Len(s) - 1 /\ Len(s) \in Nat /\ Len(s) > 0
        /\ \A i \in DOMAIN s : i # 1 =>
              i - 1 \in DOMAIN Tail(s) /\ Tail(s)[i - 1] = s[i]
        /\ Tail(s) # <<>> => Tail(s)[Len(Tail(s))] = s[Len(s)]
        /\ Tail(s) = <<>> => Len(s) = 1
<1>1. /\ Head(s) \in S /\ Tail(s) \in Seq(S) /\ Len(Tail(s)) = Len(s) - 1
      /\ \A i \in 1..Len(Tail(s)) : Tail(s)[i] = s[i + 1]
  BY HeadTailProperties
<1>2. Len(s) \in Nat /\ DOMAIN s = 1..Len(s) /\ Len(s) > 0
  BY LenProperties, EmptySeq
<1>3. DOMAIN Tail(s) = 1..(Len(s) - 1)
  BY <1>1, LenProperties
<1>4. Head(s) = s[1]
  BY HeadTailProperties
<1>5. Tail(s) = <<>> <=> Len(s) = 1
  BY <1>1, <1>2, EmptySeq
<1> QED
  BY <1>1, <1>2, <1>3, <1>4, <1>5

-----------------------------------------------------------------------------
(* TYPES *)

(* Restart posts at most one command and marks at most Tick as lost. *)
LEMMA RestartType ==
  ASSUME TypeOK, Restart
  PROVE  /\ timer_cmds' \in Seq({"start", "stop"}) /\ Len(timer_cmds') <= TimerCap
         /\ lost' \subseteq Locks \cup {Tick}
<1>1. /\ Append(timer_cmds, "start") \in Seq({"start", "stop"})
      /\ Len(Append(timer_cmds, "start")) = Len(timer_cmds) + 1 /\ Len(timer_cmds) \in Nat
  BY AppendFacts, LenProperties DEF TypeOK
<1>2. timer_cmds' \in Seq({"start", "stop"}) /\ Len(timer_cmds') <= TimerCap
  <2>1. TimerCap \in Nat
    BY PowerAssumption
  <2>2. CASE Room(timer_cmds, TimerCap)
    BY <1>1, <2>1, <2>2 DEF Restart, Room
  <2>3. CASE ~Room(timer_cmds, TimerCap)
    BY <2>3 DEF Restart, TypeOK
  <2> QED
    BY <2>2, <2>3
<1>3. lost' \subseteq Locks \cup {Tick}
  BY DEF Restart, TypeOK
<1> QED
  BY <1>2, <1>3

(* A message added with room left keeps the type of pm_queue. *)
LEMMA PostType ==
  ASSUME TypeOK, NEW m \in Message, Room(pm_queue, QueueCap)
  PROVE  Append(pm_queue, m) \in Seq(Message) /\ Len(Append(pm_queue, m)) <= QueueCap
<1>1. /\ Append(pm_queue, m) \in Seq(Message)
      /\ Len(Append(pm_queue, m)) = Len(pm_queue) + 1 /\ Len(pm_queue) \in Nat
  BY AppendFacts, LenProperties DEF TypeOK
<1> QED
  BY <1>1, PowerAssumption DEF Room

(* A message taken keeps the type of pm_queue. *)
LEMMA ReceiveType ==
  ASSUME TypeOK, NEW m \in Message, Receive(m)
  PROVE  pm_queue' \in Seq(Message) /\ Len(pm_queue') <= QueueCap
<1>1. /\ Tail(pm_queue) \in Seq(Message)
      /\ Len(Tail(pm_queue)) = Len(pm_queue) - 1 /\ Len(pm_queue) \in Nat
  BY TailFacts DEF TypeOK, Receive
<1> QED
  BY <1>1, PowerAssumption DEF Receive, TypeOK

(* The cursor of the search stays inside the list. *)
LEMMA CursorType ==
  /\ 1 \in DOMAIN LockList
  /\ \A c \in DOMAIN LockList : c # Len(LockList) => c + 1 \in DOMAIN LockList
BY PowerAssumption, LenProperties

LEMMA InitType == Init => TypeOK
<1>1. <<>> \in Seq(Message) /\ <<>> \in Seq({"start", "stop"}) /\ Len(<<>>) = 0
  BY EmptySeq
<1>2. 1 \in DOMAIN LockList
  BY CursorType
<1>3. 0 <= QueueCap /\ 0 <= TimerCap
  BY PowerAssumption
<1> QED
  BY <1>1, <1>2, <1>3 DEF Init, TypeOK

(* Every action keeps the types. *)
LEMMA NextType == TypeOK /\ [Next]_vars => TypeOK'
<1> SUFFICES ASSUME TypeOK, [Next]_vars PROVE TypeOK'
  OBVIOUS
<1> USE DEF clients, task, daemon
<1>1. CASE PowerManagerInit
  <2>1. <<"start">> \in Seq({"start", "stop"}) /\ Len(<<"start">>) = 1
    OBVIOUS
  <2> QED
    BY <1>1, <2>1, PowerAssumption DEF PowerManagerInit, TypeOK
<1>2. ASSUME NEW l \in Locks, Acquire(l) PROVE TypeOK'
  BY <1>2 DEF Acquire, TypeOK
<1>3. ASSUME NEW l \in Locks, Notify(l) PROVE TypeOK'
  <2>1. [lock |-> l, active |-> active[l]] \in Message
    BY DEF TypeOK, Message
  <2> QED
    BY <1>3, <2>1, PostType DEF Notify, TypeOK
<1>4. ASSUME NEW l \in Locks, Release(l) PROVE TypeOK'
  BY <1>4 DEF Release, TypeOK
<1>5. ASSUME NEW l \in Locks, Reset(l) PROVE TypeOK'
  BY <1>5, RestartType DEF Reset, TypeOK
<1>6. CASE BeginSearch
  BY <1>6, ReceiveType, CursorType DEF BeginSearch, Receive, TypeOK
<1>7. CASE WakeUp
  BY <1>7, ReceiveType DEF WakeUp, Receive, TypeOK
<1>8. CASE AlreadyAwake
  BY <1>8, ReceiveType DEF AlreadyAwake, Receive, TypeOK
<1>9. CASE Look
  BY <1>9, CursorType DEF Look, AtEnd, TypeOK
<1>10. CASE Doze
  BY <1>10 DEF Doze, TypeOK
<1>11. CASE Halt
  <2>1. /\ Append(timer_cmds, "stop") \in Seq({"start", "stop"})
        /\ Len(Append(timer_cmds, "stop")) = Len(timer_cmds) + 1 /\ Len(timer_cmds) \in Nat
    BY AppendFacts, LenProperties DEF TypeOK
  <2>2. timer_cmds' \in Seq({"start", "stop"}) /\ Len(timer_cmds') <= TimerCap
    BY <1>11, <2>1, PowerAssumption DEF Halt, Room, TypeOK
  <2> QED
    BY <1>11, <2>2 DEF Halt, TypeOK
<1>12. CASE Rouse
  BY <1>12, RestartType DEF Rouse, TypeOK
<1>13. CASE ObeyCommand
  <2>1. /\ Tail(timer_cmds) \in Seq({"start", "stop"})
        /\ Len(Tail(timer_cmds)) = Len(timer_cmds) - 1 /\ Len(timer_cmds) \in Nat
    BY <1>13, TailFacts DEF TypeOK, ObeyCommand
  <2>2. timer_cmds' \in Seq({"start", "stop"}) /\ Len(timer_cmds') <= TimerCap
    BY <1>13, <2>1, PowerAssumption DEF ObeyCommand, TypeOK
  <2> QED
    BY <1>13, <2>2 DEF ObeyCommand, TypeOK
<1>14. CASE Expire
  <2>1. [lock |-> Tick, active |-> FALSE] \in Message
    BY DEF Message
  <2> QED
    BY <1>14, <2>1, PostType DEF Expire, TypeOK
<1>15. CASE UNCHANGED vars
  BY <1>15 DEF vars, TypeOK
<1> QED
  BY <1>1, <1>2, <1>3, <1>4, <1>5, <1>6, <1>7, <1>8, <1>9, <1>10, <1>11, <1>12, <1>13,
     <1>14, <1>15 DEF Next, PM, Owner

(* The variables of power_manager.c keep their types and the queues their   *)
(* lengths.                                                                 *)
THEOREM TypeCorrect == Spec => []TypeOK
BY InitType, NextType, PTL DEF Spec

-----------------------------------------------------------------------------
(* NO SLEEP UNDER A LOCK THAT IS HELD *)

(* The search has looked at l and gone on. *)
Passed(l) == pm = "search" /\ \E i \in DOMAIN LockList : i < cursor /\ LockList[i] = l

(* A lock that is held is active, so the search goes past it only if it was *)
(* acquired later; its notification is then still in front of the pm task.  *)
HeldIsActive == \A l \in Locks : Counts(l) => active[l]
Endangered(l) == ~awake \/ pm = "doze" \/ Passed(l)
HeardInv ==
  /\ TypeOK /\ HeldIsActive
  /\ \A l \in Locks : Counts(l) /\ Endangered(l) => OnItsWay(l)

(* Only a receive removes what is posted, and only its own message. *)
LEMMA PostedStays ==
  ASSUME TypeOK, NEW l \in Locks, Posted(l)
  PROVE  /\ \A m \in Message : pm_queue' = Append(pm_queue, m) => Posted(l)'
         /\ pm_queue' = pm_queue => Posted(l)'
         /\ \A m \in Message :
              Receive(m) /\ ~(m.lock = l /\ m.active) => Posted(l)'
<1>1. PICK i \in DOMAIN pm_queue : pm_queue[i].lock = l /\ pm_queue[i].active
  BY DEF Posted
<1>2. pm_queue \in Seq(Message)
  BY DEF TypeOK
<1>3. ASSUME NEW m \in Message, pm_queue' = Append(pm_queue, m) PROVE Posted(l)'
  <2>1. i \in DOMAIN pm_queue' /\ pm_queue'[i] = pm_queue[i]
    BY <1>2, <1>3, AppendFacts
  <2> QED
    BY <1>1, <2>1 DEF Posted
<1>4. pm_queue' = pm_queue => Posted(l)'
  BY <1>1 DEF Posted
<1>5. ASSUME NEW m \in Message, Receive(m), ~(m.lock = l /\ m.active) PROVE Posted(l)'
  <2>1. pm_queue # <<>> /\ m = Head(pm_queue) /\ pm_queue' = Tail(pm_queue)
    BY <1>5 DEF Receive
  <2>2. m = pm_queue[1]
    BY <1>2, <2>1, TailFacts
  <2>3. i # 1
    BY <1>1, <1>5, <2>2
  <2>4. i - 1 \in DOMAIN pm_queue' /\ pm_queue'[i - 1] = pm_queue[i]
    BY <1>2, <2>1, <2>3, TailFacts
  <2> QED
    BY <1>1, <2>4 DEF Posted
<1> QED
  BY <1>3, <1>4, <1>5

(* The steps of the owners and of the timer task keep the invariant. *)
LEMMA OwnersKeepHeard ==
  ASSUME HeardInv, NEW k \in Locks, Owner(k)
  PROVE  HeardInv'
<1> USE DEF clients, task, daemon
<1>1. TypeOK /\ TypeOK'
  BY NextType DEF HeardInv, Next
<1>2. CASE Acquire(k)
  <2>1. HeldIsActive'
    BY <1>1, <1>2 DEF Acquire, HeldIsActive, HeardInv, Counts, TypeOK
  <2>2. ASSUME NEW l \in Locks, Counts(l)', Endangered(l)' PROVE OnItsWay(l)'
    <3>1. Endangered(l) /\ pm_queue' = pm_queue
      BY <1>2, <2>2 DEF Acquire, Endangered, Passed
    <3>2. CASE l = k
      BY <1>1, <1>2, <2>2, <3>2 DEF Acquire, OnItsWay, Counts, TypeOK
    <3>3. CASE l # k
      <4>1. Counts(l) /\ call'[l] = call[l]
        BY <1>1, <1>2, <2>2, <3>3 DEF Acquire, Counts, TypeOK
      <4> QED
        BY <3>1, <4>1, PostedStays, <1>1 DEF HeardInv, OnItsWay
    <3> QED
      BY <3>2, <3>3
  <2> QED
    BY <1>1, <2>1, <2>2 DEF HeardInv
<1>3. CASE Notify(k)
  <2>1. HeldIsActive'
    BY <1>3 DEF Notify, HeldIsActive, HeardInv, Counts
  <2>2. ASSUME NEW l \in Locks, Counts(l)', Endangered(l)' PROVE OnItsWay(l)'
    <3> DEFINE m == [lock |-> k, active |-> active[k]]
    <3>1. Endangered(l) /\ Counts(l) /\ OnItsWay(l) /\ active[l]
      BY <1>3, <2>2 DEF Notify, Endangered, Passed, Counts, HeardInv, HeldIsActive
    <3>2. m \in Message
      BY <1>1 DEF TypeOK, Message
    <3>3. CASE l = k
      <4>1. pm_queue' = Append(pm_queue, m)
        BY <1>3, <2>2, <3>3 DEF Notify, Counts
      <4>2. Len(pm_queue) + 1 \in DOMAIN pm_queue' /\ pm_queue'[Len(pm_queue) + 1] = m
        BY <1>1, <3>2, <4>1, AppendFacts DEF TypeOK
      <4>3. m.lock = l /\ m.active
        BY <3>1, <3>3
      <4> QED
        BY <4>2, <4>3 DEF OnItsWay, Posted
    <3>4. CASE l # k
      <4>1. call'[l] = call[l] /\ (pm_queue' = pm_queue \/ pm_queue' = Append(pm_queue, m))
        BY <1>1, <1>3, <3>4 DEF Notify, TypeOK
      <4> QED
        BY <1>1, <3>1, <3>2, <4>1, PostedStays DEF OnItsWay
    <3> QED
      BY <3>3, <3>4
  <2> QED
    BY <1>1, <2>1, <2>2 DEF HeardInv
<1>4. CASE Release(k) \/ Reset(k)
  <2>1. /\ pm_queue' = pm_queue /\ pm' = pm /\ cursor' = cursor /\ awake' = awake
        /\ \A l \in Locks : l \in lost' <=> l \in lost
    BY <1>4, PowerAssumption DEF Release, Reset, Restart
  <2>2. ASSUME NEW l \in Locks, Counts(l)'
        PROVE Counts(l) /\ active'[l] = active[l] /\ (call[l] = "notify" => call'[l] = "notify")
    <3>1. CASE Release(k)
      <4>1. l # k
        BY <1>1, <2>2, <3>1 DEF Release, Counts, TypeOK
      <4> QED
        BY <1>1, <2>1, <2>2, <3>1, <4>1 DEF Release, Counts, TypeOK
    <3>2. CASE Reset(k)
      BY <1>1, <2>1, <2>2, <3>2 DEF Reset, Counts, TypeOK
    <3> QED
      BY <1>4, <3>1, <3>2
  <2>3. HeldIsActive'
    BY <2>2 DEF HeldIsActive, HeardInv
  <2>4. ASSUME NEW l \in Locks, Counts(l)', Endangered(l)' PROVE OnItsWay(l)'
    <3>1. Endangered(l)
      BY <2>1, <2>4 DEF Endangered, Passed
    <3>2. OnItsWay(l)
      BY <2>2, <2>4, <3>1 DEF HeardInv
    <3> QED
      BY <1>1, <2>1, <2>2, <2>4, <3>2, PostedStays DEF OnItsWay
  <2> QED
    BY <1>1, <2>3, <2>4 DEF HeardInv
<1> QED
  BY <1>2, <1>3, <1>4 DEF Owner

(* The search passes no lock that counts without its notification waiting.  *)
LEMMA LookKeepsHeard ==
  ASSUME HeardInv, Look
  PROVE  HeardInv'
<1> USE DEF clients, task, daemon
<1>1. TypeOK /\ TypeOK'
  BY NextType DEF HeardInv, Next, PM
<1>2. /\ active' = active /\ held' = held /\ call' = call /\ lost' = lost
      /\ pm_queue' = pm_queue /\ awake' = awake
  BY DEF Look
<1>3. HeldIsActive'
  BY <1>2 DEF HeldIsActive, HeardInv, Counts
<1>4. ASSUME NEW l \in Locks, Counts(l)', Endangered(l)' PROVE OnItsWay(l)'
  <2>1. Counts(l) /\ active[l]
    BY <1>2, <1>4 DEF Counts, HeardInv, HeldIsActive
  <2>2. OnItsWay(l) => OnItsWay(l)'
    BY <1>2 DEF OnItsWay, Posted
  <2>3. Endangered(l)
    <3>1. cursor \in Nat /\ Len(LockList) \in Nat /\ DOMAIN LockList = 1..Len(LockList)
      BY <1>1, PowerAssumption, LenProperties DEF TypeOK
    <3>2. CASE pm' = "doze"
      <4>1. cursor = Len(LockList) /\ ~active[LockList[cursor]] /\ pm = "search"
        BY <3>2 DEF Look, AtEnd
      <4>2. PICK i \in DOMAIN LockList : LockList[i] = l
        BY PowerAssumption
      <4>3. i < cursor
        BY <2>1, <3>1, <4>1, <4>2
      <4> QED
        BY <4>1, <4>2, <4>3 DEF Endangered, Passed
    <3>3. CASE Passed(l)'
      <4>1. pm = "search" /\ pm' = "search" /\ cursor' = cursor + 1 /\ ~active[LockList[cursor]]
        BY <3>3 DEF Look, Passed
      <4>2. PICK i \in DOMAIN LockList : i < cursor' /\ LockList[i] = l
        BY <3>3 DEF Passed
      <4>3. i # cursor
        BY <2>1, <4>1, <4>2
      <4>4. i < cursor
        BY <3>1, <4>1, <4>2, <4>3
      <4> QED
        BY <4>1, <4>2, <4>4 DEF Endangered, Passed
    <3>4. CASE ~awake
      BY <3>4 DEF Endangered
    <3> QED
      BY <1>2, <1>4, <3>2, <3>3, <3>4 DEF Endangered
  <2> QED
    BY <2>1, <2>2, <2>3 DEF HeardInv
<1> QED
  BY <1>1, <1>3, <1>4 DEF HeardInv

(* The other steps of the pm task, the timer task and power_manager_init.   *)
LEMMA TasksKeepHeard ==
  ASSUME HeardInv,
         \/ BeginSearch \/ WakeUp \/ AlreadyAwake \/ Doze \/ Halt \/ Rouse
         \/ ObeyCommand \/ Expire \/ PowerManagerInit \/ UNCHANGED vars
  PROVE  HeardInv'
<1> USE DEF clients, task, daemon
<1>1. TypeOK /\ TypeOK'
  BY NextType DEF HeardInv, Next, PM
<1>2. /\ active' = active /\ held' = held /\ call' = call
      /\ \A l \in Locks : l \in lost' <=> l \in lost
  BY PowerAssumption DEF BeginSearch, WakeUp, AlreadyAwake, Receive, Doze, Halt, Rouse,
     Restart, ObeyCommand, Expire, PowerManagerInit, vars
<1>3. \A l \in Locks : Counts(l)' => Counts(l)
  BY <1>2 DEF Counts
<1>4. HeldIsActive'
  BY <1>2, <1>3 DEF HeldIsActive, HeardInv
<1>5. ASSUME NEW l \in Locks, Counts(l)', Endangered(l)' PROVE OnItsWay(l)'
  <2>1. ASSUME Endangered(l), pm_queue' = pm_queue PROVE OnItsWay(l)'
    BY <1>2, <1>3, <1>5, <2>1 DEF HeardInv, OnItsWay, Posted
  <2>2. CASE BeginSearch
    <3>1. PICK m \in Message : m.lock = Tick /\ Receive(m)
      BY <2>2 DEF BeginSearch
    <3>2. Endangered(l) /\ OnItsWay(l)
      <4>1. ~Passed(l)'
        BY <2>2, PowerAssumption, LenProperties DEF BeginSearch, Passed
      <4> QED
        BY <1>3, <1>5, <2>2, <4>1 DEF BeginSearch, Endangered, HeardInv
    <3> QED
      BY <1>1, <1>2, <3>1, <3>2, PostedStays, PowerAssumption DEF OnItsWay
  <2>3. CASE WakeUp
    BY <1>5, <2>3 DEF WakeUp, Endangered, Passed
  <2>4. CASE AlreadyAwake
    <3>1. PICK m \in Message : m.lock # Tick /\ (m.active => awake) /\ Receive(m)
      BY <2>4 DEF AlreadyAwake
    <3>2. ~awake /\ OnItsWay(l)
      BY <1>3, <1>5, <2>4, <3>1 DEF AlreadyAwake, Receive, Endangered, Passed, HeardInv
    <3> QED
      BY <1>1, <1>2, <3>1, <3>2, PostedStays DEF OnItsWay
  <2>5. CASE Doze \/ Halt
    BY <1>5, <2>1, <2>5 DEF Doze, Halt, Endangered, Passed
  <2>6. CASE Rouse
    BY <1>5, <2>1, <2>6 DEF Rouse, Endangered, Passed
  <2>7. CASE ObeyCommand \/ PowerManagerInit \/ UNCHANGED vars
    BY <1>5, <2>1, <2>7 DEF ObeyCommand, PowerManagerInit, vars, Endangered, Passed
  <2>8. CASE Expire
    <3>1. [lock |-> Tick, active |-> FALSE] \in Message
      BY DEF Message
    <3>2. Endangered(l) /\ OnItsWay(l)
      BY <1>3, <1>5, <2>8 DEF Expire, Endangered, Passed, HeardInv
    <3> QED
      BY <1>1, <1>2, <2>8, <3>1, <3>2, PostedStays DEF Expire, OnItsWay
  <2> QED
    BY <2>2, <2>3, <2>4, <2>5, <2>6, <2>7, <2>8
<1> QED
  BY <1>1, <1>4, <1>5 DEF HeardInv

(* The device goes to sleep, and stays asleep, under a lock that is held    *)
(* only while the notification that wakes it is on its way.                 *)
THEOREM HeardHolds == Spec => []HolderIsHeard
<1>1. Init => HeardInv
  BY InitType DEF Init, HeardInv, HeldIsActive, Counts
<1>2. HeardInv /\ [Next]_vars => HeardInv'
  BY OwnersKeepHeard, LookKeepsHeard, TasksKeepHeard DEF Next, PM
<1>3. HeardInv => HolderIsHeard
  BY DEF HeardInv, HolderIsHeard, Endangered
<1> QED
  BY <1>1, <1>2, <1>3, PTL DEF Spec

-----------------------------------------------------------------------------
(* AN AWAKE DEVICE IS TIMED *)

(* Stops are posted while the device sleeps, and rousing posts a start      *)
(* behind them; nothing happens before power_manager_init.                  *)
TimedInv ==
  /\ TypeOK /\ AwakeIsTimed
  /\ pm = "halt" => ~awake
  /\ ~up => \A l \in Locks : call[l] = "none"

(* After Restart the timer will run, or the start is known to be lost.      *)
LEMMA RestartRuns ==
  ASSUME TypeOK, Restart
  PROVE  Tick \notin lost' => WillRun'
<1> SUFFICES ASSUME Tick \notin lost' PROVE WillRun'
  OBVIOUS
<1>1. timer_cmds' = Append(timer_cmds, "start")
  BY DEF Restart
<1>2. timer_cmds \in Seq({"start", "stop"})
  BY DEF TypeOK
<1>3. /\ timer_cmds' # <<>> /\ Len(timer_cmds') = Len(timer_cmds) + 1
      /\ timer_cmds'[Len(timer_cmds) + 1] = "start"
  BY <1>1, <1>2, AppendProperties
<1> QED
  BY <1>3 DEF WillRun

(* The timer task obeys in order, so what will be the case stays so.        *)
LEMMA ObeyRuns ==
  ASSUME TypeOK, ObeyCommand, WillRun
  PROVE  WillRun'
<1>1. /\ timer_cmds \in Seq({"start", "stop"}) /\ timer_cmds # <<>>
      /\ timer_cmds' = Tail(timer_cmds) /\ timer' = (Head(timer_cmds) = "start")
  BY DEF ObeyCommand, TypeOK
<1>2. timer_cmds[Len(timer_cmds)] = "start"
  BY <1>1 DEF WillRun
<1>3. CASE timer_cmds' = <<>>
  <2>1. Len(timer_cmds) = 1 /\ Head(timer_cmds) = timer_cmds[1]
    BY <1>1, <1>3, TailFacts
  <2> QED
    BY <1>1, <1>2, <1>3, <2>1 DEF WillRun
<1>4. CASE timer_cmds' # <<>>
  <2>1. timer_cmds'[Len(timer_cmds')] = "start"
    BY <1>1, <1>2, <1>4, TailFacts
  <2> QED
    BY <1>4, <2>1 DEF WillRun
<1> QED
  BY <1>3, <1>4

(* Every action keeps TimedInv. *)
LEMMA NextKeepsTimed == TimedInv /\ [Next]_vars => TimedInv'
<1> SUFFICES ASSUME TimedInv, [Next]_vars PROVE TimedInv'
  OBVIOUS
<1> USE DEF clients, task, daemon
<1>1. TypeOK /\ TypeOK'
  BY NextType DEF TimedInv
<1>2. CASE PowerManagerInit
  <2>1. WillRun'
    BY <1>2 DEF PowerManagerInit, WillRun
  <2> QED
    BY <1>1, <1>2, <2>1 DEF PowerManagerInit, TimedInv, AwakeIsTimed
<1>3. ASSUME NEW l \in Locks, Acquire(l) \/ Notify(l) \/ Release(l) PROVE TimedInv'
  <2>1. /\ up' = up /\ pm' = pm /\ awake' = awake /\ timer' = timer
        /\ timer_cmds' = timer_cmds /\ (Tick \in lost' <=> Tick \in lost)
    BY <1>3, PowerAssumption DEF Acquire, Notify, Release
  <2>2. WillRun' = WillRun
    BY <2>1 DEF WillRun
  <2>3. ~up' => \A k \in Locks : call'[k] = "none"
    BY <1>1, <1>3 DEF TimedInv, Acquire, Notify, Release, TypeOK
  <2> QED
    BY <1>1, <2>1, <2>2, <2>3 DEF TimedInv, AwakeIsTimed
<1>4. ASSUME NEW l \in Locks, Reset(l) PROVE TimedInv'
  <2>1. up' = up /\ pm' = pm /\ awake' = awake /\ up
    BY <1>4 DEF Reset, TimedInv
  <2>2. Tick \notin lost' => WillRun'
    BY <1>1, <1>4, RestartRuns DEF Reset
  <2> QED
    BY <1>1, <2>1, <2>2 DEF TimedInv, AwakeIsTimed
<1>5. CASE BeginSearch \/ AlreadyAwake \/ Look
  <2>1. /\ up' = up /\ awake' = awake /\ timer' = timer /\ call' = call
        /\ timer_cmds' = timer_cmds /\ lost' = lost
        /\ pm # "rouse" /\ pm' \notin {"rouse", "halt"}
    BY <1>5 DEF BeginSearch, AlreadyAwake, Look, Receive
  <2>2. WillRun' = WillRun
    BY <2>1 DEF WillRun
  <2> QED
    BY <1>1, <2>1, <2>2 DEF TimedInv, AwakeIsTimed
<1>6. CASE WakeUp
  BY <1>1, <1>6 DEF WakeUp, Receive, TimedInv, AwakeIsTimed
<1>7. CASE Doze \/ Halt
  BY <1>1, <1>7 DEF Doze, Halt, TimedInv, AwakeIsTimed
<1>8. CASE Rouse
  <2>1. Tick \notin lost' => WillRun'
    BY <1>1, <1>8, RestartRuns DEF Rouse
  <2> QED
    BY <1>1, <1>8, <2>1 DEF Rouse, TimedInv, AwakeIsTimed
<1>9. CASE ObeyCommand
  <2>1. WillRun => WillRun'
    BY <1>1, <1>9, ObeyRuns
  <2> QED
    BY <1>1, <1>9, <2>1 DEF ObeyCommand, TimedInv, AwakeIsTimed
<1>10. CASE Expire \/ UNCHANGED vars
  <2>1. WillRun' = WillRun
    BY <1>10 DEF Expire, vars, WillRun
  <2> QED
    BY <1>1, <1>10, <2>1 DEF Expire, vars, TimedInv, AwakeIsTimed
<1> QED
  BY <1>2, <1>3, <1>4, <1>5, <1>6, <1>7, <1>8, <1>9, <1>10 DEF Next, PM, Owner

(* While the device is awake its timer runs, or will once the timer task    *)
(* has obeyed, unless the start itself found no room.                       *)
THEOREM TimedHolds == Spec => []AwakeIsTimed
<1>1. Init => TimedInv
  BY InitType DEF Init, TimedInv, AwakeIsTimed
<1>2. TimedInv => AwakeIsTimed
  BY DEF TimedInv
<1> QED
  BY <1>1, <1>2, NextKeepsTimed, PTL DEF Spec
=============================================================================
