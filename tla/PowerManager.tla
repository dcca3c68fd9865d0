----------------------------- MODULE PowerManager -----------------------------
(***************************************************************************)
(* sys/power_manager/power_manager.c with CONFIG_ENABLE_POWER_MANAGER: the *)
(* tasks that hold wake locks, the pm task that puts the device to sleep   *)
(* when a timer tick finds no lock active, its queue, and (external) the   *)
(* FreeRTOS timer task behind xTimerPower with its command queue.          *)
(*                                                                         *)
(* Nothing here is protected by a mutex: acquire_wake_lock sets `active`   *)
(* and then posts a copy of the lock, release_wake_lock clears it and then *)
(* restarts the timer, while the pm task walks the list of locks.          *)
(*                                                                         *)
(* A suffixed name (Room_OffByOne) is the definition after it              *)
(* with a slip in it, kept to show which property would notice.            *)
(***************************************************************************)
EXTENDS Naturals, Sequences

CONSTANTS
  Locks,    (* the wake locks; each belongs to one task                      *)
  LockList, (* the list behind wake_lock_head, newest first                  *)
  Tick,     (* wake_lock_head itself, posted by power_manager_tick           *)
  QueueCap, (* the length of pm_queue                                        *)
  TimerCap  (* the length of the timer task's queue                          *)

ASSUME PowerAssumption ==
  /\ LockList \in Seq(Locks) /\ Len(LockList) > 0
  /\ \A l \in Locks : \E i \in DOMAIN LockList : LockList[i] = l
  /\ Tick \notin Locks
  /\ QueueCap \in Nat \ {0} /\ TimerCap \in Nat \ {0}

VARIABLES
  up,         (* power_manager_init has run: pm_queue and xTimerPower exist   *)
  active,     (* wake_lock_t.active of each lock                             *)
  held,       (* history: the owner acquired the lock and has not released it *)
  call,       (* where the owner is: "none" | "notify" | "reset"             *)
  pm_queue,   (* copies of locks, with the `active` they had                 *)
  pm,         (* the pm task: "receive" | "search" | "doze" | "halt" | "rouse" *)
  cursor,     (* search_wake_lock's place in LockList                        *)
  awake,      (* sleep_manager_staus                                         *)
  timer_cmds, (* "start" (xTimerStart, xTimerReset) | "stop", not yet obeyed *)
  timer,      (* the timer task runs xTimerPower                             *)
  lost        (* history: locks whose last acquire was not posted, and Tick  *)
              (* when the last start of the timer was not                    *)

clients == <<active, held, call>>
task    == <<pm, cursor, awake>>
daemon  == <<timer_cmds, timer>>
vars == <<up, clients, pm_queue, task, daemon, lost>>

Message == [lock : Locks \cup {Tick}, active : BOOLEAN]

Init ==
  /\ up = FALSE
  /\ active = [l \in Locks |-> FALSE] /\ held = active
  /\ call = [l \in Locks |-> "none"]
  /\ pm_queue = <<>> /\ pm = "receive" /\ cursor = 1 /\ awake = TRUE
  /\ timer_cmds = <<>> /\ timer = FALSE
  /\ lost = {}

-----------------------------------------------------------------------------
(* Every send waits 100 ticks for room and then gives up. *)
Room(queue, cap) == Len(queue) < cap

Restart_Forgotten == UNCHANGED <<timer_cmds, lost>>
Restart ==
  \/ /\ Room(timer_cmds, TimerCap)
     /\ timer_cmds' = Append(timer_cmds, "start")
     /\ lost' = lost \ {Tick}
  \/ /\ ~Room(timer_cmds, TimerCap)
     /\ lost' = lost \cup {Tick}
     /\ UNCHANGED timer_cmds

(* power_manager_init, at the end of app_init: other tasks hold locks by    *)
(* then, and what they asked for before has been dropped.                   *)
PowerManagerInit ==
  /\ ~up /\ up' = TRUE
  /\ timer_cmds' = <<"start">>
  /\ UNCHANGED <<clients, pm_queue, task, timer, lost>>

-----------------------------------------------------------------------------
(* THE OWNERS OF THE LOCKS *)

Acquire(l) ==
  /\ call[l] = "none"
  /\ held' = [held EXCEPT ![l] = TRUE]
  /\ \/ /\ up
        /\ active' = [active EXCEPT ![l] = TRUE]
        /\ call' = [call EXCEPT ![l] = "notify"]
        /\ lost' = lost \ {l}
     \/ /\ ~up
        /\ lost' = lost \cup {l}
        /\ UNCHANGED <<active, call>>
  /\ UNCHANGED <<up, pm_queue, task, daemon>>

Notify(l) ==
  /\ call[l] = "notify" /\ call' = [call EXCEPT ![l] = "none"]
  /\ \/ /\ Room(pm_queue, QueueCap)
        /\ pm_queue' = Append(pm_queue, [lock |-> l, active |-> active[l]])
        /\ UNCHANGED lost
     \/ /\ ~Room(pm_queue, QueueCap)
        /\ lost' = lost \cup {l}
        /\ UNCHANGED pm_queue
  /\ UNCHANGED <<up, active, held, task, daemon>>

Release(l) ==
  /\ call[l] = "none"
  /\ held' = [held EXCEPT ![l] = FALSE]
  /\ active' = [active EXCEPT ![l] = FALSE]
  /\ call' = [call EXCEPT ![l] = IF up THEN "reset" ELSE "none"]
  /\ UNCHANGED <<up, pm_queue, task, daemon, lost>>

(* Restarts the timer of a sleeping device as well. *)
Reset(l) ==
  /\ call[l] = "reset" /\ call' = [call EXCEPT ![l] = "none"]
  /\ Restart
  /\ UNCHANGED <<up, active, held, pm_queue, task, timer>>

-----------------------------------------------------------------------------
(* THE PM TASK *)

Receive(m) ==
  /\ up /\ pm = "receive" /\ pm_queue # <<>>
  /\ m = Head(pm_queue) /\ pm_queue' = Tail(pm_queue)
  /\ UNCHANGED <<up, clients, daemon, lost>>

BeginSearch ==
  /\ \E m \in Message : m.lock = Tick /\ Receive(m)
  /\ pm' = "search" /\ cursor' = 1
  /\ UNCHANGED awake

(* The copy may be of a lock that has been released since. *)
WakeUp ==
  /\ \E m \in Message : m.lock # Tick /\ m.active /\ Receive(m)
  /\ ~awake /\ awake' = TRUE /\ pm' = "rouse"
  /\ UNCHANGED cursor

AlreadyAwake ==
  /\ \E m \in Message : m.lock # Tick /\ (m.active => awake) /\ Receive(m)
  /\ UNCHANGED task

AtEnd_Early(c) == c + 1 >= Len(LockList)
AtEnd(c) == c = Len(LockList)

(* One turn of the loop in search_wake_lock. *)
Look ==
  /\ pm = "search"
  /\ \/ /\ active[LockList[cursor]]
        /\ pm' = "receive" /\ UNCHANGED cursor
     \/ /\ ~active[LockList[cursor]] /\ ~AtEnd(cursor)
        /\ cursor' = cursor + 1 /\ UNCHANGED pm
     \/ /\ ~active[LockList[cursor]] /\ AtEnd(cursor)
        /\ pm' = IF awake THEN "doze" ELSE "receive"
        /\ UNCHANGED cursor
  /\ UNCHANGED <<up, clients, pm_queue, awake, daemon, lost>>

(* The display is dimmed and the codec halted. *)
Doze ==
  /\ pm = "doze" /\ pm' = "halt" /\ awake' = FALSE
  /\ UNCHANGED <<up, clients, pm_queue, cursor, daemon, lost>>

Halt ==
  /\ pm = "halt" /\ pm' = "receive"
  /\ timer_cmds' = IF Room(timer_cmds, TimerCap) THEN Append(timer_cmds, "stop")
                   ELSE timer_cmds
  /\ UNCHANGED <<up, clients, pm_queue, cursor, awake, timer, lost>>

(* The tail of WakeUp, once display and codec are on again. *)
Rouse ==
  /\ pm = "rouse" /\ pm' = "receive"
  /\ Restart
  /\ UNCHANGED <<up, clients, pm_queue, cursor, awake, timer>>

PM == BeginSearch \/ WakeUp \/ AlreadyAwake \/ Look \/ Doze \/ Halt \/ Rouse

-----------------------------------------------------------------------------
(* THE TIMER TASK (external) *)

ObeyCommand ==
  /\ timer_cmds # <<>>
  /\ timer' = (Head(timer_cmds) = "start") /\ timer_cmds' = Tail(timer_cmds)
  /\ UNCHANGED <<up, clients, pm_queue, task, lost>>

Expire_OneShot ==
  /\ timer
  /\ pm_queue' = IF Room(pm_queue, QueueCap)
                 THEN Append(pm_queue, [lock |-> Tick, active |-> FALSE]) ELSE pm_queue
  /\ timer' = FALSE
  /\ UNCHANGED <<up, clients, task, timer_cmds, lost>>

(* power_manager_tick, period after period; without room it is as if the    *)
(* timer had not expired.                                                   *)
Expire ==
  /\ timer /\ Room(pm_queue, QueueCap)
  /\ pm_queue' = Append(pm_queue, [lock |-> Tick, active |-> FALSE])
  /\ UNCHANGED <<up, clients, task, daemon, lost>>

-----------------------------------------------------------------------------
Owner(l) == Acquire(l) \/ Notify(l) \/ Release(l) \/ Reset(l)

Next ==
  \/ PowerManagerInit \/ PM \/ ObeyCommand \/ Expire
  \/ \E l \in Locks : Owner(l)

Spec == Init /\ [][Next]_vars

(* The scheduler runs every ready task; when its owner acquires or releases *)
(* a lock is the owner's choice.                                            *)
FairSpec ==
  /\ Spec /\ WF_vars(PM) /\ WF_vars(ObeyCommand) /\ WF_vars(Expire)
  /\ \A l \in Locks : WF_vars(Notify(l)) /\ WF_vars(Reset(l))

-----------------------------------------------------------------------------
TypeOK ==
  /\ up \in BOOLEAN
  /\ active \in [Locks -> BOOLEAN] /\ held \in [Locks -> BOOLEAN]
  /\ call \in [Locks -> {"none", "notify", "reset"}]
  /\ pm_queue \in Seq(Message) /\ Len(pm_queue) <= QueueCap
  /\ pm \in {"receive", "search", "doze", "halt", "rouse"}
  /\ cursor \in DOMAIN LockList
  /\ awake \in BOOLEAN
  /\ timer_cmds \in Seq({"start", "stop"}) /\ Len(timer_cmds) <= TimerCap
  /\ timer \in BOOLEAN
  /\ lost \subseteq Locks \cup {Tick}

(* The owner of l has set it active and the pm task will read so. *)
Posted(l) == \E i \in DOMAIN pm_queue : pm_queue[i].lock = l /\ pm_queue[i].active
OnItsWay(l) == call[l] = "notify" \/ Posted(l)
Counts(l) == held[l] /\ l \notin lost

(* The device sleeps, or is about to, under a lock that is held only while  *)
(* the notification that wakes it is on its way: search_wake_lock looks at  *)
(* one lock after the other while their owners change them.                 *)
HolderIsHeard ==
  \A l \in Locks : Counts(l) /\ (~awake \/ pm = "doze") => OnItsWay(l)

(* An awake device has its timer running, once the commands the timer task  *)
(* was given are obeyed: a stop meant for the sleep before never outlives   *)
(* the wake-up, whatever releases restart the timer in between.             *)
WillRun == IF timer_cmds = <<>> THEN timer ELSE timer_cmds[Len(timer_cmds)] = "start"
AwakeIsTimed ==
  up /\ awake /\ pm # "rouse" /\ Tick \notin lost => WillRun

(* Whoever holds a lock gets the device awake. *)
HolderIsServed ==
  \A l \in Locks : Counts(l) ~> (awake \/ ~Counts(l))

(* When every owner has released its lock for good the device sleeps in the *)
(* end, stale notifications and ticks in the queue notwithstanding.         *)
Quiet == up /\ Tick \notin lost /\ \A l \in Locks : ~active[l] /\ call[l] = "none"
SleepsInTheEnd == <>[]Quiet => <>[]~awake
=============================================================================
