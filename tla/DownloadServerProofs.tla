------------------------- MODULE DownloadServerProofs -------------------------
(***************************************************************************)
(* Theorems about the download server, for any number of requests and any  *)
(* lengths of its queue and of the timer task's.                           *)
(***************************************************************************)
EXTENDS DownloadServer, SequenceTheorems, TLAPS

Commands == {"start", "late", "stop"}

LEMMA AppendFacts ==
  ASSUME NEW S, NEW s \in Seq(S), NEW e \in S
  PROVE /\ Append(s, e) \in Seq(S) /\ Len(Append(s, e)) = Len(s) + 1 /\ Len(s) \in Nat
        /\ Append(s, e) # <<>>
        /\ Append(s, e)[Len(Append(s, e))] = e
        /\ DOMAIN Append(s, e) = 1..(Len(s) + 1)
        /\ \A i \in DOMAIN s : Append(s, e)[i] = s[i]
<1>1. Append(s, e) \in Seq(S) /\ Len(Append(s, e)) = Len(s) + 1
  BY AppendProperties
<1>2. \A i \in 1..Len(s) : Append(s, e)[i] = s[i]
  BY AppendProperties
<1>3. Append(s, e)[Len(s) + 1] = e
  BY AppendProperties
<1>4. Len(s) \in Nat /\ DOMAIN s = 1..Len(s)
  BY LenProperties
<1>5. DOMAIN Append(s, e) = 1..(Len(s) + 1)
  BY <1>1, LenProperties
<1>6. Append(s, e) # <<>>
  BY <1>1, <1>4, EmptySeq
<1> QED
  BY <1>1, <1>2, <1>3, <1>4, <1>5, <1>6

LEMMA TailFacts ==
  ASSUME NEW S, NEW s \in Seq(S), s # <<>>
  PROVE /\ Head(s) \in S /\ Head(s) = s[1] /\ Tail(s) \in Seq(S)
        /\ Len(Tail(s)) = Len(s) - 1 /\ Len(s) \in Nat /\ Len(s) > 0
        /\ Tail(s) # <<>> => Tail(s)[Len(Tail(s))] = s[Len(s)]
        /\ Tail(s) = <<>> <=> Len(s) = 1
<1>1. /\ Head(s) \in S /\ Tail(s) \in Seq(S) /\ Len(Tail(s)) = Len(s) - 1
      /\ \A i \in 1..Len(Tail(s)) : Tail(s)[i] = s[i + 1]
  BY HeadTailProperties
<1>2. Len(s) \in Nat /\ Len(s) > 0
  BY LenProperties, EmptySeq
<1>3. Head(s) = s[1]
  BY HeadTailProperties
<1>4. Tail(s) = <<>> <=> Len(s) = 1
  BY <1>1, <1>2, EmptySeq
<1>5. ASSUME Tail(s) # <<>> PROVE Tail(s)[Len(Tail(s))] = s[Len(s)]
  <2>1. Len(s) - 1 \in 1..Len(Tail(s))
    BY <1>1, <1>2, <1>4, <1>5
  <2> QED
    BY <1>1, <1>2, <2>1
<1> QED
  BY <1>1, <1>2, <1>3, <1>4, <1>5

-----------------------------------------------------------------------------
(* TYPES *)

(* A report is there wherever it is sent or told, and a request wherever the *)
(* manager is not waiting for one.                                           *)
TypeInv ==
  /\ TypeOK
  /\ worker = "send" => outcome \in Finish
  /\ manager \in {"stop", "delete", "answer"} => result \in Finish
  /\ manager # "receive" => job \in Ids

LEMMA CommandType ==
  ASSUME TypeOK, NEW cmd \in {"start", "stop"}, Command(cmd)
  PROVE  timer_cmds' \in Seq(Commands) /\ Len(timer_cmds') <= TimerCap
<1> USE DEF Commands
<1>1. timer_cmds \in Seq(Commands) /\ Len(timer_cmds) <= TimerCap /\ cmd \in Commands
  BY DEF TypeOK
<1>2. CASE TimerRoom
  <2>1. timer_cmds' = Append(timer_cmds, cmd)
    BY <1>2 DEF Command
  <2> QED
    BY <1>1, <1>2, <2>1, AppendFacts, DownloadAssumption DEF TimerRoom
<1>3. CASE ~TimerRoom
  BY <1>1, <1>3 DEF Command
<1> QED
  BY <1>2, <1>3

(* Time makes a start late, and takes nothing away. *)
LEMMA ElapseFacts ==
  ASSUME TypeOK, Elapse
  PROVE  /\ timer_cmds' \in Seq(Commands) /\ Len(timer_cmds') = Len(timer_cmds)
         /\ WillRun => WillRun'
<1>1. timer_cmds \in Seq(Commands)
  BY DEF TypeOK, Commands
<1>2. DOMAIN timer_cmds = 1..Len(timer_cmds) /\ Len(timer_cmds) \in Nat
      /\ \A i \in 1..Len(timer_cmds) : timer_cmds[i] \in Commands
  BY <1>1, LenProperties, ElementOfSeq
<1>3. timer_cmds' \in [1..Len(timer_cmds) -> Commands]
  BY <1>2 DEF Elapse, Commands
<1>4. timer_cmds' \in Seq(Commands)
  BY <1>2, <1>3
<1>5. Len(timer_cmds') = Len(timer_cmds)
  BY <1>2, <1>3, <1>4, LenProperties
<1>6. WillRun => WillRun'
  <2>1. timer_cmds = <<>> => timer_cmds' = <<>> /\ timer' # "off"
    BY <1>1, <1>4, <1>5, EmptySeq DEF Elapse
  <2>2. ASSUME timer_cmds # <<>>, timer_cmds[Len(timer_cmds)] # "stop"
        PROVE  timer_cmds' # <<>> /\ timer_cmds'[Len(timer_cmds')] # "stop"
    <3>1. Len(timer_cmds) \in DOMAIN timer_cmds
      BY <1>1, <1>2, <2>2, EmptySeq
    <3> QED
      BY <1>1, <1>4, <1>5, <2>2, <3>1, EmptySeq DEF Elapse
  <2> QED
    BY <2>1, <2>2 DEF WillRun
<1> QED
  BY <1>4, <1>5, <1>6

LEMMA ResetType ==
  ASSUME TypeOK, ResetTimer
  PROVE  /\ timer_cmds' \in Seq(Commands) /\ Len(timer_cmds') <= TimerCap
         /\ untimed' \in BOOLEAN
<1>1. untimed' \in BOOLEAN
  BY Zenon DEF ResetTimer, TypeOK
<1> QED
  BY <1>1, CommandType DEF ResetTimer

LEMMA AboutType ==
  ASSUME NEW id \in Ids \cup {0}, NEW r \in Reasons
  PROVE  About(id, r) \in Finish
BY DEF About, Finish

LEMMA SingleType ==
  ASSUME NEW f \in Finish
  PROVE  <<f>> \in Seq(Finish) /\ Len(<<f>>) = 1 /\ <<f>> # <<>> /\ Head(<<f>>) = f
<1>1. <<f>> \in Seq(Finish) /\ Len(<<f>>) = 1
  OBVIOUS
<1> QED
  BY <1>1

LEMMA WorkerType ==
  ASSUME TypeInv, WorkerTask
  PROVE  TypeInv'
<1> USE DEF Commands
<1>0. TypeOK
  BY DEF TypeInv
<1>1. /\ asked' = asked /\ requests' = requests /\ manager' = manager /\ job' = job
      /\ result' = result /\ answers' = answers /\ timer' = timer
      /\ posting' = posting /\ expired' = expired
  BY DEF WorkerTask, Begin, ReadHead, ReadBody, SendFinish, GoesOn, Finds, FindsAtEnd,
         Worker, clients, task
<1>2. /\ worker' \in {"none", "begin", "head", "body", "send", "idle", "returned"}
      /\ chunks' \in 0..MaxChunks
  <2>1. chunks' = chunks \/ (chunks < MaxChunks /\ chunks' = chunks + 1)
    BY DEF WorkerTask, Begin, ReadHead, ReadBody, SendFinish, GoesOn, Finds, FindsAtEnd
  <2>2. chunks' \in 0..MaxChunks
    BY <1>0, <2>1, DownloadAssumption DEF TypeOK
  <2>3. worker' \in {"head", "body", "send", "idle", "returned"}
    BY DEF WorkerTask, Begin, ReadHead, ReadBody, SendFinish, GoesOn, Finds, FindsAtEnd,
           Worker, AfterSend
  <2> QED
    BY <2>2, <2>3
<1>3. outcome' \in Finish \cup {None} /\ (worker' = "send" => outcome' \in Finish)
  <2>1. \/ outcome' = None /\ worker' # "send"
        \/ \E r \in Reasons : outcome' = About(job, r)
    BY DEF WorkerTask, Begin, ReadHead, ReadBody, SendFinish, GoesOn,
           Finds, FindsAtEnd, Worker, AfterSend, Reasons
  <2> QED
    BY <1>0, <2>1, AboutType DEF TypeOK
<1>4. /\ timer_cmds' \in Seq(Commands) /\ Len(timer_cmds') <= TimerCap
      /\ untimed' \in BOOLEAN
  <2>1. ResetTimer \/ (timer_cmds' = timer_cmds /\ untimed' = untimed)
    BY DEF WorkerTask, Begin, ReadHead, ReadBody, SendFinish, GoesOn, FindsAtEnd
  <2>2. CASE ResetTimer
    BY <1>0, <2>2, ResetType
  <2>3. CASE timer_cmds' = timer_cmds /\ untimed' = untimed
    BY <1>0, <2>3 DEF TypeOK
  <2> QED
    BY <2>1, <2>2, <2>3
<1>5. finish' \in Seq(Finish) /\ Len(finish') <= 1
  <2>1. finish' = finish \/ (worker = "send" /\ finish' = <<outcome>>)
    BY DEF WorkerTask, Begin, ReadHead, ReadBody, SendFinish, GoesOn, Finds, FindsAtEnd, Worker
  <2>2. CASE finish' = finish
    BY <1>0, <2>2 DEF TypeOK
  <2>3. CASE worker = "send" /\ finish' = <<outcome>>
    <3>1. outcome \in Finish
      BY <2>3 DEF TypeInv
    <3>2. finish' \in Seq(Finish) /\ Len(finish') = 1
      BY <2>3, <3>1, SingleType
    <3> QED
      BY <3>2
  <2> QED
    BY <2>1, <2>2, <2>3
<1>6. TypeOK'
  BY <1>0, <1>1, <1>2, <1>3, <1>4, <1>5 DEF TypeOK
<1> QED
  BY <1>1, <1>3, <1>6 DEF TypeInv

(* The manager's steps, but for those that wait for a queue. *)
LEMMA ManagerType ==
  ASSUME TypeInv, ManagerTask
  PROVE  TypeInv'
<1> USE DEF Commands
<1>0. TypeOK /\ \A r \in Reasons : About(job, r) \in Finish
  BY AboutType DEF TypeInv, TypeOK
<1>1. CASE Receive
  <2>1. /\ Head(requests) \in Ids /\ Tail(requests) \in Seq(Ids)
        /\ Len(Tail(requests)) <= RequestCap
    BY <1>0, <1>1, TailFacts, DownloadAssumption DEF Receive, TypeOK
  <2> QED
    BY <1>0, <1>1, <2>1 DEF Receive, Manager, TypeInv, TypeOK, work, daemon
<1>2. CASE SetupFails
  BY <1>0, <1>2 DEF SetupFails, Manager, TypeInv, TypeOK, Reasons, clients, work, daemon
<1>3. CASE StartTimer
  <2>1. timer_cmds' \in Seq(Commands) /\ Len(timer_cmds') <= TimerCap
    BY <1>0, <1>3, CommandType DEF StartTimer
  <2>2. untimed' \in BOOLEAN
    BY <1>3, Zenon DEF StartTimer
  <2> QED
    BY <1>0, <1>3, <2>1, <2>2 DEF StartTimer, Manager, TypeInv, TypeOK, clients, work
<1>4. CASE CreateWorker
  BY <1>0, <1>4 DEF CreateWorker, Manager, TypeInv, TypeOK, Reasons, clients, daemon
<1>5. CASE TakeFinish
  <2>1. Head(finish) \in Finish /\ Tail(finish) \in Seq(Finish) /\ Len(Tail(finish)) <= 1
    BY <1>0, <1>5, TailFacts DEF TakeFinish, TypeOK
  <2> QED
    BY <1>0, <1>5, <2>1 DEF TakeFinish, Manager, TypeInv, TypeOK, clients, work, daemon
<1>6. CASE StopTimer
  <2>1. timer_cmds' \in Seq(Commands) /\ Len(timer_cmds') <= TimerCap
    BY <1>0, <1>6, CommandType DEF StopTimer
  <2> QED
    BY <1>0, <1>6, <2>1 DEF StopTimer, Manager, TypeInv, TypeOK, clients, work
<1>7. CASE DeleteWorker
  <2>1. 0 \in 0..MaxChunks
    BY DownloadAssumption
  <2> QED
    BY <1>0, <1>7, <2>1 DEF DeleteWorker, Manager, TypeInv, TypeOK, clients, daemon
<1>8. CASE Answer
  <2>1. [to |-> job, what |-> result] \in [to : Ids, what : Finish]
    BY <1>8 DEF Answer, Manager, TypeInv
  <2>2. answers' \in Seq([to : Ids, what : Finish])
    BY <1>0, <1>8, <2>1, AppendFacts DEF Answer, TypeOK
  <2> QED
    BY <1>0, <1>8, <2>2 DEF Answer, Manager, TypeInv, TypeOK, clients, work, daemon
<1> QED
  BY <1>1, <1>2, <1>3, <1>4, <1>5, <1>6, <1>7, <1>8 DEF ManagerTask

LEMMA TypeStep == TypeInv /\ [Next]_vars => TypeInv'
<1> SUFFICES ASSUME TypeInv, [Next]_vars PROVE TypeInv'
  OBVIOUS
<1> USE DEF Commands
<1>0. TypeOK
  BY DEF TypeInv
<1>1. CASE Ask
  <2>1. asked' \in Ids /\ asked' \in 0..MaxRequests
    BY <1>0, <1>1, DownloadAssumption DEF Ask, TypeOK, Ids
  <2>2. requests' \in Seq(Ids) /\ Len(requests') <= RequestCap
    BY <1>0, <1>1, <2>1, AppendFacts, DownloadAssumption DEF Ask, TypeOK
  <2> QED
    BY <1>0, <1>1, <2>1, <2>2 DEF Ask, TypeInv, TypeOK, task, work, daemon
<1>2. CASE ManagerTask
  BY <1>2, ManagerType
<1>3. CASE WorkerTask
  BY <1>3, WorkerType
<1>4. CASE ObeyCommand
  <2>1. /\ Head(timer_cmds) \in Commands /\ Tail(timer_cmds) \in Seq(Commands)
        /\ Len(Tail(timer_cmds)) <= TimerCap
    BY <1>0, <1>4, TailFacts, DownloadAssumption DEF ObeyCommand, TypeOK
  <2>2. timer' \in {"off", "on", "due"}
    BY <1>4, <2>1 DEF ObeyCommand
  <2> QED
    BY <1>0, <1>4, <2>1, <2>2 DEF ObeyCommand, TypeInv, TypeOK, clients, task, work
<1>5. CASE Expire
  <2>1. posting' \in Finish
    BY <1>0, <1>5, AboutType DEF Expire, Reasons, TypeOK
  <2> QED
    BY <1>0, <1>5, <2>1 DEF Expire, TypeInv, TypeOK, clients, task, work
<1>6. CASE PostTimeout
  <2>1. finish' \in Seq(Finish) /\ Len(finish') <= 1
    BY <1>0, <1>6, SingleType DEF PostTimeout, TypeOK
  <2> QED
    BY <1>0, <1>6, <2>1 DEF PostTimeout, TypeInv, TypeOK, clients, task, work
<1>7. CASE Elapse
  <2>1. timer_cmds' \in Seq(Commands) /\ Len(timer_cmds') = Len(timer_cmds)
    BY <1>0, <1>7, ElapseFacts
  <2> QED
    BY <1>0, <1>7, <2>1 DEF Elapse, TypeInv, TypeOK, clients, task, work
<1>8. CASE UNCHANGED vars
  BY <1>0, <1>8 DEF vars, TypeInv, TypeOK, clients, task, work, daemon
<1> QED
  BY <1>1, <1>2, <1>3, <1>4, <1>5, <1>6, <1>7, <1>8 DEF Next, TimerTask

LEMMA TypeInit == Init => TypeInv
<1> SUFFICES ASSUME Init PROVE TypeInv
  OBVIOUS
<1>1. 0 \in 0..MaxRequests /\ 0 \in 0..MaxChunks /\ 0 <= RequestCap /\ 0 <= TimerCap
  BY DownloadAssumption
<1>2. untimed \in BOOLEAN /\ expired \in BOOLEAN
  BY Zenon DEF Init
<1>3. TypeOK
  BY <1>1, <1>2 DEF Init, TypeOK
<1> QED
  BY <1>3 DEF Init, TypeInv

LEMMA TypeInvariant == Spec => []TypeInv
<1> QED
  BY TypeInit, TypeStep, PTL DEF Spec

(* Every behaviour of the download server is well typed: no queue grows     *)
(* over its capacity, and an app is only told a report that was made.       *)
THEOREM TypeCorrect == Spec => []TypeOK
<1>1. TypeInv => TypeOK
  BY DEF TypeInv
<1> QED
  BY <1>1, TypeInvariant, PTL

-----------------------------------------------------------------------------
(* NO WORKER WITHOUT A DOWNLOAD *)

(* Only a worker that is there goes on, and FileAtRest says when it is. *)
LEMMA FileStep == FileAtRest /\ [Next]_vars => FileAtRest'
<1> SUFFICES ASSUME FileAtRest, [Next]_vars PROVE FileAtRest'
  OBVIOUS
<1>1. CASE ManagerTask
  BY <1>1 DEF ManagerTask, Receive, SetupFails, StartTimer, CreateWorker, TakeFinish,
              StopTimer, DeleteWorker, Answer, Manager, FileAtRest, work
<1>2. CASE WorkerTask
  <2>1. worker # "none" /\ manager' = manager
    BY <1>2 DEF WorkerTask, Begin, ReadHead, ReadBody, SendFinish, GoesOn, Finds,
                FindsAtEnd, Worker, task
  <2> QED
    BY <2>1 DEF FileAtRest
<1>3. CASE Ask \/ TimerTask \/ Elapse \/ UNCHANGED vars
  BY <1>3 DEF Ask, TimerTask, ObeyCommand, Expire, PostTimeout, Elapse, vars, task, work,
              FileAtRest
<1> QED
  BY <1>1, <1>2, <1>3 DEF Next

(* When an app is called back, and between downloads, no worker writes the  *)
(* file: mng_download_task deletes it before, whatever it was doing.        *)
THEOREM FileRests == Spec => []FileAtRest
<1>1. Init => FileAtRest
  BY DEF Init, FileAtRest
<1> QED
  BY <1>1, FileStep, PTL DEF Spec

-----------------------------------------------------------------------------
(* THE TIME-OUT IS ON ITS WAY *)

(* The timer is started before the worker is created. *)
TimedInv == manager \in {"create", "wait"} /\ ~untimed => WillRun

(* A start that finds room is the last command of the queue. *)
LEMMA StartRuns ==
  ASSUME TypeOK, Command("start"), TimerRoom
  PROVE  WillRun'
<1>1. timer_cmds' = Append(timer_cmds, "start")
  BY DEF Command
<1>2. timer_cmds' # <<>> /\ timer_cmds'[Len(timer_cmds')] = "start"
  BY <1>1, AppendFacts DEF TypeOK
<1> QED
  BY <1>2 DEF WillRun

(* The timer task obeys in order, so the last command has the last word. *)
LEMMA ObeyRuns ==
  ASSUME TypeOK, ObeyCommand, WillRun
  PROVE  WillRun'
<1>1. /\ timer_cmds \in Seq(Commands) /\ timer_cmds # <<>>
      /\ timer_cmds' = Tail(timer_cmds)
      /\ timer_cmds[Len(timer_cmds)] # "stop"
  BY DEF TypeOK, Commands, ObeyCommand, WillRun
<1>2. CASE Tail(timer_cmds) = <<>>
  <2>1. Head(timer_cmds) \in {"start", "late"}
    BY <1>1, <1>2, TailFacts DEF Commands
  <2> QED
    BY <1>1, <1>2, <2>1 DEF ObeyCommand, WillRun
<1>3. CASE Tail(timer_cmds) # <<>>
  BY <1>1, <1>3, TailFacts DEF WillRun
<1> QED
  BY <1>2, <1>3

LEMMA TimedStep == TypeOK /\ TimedInv /\ [Next]_vars => TimedInv'
<1> SUFFICES ASSUME TypeOK, TimedInv, [Next]_vars PROVE TimedInv'
  OBVIOUS
<1>1. CASE StartTimer
  BY <1>1, StartRuns DEF StartTimer, TimedInv
<1>2. CASE CreateWorker
  BY <1>2 DEF CreateWorker, Manager, TimedInv, WillRun, daemon
<1>3. CASE Receive \/ SetupFails \/ TakeFinish \/ StopTimer \/ DeleteWorker \/ Answer
  BY <1>3 DEF Receive, SetupFails, TakeFinish, StopTimer, DeleteWorker, Answer, Manager,
              TimedInv
<1>4. CASE WorkerTask
  <2>1. timer' = timer /\ manager' = manager
    BY <1>4 DEF WorkerTask, Begin, ReadHead, ReadBody, SendFinish, GoesOn, Finds,
                FindsAtEnd, Worker, task
  <2>2. ResetTimer \/ (timer_cmds' = timer_cmds /\ untimed' = untimed)
    BY <1>4 DEF WorkerTask, Begin, ReadHead, ReadBody, SendFinish, GoesOn, FindsAtEnd
  <2>3. CASE ResetTimer /\ TimerRoom
    BY <2>3, StartRuns DEF ResetTimer, TimedInv
  <2>4. CASE ResetTimer /\ ~TimerRoom
    BY <2>1, <2>4 DEF ResetTimer, Command, TimedInv, WillRun
  <2>5. CASE timer_cmds' = timer_cmds /\ untimed' = untimed
    BY <2>1, <2>5 DEF TimedInv, WillRun
  <2> QED
    BY <2>2, <2>3, <2>4, <2>5
<1>5. CASE ObeyCommand
  BY <1>5, ObeyRuns DEF ObeyCommand, TimedInv, task
<1>6. CASE Expire
  BY <1>6 DEF Expire, TimedInv, WillRun, task
<1>7. CASE Elapse
  BY <1>7, ElapseFacts DEF Elapse, TimedInv, task
<1>8. CASE Ask \/ PostTimeout \/ UNCHANGED vars
  BY <1>8 DEF Ask, PostTimeout, vars, task, daemon, TimedInv, WillRun
<1> QED
  BY <1>1, <1>2, <1>3, <1>4, <1>5, <1>6, <1>7, <1>8 DEF Next, ManagerTask, TimerTask

(* The manager waits only for a worker that a running timer, or a start of  *)
(* it on its way, will give up on, unless that start found no room.         *)
THEOREM WaitHasTimeout == Spec => []WaitIsTimed
<1>1. Init => TimedInv
  BY DEF Init, TimedInv
<1>2. TimedInv => WaitIsTimed
  BY DEF TimedInv, WaitIsTimed
<1> QED
  BY <1>1, <1>2, TypeCorrect, TimedStep, PTL DEF Spec

-----------------------------------------------------------------------------
(* WHOSE RESULT IT IS, AS LONG AS NO TIMER HAS EXPIRED *)

(* The worker is the only one that reports, reports once, and its report    *)
(* stays in the queue only while the manager waits for it.                  *)
OwnInv ==
  ~expired =>
    /\ posting = None
    /\ worker = "send" => outcome.of = job
    /\ finish # <<>> =>
         manager = "wait" /\ worker \in {"idle", "returned"} /\ Head(finish).of = job
    /\ manager \in {"stop", "delete", "answer"} => result.of = job
    /\ manager \in {"stop", "delete"} => worker \in {"none", "idle", "returned"}
    /\ manager = "wait" /\ worker \in {"idle", "returned"} => finish # <<>>
    /\ manager = "wait" => worker # "none"
    /\ OwnFinish

LEMMA ManagerOwn ==
  ASSUME TypeInv, FileAtRest, OwnInv, ManagerTask
  PROVE  OwnInv'
<1> SUFFICES ASSUME ~expired PROVE OwnInv'
  BY DEF OwnInv, ManagerTask, Receive, SetupFails, StartTimer, CreateWorker, TakeFinish,
         StopTimer, DeleteWorker, Answer
<1>0. /\ TypeOK /\ posting' = posting /\ posting = None
      /\ \A r : About(job, r).of = job
  BY DEF OwnInv, TypeInv, About, ManagerTask, Receive, SetupFails, StartTimer,
         CreateWorker, TakeFinish, StopTimer, DeleteWorker, Answer, daemon
<1>1. CASE Receive
  BY <1>0, <1>1 DEF Receive, Manager, OwnInv, OwnFinish, FileAtRest, work
<1>2. CASE SetupFails
  BY <1>0, <1>2 DEF SetupFails, Manager, OwnInv, OwnFinish, FileAtRest, work
<1>3. CASE StartTimer
  BY <1>0, <1>3 DEF StartTimer, Manager, OwnInv, OwnFinish, FileAtRest, work
<1>4. CASE CreateWorker
  BY <1>0, <1>4 DEF CreateWorker, Manager, OwnInv, OwnFinish, FileAtRest
<1>5. CASE TakeFinish
  <2>1. finish \in Seq(Finish) /\ Len(finish) <= 1 /\ finish # <<>>
    BY <1>0, <1>5 DEF TypeOK, TakeFinish
  <2>2. Tail(finish) = <<>>
    BY <2>1, TailFacts
  <2> QED
    BY <1>0, <1>5, <2>2 DEF TakeFinish, Manager, OwnInv, OwnFinish, work
<1>6. CASE StopTimer
  BY <1>0, <1>6 DEF StopTimer, Manager, OwnInv, OwnFinish, work
<1>7. CASE DeleteWorker
  BY <1>0, <1>7 DEF DeleteWorker, Manager, OwnInv, OwnFinish
<1>8. CASE Answer
  <2>1. answers \in Seq([to : Ids, what : Finish])
    BY <1>0 DEF TypeOK
  <2>2. [to |-> job, what |-> result] \in [to : Ids, what : Finish] /\ result.of = job
    BY <1>8 DEF Answer, Manager, TypeInv, OwnInv
  <2>3. /\ DOMAIN answers' = 1..(Len(answers) + 1) /\ Len(answers) \in Nat
        /\ DOMAIN answers = 1..Len(answers)
        /\ \A i \in 1..Len(answers) : answers'[i] = answers[i]
        /\ answers'[Len(answers) + 1] = [to |-> job, what |-> result]
    BY <1>8, <2>1, <2>2, AppendFacts, LenProperties DEF Answer
  <2>4. \A i \in DOMAIN answers : answers[i].what.of = answers[i].to
    BY DEF OwnInv, OwnFinish
  <2>5. ASSUME NEW i \in DOMAIN answers' PROVE answers'[i].what.of = answers'[i].to
    <3>1. i \in 1..Len(answers) \/ i = Len(answers) + 1
      BY <2>3, <2>5
    <3>2. CASE i \in 1..Len(answers)
      BY <2>3, <2>4, <3>2
    <3>3. CASE i = Len(answers) + 1
      BY <2>2, <2>3, <3>3
    <3> QED
      BY <3>1, <3>2, <3>3
  <2>6. finish' = <<>> /\ worker' = "none" /\ manager' = "receive"
    BY <1>8 DEF Answer, Manager, OwnInv, FileAtRest, work
  <2> QED
    BY <1>0, <2>5, <2>6 DEF OwnInv, OwnFinish
<1> QED
  BY <1>1, <1>2, <1>3, <1>4, <1>5, <1>6, <1>7, <1>8 DEF ManagerTask

LEMMA WorkerOwn ==
  ASSUME TypeInv, FileAtRest, OwnInv, WorkerTask
  PROVE  OwnInv'
<1>1. /\ manager' = manager /\ job' = job /\ result' = result /\ answers' = answers
      /\ posting' = posting /\ expired' = expired
  BY DEF WorkerTask, Begin, ReadHead, ReadBody, SendFinish, GoesOn, Finds, FindsAtEnd,
         Worker, task
<1> SUFFICES ASSUME ~expired PROVE OwnInv'
  BY <1>1 DEF OwnInv
<1>2. manager = "wait"
  BY DEF OwnInv, FileAtRest, TypeInv, TypeOK, WorkerTask, Begin, ReadHead, ReadBody,
         SendFinish, GoesOn, Finds, FindsAtEnd, Worker
<1>3. CASE SendFinish
  <2>1. outcome \in Finish /\ outcome.of = job /\ finish' = <<outcome>>
    BY <1>3 DEF SendFinish, Worker, TypeInv, OwnInv
  <2>2. finish' # <<>> /\ Head(finish') = outcome
    BY <2>1, SingleType
  <2>3. worker' \in {"idle", "returned"}
    BY <1>3 DEF SendFinish, Worker, AfterSend
  <2> QED
    BY <1>1, <1>2, <2>1, <2>2, <2>3 DEF OwnInv, OwnFinish
<1>4. CASE Begin \/ ReadHead \/ ReadBody
  <2>1. /\ finish' = finish
        /\ worker \in {"begin", "head", "body"} /\ worker' \in {"head", "body", "send"}
        /\ worker' = "send" => outcome'.of = job
    BY <1>4 DEF Begin, ReadHead, ReadBody, GoesOn, Finds, FindsAtEnd, Worker, About
  <2>2. finish = <<>>
    BY <2>1 DEF OwnInv
  <2> QED
    BY <1>1, <1>2, <2>1, <2>2 DEF OwnInv, OwnFinish
<1> QED
  BY <1>3, <1>4 DEF WorkerTask

LEMMA OwnStep == TypeInv /\ FileAtRest /\ OwnInv /\ [Next]_vars => OwnInv'
<1> SUFFICES ASSUME TypeInv, FileAtRest, OwnInv, [Next]_vars PROVE OwnInv'
  OBVIOUS
<1>1. CASE ManagerTask
  BY <1>1, ManagerOwn
<1>2. CASE WorkerTask
  BY <1>2, WorkerOwn
<1>3. CASE Expire
  BY <1>3 DEF Expire, OwnInv
<1>4. CASE PostTimeout
  BY <1>4 DEF PostTimeout, OwnInv
<1>5. CASE Ask \/ ObeyCommand \/ Elapse \/ UNCHANGED vars
  BY <1>5 DEF Ask, ObeyCommand, Elapse, vars, task, work, daemon, OwnInv, OwnFinish
<1> QED
  BY <1>1, <1>2, <1>3, <1>4, <1>5 DEF Next, TimerTask

(* As long as no time-out has struck, every app is told the result of the   *)
(* download it asked for, whatever the workers find and whenever they are   *)
(* deleted.                                                                 *)
THEOREM OwnResultHolds == Spec => []OwnUntilTimeout
<1>1. Init => OwnInv
  BY DEF Init, OwnInv, OwnFinish
<1>2. OwnInv => OwnUntilTimeout
  BY DEF OwnInv, OwnUntilTimeout
<1> QED
  BY <1>1, <1>2, TypeInvariant, FileRests, OwnStep, PTL DEF Spec
=============================================================================
