---------------------------- MODULE DownloadServer ----------------------------
(***************************************************************************)
(* sys/download_server/download_server.c: mng_download_task takes one      *)
(* request at a time, starts sock_rev_timer and a worker                   *)
(* (execute_download_task), waits for the first report in a queue of size  *)
(* one, stops the timer, deletes the worker and calls the app back.  The   *)
(* worker resets the timer with every chunk; the timer's callback runs in  *)
(* the FreeRTOS timer task (external) and posts HTTP_TIMEOUT to the same   *)
(* queue, waiting for room for as long as it takes.                        *)
(*                                                                         *)
(* Time is one action, Elapse: the 30 s of the timer go by. They do not go *)
(* by while the manager or the timer task has something to do at once.     *)
(*                                                                         *)
(* A suffixed name (AfterSend_GoesOn) is the definition after it           *)
(* with a slip in it, kept to show which property would notice.            *)
(***************************************************************************)
EXTENDS Naturals, Sequences

CONSTANTS
  MaxRequests, (* bound: requests made in one behaviour                      *)
  RequestCap,  (* DOWNLOAD_REQUEST_QUEUE_SIZE                                *)
  TimerCap,    (* the length of the timer task's queue                       *)
  MaxChunks,   (* bound: reads after which a worker goes on (files are finite) *)
  None

ASSUME DownloadAssumption ==
  /\ MaxRequests \in Nat /\ MaxChunks \in Nat
  /\ RequestCap \in Nat \ {0} /\ TimerCap \in Nat \ {0}

VARIABLES
  asked,      (* requests made so far: they are numbered                     *)
  requests,   (* download_request_info_queue                                 *)
  manager,    (* "receive" | "setup" | "create" | "wait" | "stop" | "delete" | "answer" *)
  job,        (* req_buff: the request at hand, 0 if none                    *)
  result,     (* sync_finish_info                                            *)
  finish,     (* download_finish_info_queue                                  *)
  worker,     (* "none" | "begin" | "head" | "body" | "send" | "idle" | "returned" *)
  outcome,    (* download_info, what the worker is about to report           *)
  chunks,     (* what the worker has read so far (copy_sum, count)           *)
  timer_cmds, (* "start" (xTimerStart, xTimerReset) | "late", a start 30 s ago | "stop" *)
  timer,      (* sock_rev_timer: "off" | "on" | "due"                        *)
  posting,    (* what its callback is posting, None outside of the callback  *)
  answers,    (* history: whom the callbacks were made to, and with what     *)
  untimed,    (* history: the last start of the timer found no room          *)
  expired     (* history: the timer's callback has run                       *)

clients == <<asked, requests>>
task    == <<manager, job, result, answers>>
work    == <<worker, outcome, chunks>>
daemon  == <<timer_cmds, timer, posting>>
vars == <<clients, task, finish, work, daemon, untimed, expired>>

Ids     == 1..MaxRequests
(* What the properties tell apart: WRITE_FAILED is a failed write of the    *)
(* reading loop, FAILED every other failure.                                *)
Reasons == {"LOAD_SUCC", "FAILED", "WRITE_FAILED", "HTTP_TIMEOUT"}

(* A report, and the download it is about: 0 if none was under way. *)
Finish == [of : Ids \cup {0}, reason : Reasons]
About(id, reason) == [of |-> id, reason |-> reason]

Init ==
  /\ asked = 0 /\ requests = <<>>
  /\ manager = "receive" /\ job = 0 /\ result = None /\ finish = <<>>
  /\ worker = "none" /\ outcome = None /\ chunks = 0
  /\ timer_cmds = <<>> /\ timer = "off" /\ posting = None
  /\ answers = <<>> /\ untimed = FALSE /\ expired = FALSE

-----------------------------------------------------------------------------
(* send_download_req_Q waits while the queue is full.                       *)
Ask ==
  /\ asked < MaxRequests /\ Len(requests) < RequestCap
  /\ asked' = asked + 1 /\ requests' = Append(requests, asked')
  /\ UNCHANGED <<task, finish, work, daemon, untimed, expired>>

(* xTimerStart, xTimerReset and xTimerStop post to the timer task and wait  *)
(* for nothing: with its queue full they do nothing.                        *)
TimerRoom == Len(timer_cmds) < TimerCap
Command(cmd) == timer_cmds' = IF TimerRoom THEN Append(timer_cmds, cmd) ELSE timer_cmds

-----------------------------------------------------------------------------
(* THE MANAGER (mng_download_task) *)
Manager(from, to) == manager = from /\ manager' = to

Receive ==
  /\ Manager("receive", "setup") /\ requests # <<>>
  /\ job' = Head(requests) /\ requests' = Tail(requests)
  /\ UNCHANGED <<asked, result, answers, finish, work, daemon, untimed, expired>>

(* No wifi, URL, file, connection or answer to the request: DOWNLOAD_FAILED. *)
SetupFails ==
  /\ Manager("setup", "answer")
  /\ result' = About(job, "FAILED")
  /\ UNCHANGED <<clients, job, answers, finish, work, daemon, untimed, expired>>

StartTimer_Forgotten ==
  /\ Manager("setup", "create")
  /\ UNCHANGED <<clients, job, result, answers, finish, work, daemon, untimed, expired>>

StartTimer ==
  /\ Manager("setup", "create")
  /\ Command("start") /\ untimed' = ~TimerRoom
  /\ UNCHANGED <<clients, job, result, answers, finish, work, timer, posting, expired>>

(* Without memory for the task there is nothing to wait for. *)
CreateWorker ==
  /\ \/ Manager("create", "wait") /\ worker' = "begin" /\ UNCHANGED result
     \/ Manager("create", "stop") /\ result' = About(job, "FAILED") /\ UNCHANGED worker
  /\ UNCHANGED <<clients, job, answers, finish, outcome, chunks, daemon, untimed, expired>>

TakeFinish ==
  /\ Manager("wait", "stop") /\ finish # <<>>
  /\ result' = Head(finish) /\ finish' = Tail(finish)
  /\ UNCHANGED <<clients, job, answers, work, daemon, untimed, expired>>

StopTimer ==
  /\ Manager("stop", "delete") /\ Command("stop")
  /\ UNCHANGED <<clients, job, result, answers, finish, work, timer, posting, untimed, expired>>

(* Deleted wherever it is, in the middle of a send too. *)
DeleteWorker_UnlessDone ==
  /\ Manager("delete", "answer")
  /\ IF result.reason = "HTTP_TIMEOUT" THEN worker' = "none" ELSE UNCHANGED worker
  /\ outcome' = None /\ chunks' = 0
  /\ UNCHANGED <<clients, job, result, answers, finish, daemon, untimed, expired>>

DeleteWorker ==
  /\ Manager("delete", "answer")
  /\ worker' = "none" /\ outcome' = None /\ chunks' = 0
  /\ UNCHANGED <<clients, job, result, answers, finish, daemon, untimed, expired>>

Answer ==
  /\ Manager("answer", "receive")
  /\ answers' = Append(answers, [to |-> job, what |-> result])
  /\ job' = 0 /\ result' = None
  /\ UNCHANGED <<clients, finish, work, daemon, untimed, expired>>

ManagerTask ==
  \/ Receive \/ SetupFails \/ StartTimer \/ CreateWorker
  \/ TakeFinish \/ StopTimer \/ DeleteWorker \/ Answer

-----------------------------------------------------------------------------
(* THE WORKER (execute_download_task) *)
Worker(from, to, found) ==
  /\ worker = from /\ worker' = to /\ outcome' = found
  /\ UNCHANGED <<clients, task, timer, posting, expired>>

Finds(from, reason) == Worker(from, "send", About(job, reason)) /\ UNCHANGED chunks

(* A chunk, or the task's beginning, postpones the time-out. *)
ResetTimer == Command("start") /\ untimed' = (untimed /\ ~TimerRoom)

Begin == Worker("begin", "head", None) /\ ResetTimer /\ UNCHANGED <<chunks, finish>>

GoesOn(from, to) ==
  /\ Worker(from, to, None) /\ ResetTimer
  /\ chunks < MaxChunks /\ chunks' = chunks + 1

(* A read that yields nothing resets nothing. *)
FindsAtEnd(from, reason) == Finds(from, reason) /\ UNCHANGED <<timer_cmds, untimed>>

(* Until the end of the HTTP header: then the first write may fail, too.    *)
ReadHead ==
  /\ \/ \E to \in {"head", "body"} : GoesOn("head", to)
     \/ Finds("head", "FAILED") /\ ResetTimer
     \/ FindsAtEnd("head", "FAILED")
  /\ UNCHANGED finish

ReadBody ==
  /\ \/ GoesOn("body", "body")
     \/ \E r \in {"LOAD_SUCC", "FAILED", "WRITE_FAILED"} : Finds("body", r) /\ ResetTimer
     \/ \E r \in {"LOAD_SUCC", "FAILED"} : FindsAtEnd("body", r)
  /\ UNCHANGED finish

(* A failed write of the loop returns from the task function, which         *)
(* FreeRTOS forbids; all else leaves the worker in a loop.                  *)
AfterSend_GoesOn == IF outcome.reason = "WRITE_FAILED" THEN "body" ELSE "idle"
AfterSend == IF outcome.reason = "WRITE_FAILED" THEN "returned" ELSE "idle"

SendFinish ==
  /\ Worker("send", AfterSend, None)
  /\ finish = <<>> /\ finish' = <<outcome>>
  /\ UNCHANGED <<chunks, timer_cmds, untimed>>

WorkerTask == Begin \/ ReadHead \/ ReadBody \/ SendFinish

-----------------------------------------------------------------------------
(* THE TIMER TASK (external), while it is not inside the callback, and      *)
(* sock_timer_cb_func.                                                      *)
ObeyCommand ==
  /\ posting = None /\ timer_cmds # <<>>
  /\ timer' = [start |-> "on", late |-> "due", stop |-> "off"][Head(timer_cmds)]
  /\ timer_cmds' = Tail(timer_cmds)
  /\ UNCHANGED <<clients, task, finish, work, posting, untimed, expired>>

(* The timer reloads itself. *)
UnderWay == manager \in {"create", "wait", "stop", "delete"}
Expire ==
  /\ posting = None /\ timer = "due" /\ timer' = "on"
  /\ posting' = About(IF UnderWay THEN job ELSE 0, "HTTP_TIMEOUT")
  /\ expired' = TRUE
  /\ UNCHANGED <<clients, task, finish, work, timer_cmds, untimed>>

PostTimeout ==
  /\ posting # None /\ finish = <<>>
  /\ finish' = <<posting>> /\ posting' = None
  /\ UNCHANGED <<clients, task, work, timer_cmds, timer, untimed, expired>>

TimerTask == ObeyCommand \/ Expire \/ PostTimeout

-----------------------------------------------------------------------------
(* The manager may take its time over a connection and over a callback,     *)
(* otherwise it only rests where it waits; the timer task, where it has     *)
(* nothing to do or waits for room in the finish queue.                     *)
ManagerRests ==
  \/ manager \in {"setup", "answer"}
  \/ manager = "receive" /\ requests = <<>>
  \/ manager = "wait" /\ finish = <<>>

TimerRests ==
  IF posting = None THEN timer_cmds = <<>> /\ timer # "due" ELSE finish # <<>>

Elapse ==
  /\ ManagerRests /\ TimerRests
  /\ timer # "off" /\ timer' = "due"
  /\ timer_cmds' = [i \in DOMAIN timer_cmds |->
                      IF timer_cmds[i] = "start" THEN "late" ELSE timer_cmds[i]]
  /\ UNCHANGED <<clients, task, finish, work, posting, untimed, expired>>

Next == Ask \/ ManagerTask \/ WorkerTask \/ TimerTask \/ Elapse

Spec == Init /\ [][Next]_vars

(* The worker has the lowest priority of all and may stall in a read or a   *)
(* write for ever: only the manager and the timer task are sure to go on.   *)
FairSpec ==
  /\ Spec
  /\ WF_vars(ManagerTask)
  /\ WF_vars(TimerTask) /\ WF_vars(Elapse)

-----------------------------------------------------------------------------
TypeOK ==
  /\ asked \in 0..MaxRequests
  /\ requests \in Seq(Ids) /\ Len(requests) <= RequestCap
  /\ manager \in {"receive", "setup", "create", "wait", "stop", "delete", "answer"}
  /\ job \in Ids \cup {0}
  /\ result \in Finish \cup {None} /\ outcome \in Finish \cup {None}
  /\ finish \in Seq(Finish) /\ Len(finish) <= 1
  /\ worker \in {"none", "begin", "head", "body", "send", "idle", "returned"}
  /\ chunks \in 0..MaxChunks
  /\ timer_cmds \in Seq({"start", "late", "stop"}) /\ Len(timer_cmds) <= TimerCap
  /\ timer \in {"off", "on", "due"} /\ posting \in Finish \cup {None}
  /\ answers \in Seq([to : Ids, what : Finish])
  /\ untimed \in BOOLEAN /\ expired \in BOOLEAN

(* When an app is called back, and while the server is between downloads,   *)
(* no worker writes the file any more: the app may read or remove it.       *)
FileAtRest == manager \notin {"wait", "stop", "delete"} => worker = "none"

(* The manager never waits for a worker that may have stalled without the   *)
(* timer running, or a start of it ahead: neither the stop for the download *)
(* before nor a reset of the worker before takes its time-out away.         *)
WillRun ==
  IF timer_cmds = <<>> THEN timer # "off" ELSE timer_cmds[Len(timer_cmds)] # "stop"
WaitIsTimed == manager = "wait" /\ ~untimed => WillRun

(* download_server.h:21, of the callback: it is called when a file has been *)
(* downloaded, to tell the task that asked how its download went. Nobody is *)
(* told the end of another download. Not so after a time-out (README, 6).   *)
OwnFinish == \A i \in DOMAIN answers : answers[i].what.of = answers[i].to

(* Only the race of a time-out with a late report can break that.           *)
OwnUntilTimeout == ~expired => OwnFinish

(* Whoever asks is called back, though the worker may stall for ever (but   *)
(* for a start of the timer that found no room in the timer task's queue).  *)
Waits(r) == job = r \/ \E i \in DOMAIN requests : requests[i] = r
EveryRequestAnswered == \A r \in Ids : Waits(r) ~> (~Waits(r) \/ untimed)

(* timers.h:349: "This is called from a timer callback so must not block."  *)
(* The timer task, which every timer of the device needs, at least comes    *)
(* back from sock_timer_cb_func (send_download_finish_Q, portMAX_DELAY).    *)
(* Not so with a late report in the finish queue (README, 6).               *)
TimerTaskReleased == posting # None ~> posting = None
=============================================================================
