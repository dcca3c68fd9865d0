---------------------------- MODULE AudioManager ----------------------------
(***************************************************************************)
(* sys/audio_manager/AudioManagerService.c: the audio manager service      *)
(* (AMS) task, its command queue and pending list, the record thread and   *)
(* the two mutexes between them, and (external) the player library.        *)
(*                                                                         *)
(* Clients on any task put commands in xQueueAudioService; the library     *)
(* puts PlayerStatus reports in xQuePlayerStatus.  The queue set hands     *)
(* them to AMS in their order of arrival: `inbox` holds both.              *)
(*                                                                         *)
(* A suffixed name (GiveRun_Forgotten) is the definition after it          *)
(* with a slip in it, kept to show which property would notice.            *)
(***************************************************************************)
EXTENDS AudioCommands

CONSTANTS
  Requests,   (* what the clients of this instance may ask for              *)
  CommandCap, (* AUDIO_MANGER_COMMAND_QUEUE_SIZE                            *)
  StatusCap,  (* AUDIO_ESP32_PLAYER_QUEUE_SIZE                              *)
  MayBlock,   (* may the library raise MediaService._blocking?              *)
  MicFaults,  (* may rawStart or rawRead fail?                              *)
  None

ASSUME ManagerAssumption ==
  /\ Requests \subseteq Request
  /\ \A r \in Requests : r.msg = "RECORD_START" => r.app \in Recorders
  /\ CommandCap \in Nat \ {0} /\ StatusCap \in Nat \ {0}
  /\ MayBlock \in BOOLEAN /\ MicFaults \in BOOLEAN
  /\ None \notin Command /\ None \notin Request

VARIABLES
  inbox,     (* commands and reports AMS has not read                       *)
  at,        (* AMS: "select" | "execute" | "join" (waits for g_rthread_stop) *)
  head,      (* g_audio_manager.head, the pending commands                  *)
  state,     (* g_audio_manager.state                                       *)
  current,   (* g_audio_manager.current                                     *)
  type,      (* g_audio_manager.current_type                                *)
  music_lock, amp,                (* music_wake_lock is held; PA_IO_NUM is high  *)
  run_mutex, stop_mutex,          (* g_rthread_run, g_rthread_stop               *)
  record_queue, recorder, job,    (* record_thread: its queue, its place, command *)
  exceed,                         (* record_exceed_limit                         *)
  player, mic, blocking,          (* the library: playback, capture, _blocking   *)
  log, told, (* history: command i was log[i], and ended told[i] times      *)
  late_pause (* history: AMS has paused the present song when the library   *)
             (* was not playing it: it had ended, or was not resumed yet    *)

manager  == <<head, state, current, type>>
power    == <<music_lock, amp>>
mutexes  == <<run_mutex, stop_mutex>>
thread   == <<record_queue, recorder, job, exceed>>
library  == <<player, mic, blocking>>
history  == <<log, told, late_pause>>
vars == <<inbox, at, manager, power, mutexes, thread, library, history>>

-----------------------------------------------------------------------------
States == {"IDLE", "START_PLAY", "PLAYING", "STOP_PLAY", "PAUSE_PLAY",
           "START_RECORD", "RECORDING", "STOP_RECORD"}
Delaying == {"START_PLAY", "STOP_PLAY", "START_RECORD", "STOP_RECORD"}
PlayStates == {"START_PLAY", "PLAYING", "PAUSE_PLAY", "STOP_PLAY"}
RecordStates == {"START_RECORD", "RECORDING", "STOP_RECORD"}

Event == ({"command"} \X Command) \cup ({"status"} \X Statuses)
Waiting(kind) == {i \in DOMAIN inbox : inbox[i][1] = kind}

Init ==
  /\ inbox = <<>> /\ at = "select"
  /\ head = <<>> /\ state = "IDLE" /\ current = None /\ type = "UNDEFINE"
  /\ music_lock = FALSE /\ amp = FALSE
  /\ run_mutex = "free" /\ stop_mutex = "free"
  /\ record_queue = <<>> /\ recorder = "wait" /\ job = None /\ exceed = FALSE
  /\ player = "off" /\ mic = "off" /\ blocking = FALSE
  /\ log = <<>> /\ told = [i \in Ids |-> 0] /\ late_pause = FALSE

-----------------------------------------------------------------------------
(* CLIENTS: play_start, play_stop, play_pause, play_resume, record_start    *)
(* and record_stop.  A full queue loses the command and the caller still    *)
(* gets 0, at once or after its 500 ticks.                                  *)

RoomForCommand == Cardinality(Waiting("command")) < CommandCap

Numbered(r) == [id |-> Len(log) + 1, app |-> r.app, msg |-> r.msg, tone |-> r.tone]

Ask(r) ==
  /\ Len(log) < MaxCommands
  /\ \/ /\ RoomForCommand
        /\ inbox' = Append(inbox, <<"command", Numbered(r)>>)
        /\ log' = Append(log, r)
     \/ /\ ~RoomForCommand
        /\ log' = Append(log, None)
        /\ UNCHANGED inbox
  /\ UNCHANGED <<at, manager, power, mutexes, thread, library, told, late_pause>>

-----------------------------------------------------------------------------
(* AMS READS ONE EVENT (the loop of AudioManagerServiceTask).               *)

Settle(ids) == told' = [i \in Ids |-> IF i \in ids THEN told[i] + 1 ELSE told[i]]

TakeCommand ==
  /\ at = "select" /\ inbox # <<>> /\ Head(inbox)[1] = "command"
  /\ inbox' = Tail(inbox) /\ at' = "execute"
  /\ head' = Append(head, Head(inbox)[2])
  /\ UNCHANGED <<state, current, type, power, mutexes, thread, library, history>>

(* update_audio_manager_state, by the state and the report it meets. *)
Report(ss, rs) ==
  /\ at = "select" /\ inbox # <<>> /\ Head(inbox)[1] = "status"
  /\ state \in ss /\ Head(inbox)[2] \in rs
  /\ inbox' = Tail(inbox) /\ at' = "execute"
  /\ UNCHANGED <<head, thread, mic, blocking, log, stop_mutex>>

Begun ==
  /\ \/ Report({"START_PLAY"}, {"PLAYING"}) /\ state' = "PLAYING"
     \/ Report({"START_RECORD"}, {"PLAYING"}) /\ state' = "RECORDING"
  /\ UNCHANGED <<current, type, power, run_mutex, player, told, late_pause>>

(* What recurs in the handlers below.                                       *)
Release_KeepsCurrent == state' = "IDLE" /\ current' = current
Release == state' = "IDLE" /\ current' = None

GiveRun_Forgotten == UNCHANGED run_mutex
GiveRun == run_mutex' = "free"

HoldLock_Forgotten == UNCHANGED music_lock
HoldLock == music_lock' = TRUE

PlayFailures == {"ERROR"}

PlayEnded ==
  /\ \/ Report({"PLAYING"}, Ends) /\ type # "TONE"
     \/ Report({"START_PLAY", "PLAYING", "PAUSE_PLAY"}, PlayFailures)
  /\ Release /\ type' = "UNDEFINE"
  /\ amp' = FALSE /\ music_lock' = FALSE
  /\ Settle({current.id})
  /\ UNCHANGED <<run_mutex, player, late_pause>>

RecordEnded ==
  /\ \/ Report({"RECORDING"}, Ends)
     \/ Report({"START_RECORD", "RECORDING"}, {"ERROR"})
  /\ Release /\ GiveRun
  /\ Settle({current.id})
  /\ UNCHANGED <<type, power, player, late_pause>>

(* The app has been told by execute_stop_command already. *)
Stopped ==
  /\ Report({"STOP_PLAY", "STOP_RECORD"}, Ends \cup {"ERROR"})
  /\ Release
  /\ type' = IF state = "STOP_PLAY" THEN "UNDEFINE" ELSE type
  /\ UNCHANGED <<power, run_mutex, player, told, late_pause>>

(* mediaPlay and PA_ENABLE, the tail of execute_start_command. *)
Play ==
  /\ state' = "START_PLAY" /\ player' = "starting" /\ late_pause' = FALSE
  /\ HoldLock /\ amp' = TRUE

(* The tone before the song is over: execute_start_command again, with the  *)
(* tone path now empty; when that is blocked nobody hears of the command.   *)
ToneEnded ==
  /\ Report({"PLAYING"}, Ends) /\ type = "TONE"
  /\ \/ ~blocking /\ Play /\ type' = "SONG" /\ UNCHANGED current
     \/ blocking /\ Release /\ UNCHANGED <<type, power, player, late_pause>>
  /\ UNCHANGED <<run_mutex, told>>

(* The reports update_audio_manager_state acts upon; the rest is "unexpect". *)
Meaningful(s) ==
  CASE s \in {"START_PLAY", "START_RECORD"}                        -> {"PLAYING", "ERROR"}
    [] s \in {"PLAYING", "RECORDING", "STOP_PLAY", "STOP_RECORD"} -> Ends \cup {"ERROR"}
    [] s = "PAUSE_PLAY"                                           -> {"ERROR"}
    [] s = "IDLE"                                                 -> {}

Unexpected ==
  /\ \E s \in States : Report({s}, Statuses \ Meaningful(s))
  /\ UNCHANGED <<state, current, type, power, run_mutex, player, told, late_pause>>

TakeStatus ==
  Begun \/ PlayEnded \/ RecordEnded \/ Stopped \/ ToneEnded \/ Unexpected

-----------------------------------------------------------------------------
(* AMS DECIDES: execute_audio_command, after every event.                   *)

(* The library answers a stop or a pause only for a playback that is alive. *)
StopOf(p)   == IF p = "off" THEN p ELSE "stopping"
PauseOf(p)  == IF p = "on" THEN "pausing" ELSE p
ResumeOf(p) == IF p \in {"pausing", "paused"} THEN "resuming" ELSE p

(* The stop message searched while something is current: anything that is   *)
(* not PLAYING is taken for a recording.                                    *)
(* The searches that follow name AUDIO_MANAGER_ST_STOP_PLAY, _PAUSE_PLAY and *)
(* _RESUME_PLAY, whose values 3, 4, 5 are those of the messages PLAY_STOP,  *)
(* PLAY_PAUSE and PLAY_RESUME.                                              *)
StopMsg == IF state = "PLAYING" THEN "PLAY_STOP" ELSE "RECORD_STOP"
StopAsked_NotWhilePaused ==
  state \in {"PLAYING", "RECORDING"} /\ Asks(head, current.app, {StopMsg})
StopAsked ==
  \/ Asks(head, current.app, {StopMsg})
  \/ state = "PAUSE_PLAY" /\ Asks(head, current.app, {"PLAY_STOP"})
MustStop == head # <<>> /\ current # None /\ (Starts(head) # {} \/ StopAsked)

(* xSemaphoreTake(g_rthread_stop, portMAX_DELAY): the record thread is out. *)
Joined == stop_mutex = "free"

Decide ==
  /\ head # <<>>
  /\ \/ at = "execute" /\ state \notin Delaying /\ ~(state = "RECORDING" /\ MustStop)
     \/ at = "join" /\ Joined
  /\ at' = "select"
  /\ UNCHANGED <<inbox, stop_mutex, recorder, job, exceed, mic, blocking, log>>

Postpone ==
  /\ at = "execute" /\ (state \in Delaying \/ head = <<>>)
  /\ at' = "select"
  /\ UNCHANGED <<inbox, manager, power, mutexes, thread, library, history>>

(* execute_stop_command, RECORDING: let the record thread out, then wait.   *)
LetRecorderGo_FreesFirst ==
  /\ at = "execute" /\ state = "RECORDING" /\ MustStop
  /\ GiveRun /\ at' = "join" /\ current' = None
  /\ UNCHANGED <<inbox, head, state, type, power, stop_mutex, thread, library, history>>

LetRecorderGo ==
  /\ at = "execute" /\ state = "RECORDING" /\ MustStop
  /\ GiveRun /\ at' = "join"
  /\ UNCHANGED <<inbox, manager, power, stop_mutex, thread, library, history>>

AfterStop_IdleAtOnce(s) == "IDLE"
AfterStop(s) == IF s = "RECORDING" THEN "STOP_RECORD" ELSE "STOP_PLAY"

(* execute_stop_command, with the ids ignore_all_command tells besides. *)
Stop(ignored) ==
  \/ /\ state \in {"PLAYING", "PAUSE_PLAY"} /\ ~blocking
     /\ state' = AfterStop(state) /\ player' = StopOf(player)
     /\ amp' = FALSE /\ music_lock' = FALSE
     /\ Settle(ignored \cup {current.id})
  \/ /\ state = "RECORDING"
     /\ state' = AfterStop(state)
     /\ Settle(ignored \cup {current.id})
     /\ UNCHANGED <<player, power>>
  \/ /\ state \in {"PLAYING", "PAUSE_PLAY"} /\ blocking
     /\ Settle(ignored)
     /\ UNCHANGED <<state, player, power>>

(* execute_start_command with nothing current. *)
Start(c) ==
  \/ /\ c.msg = "PLAY_START" /\ ~blocking
     /\ Play
     /\ current' = [c EXCEPT !.tone = FALSE]
     /\ type' = IF c.tone THEN "TONE" ELSE "SONG"
     /\ UNCHANGED <<run_mutex, record_queue>>
  \/ /\ c.msg = "PLAY_START" /\ blocking
     /\ UNCHANGED <<state, current, type, player, power, run_mutex, record_queue, late_pause>>
  \/ /\ c.msg = "RECORD_START" /\ run_mutex = "free"
     /\ run_mutex' = "ams" /\ record_queue' = Append(record_queue, c)
     /\ current' = c /\ state' = "START_RECORD"
     /\ UNCHANGED <<type, player, power, late_pause>>

(* ignore_all_command empties the list and tells its start commands; the    *)
(* one start that AMS acts upon was taken out before.                       *)
EmptyList_Forgotten == UNCHANGED head
EmptyList == head' = <<>>
Refused_NotTold(i) == {}
Refused(i) == StartIds(head) \ {head[i].id}

StartIdle ==
  /\ Decide /\ current = None
  /\ \E i \in DOMAIN head :
       /\ IsLastStart(head, i) /\ ~Superseded(head, i)
       /\ Start(head[i])
       /\ Settle(Refused(i))
  /\ EmptyList

(* The occupier either was superseded too, or waits for the stop to finish. *)
TakeOver ==
  /\ Decide /\ current # None
  /\ \E i \in DOMAIN head :
       /\ IsLastStart(head, i)
       /\ \/ /\ Superseded(head, i)
             /\ EmptyList /\ Stop(StartIds(head))
          \/ /\ ~Superseded(head, i)
             /\ head' = <<head[i]>> /\ Stop(Refused(i))
  /\ UNCHANGED <<current, type, run_mutex, record_queue, late_pause>>

StopOnRequest ==
  /\ Decide /\ current # None /\ Starts(head) = {} /\ StopAsked
  /\ Stop({}) /\ EmptyList
  /\ UNCHANGED <<current, type, run_mutex, record_queue, late_pause>>

(* With no start and no stop in the list, what the current app asks for. *)
Wants(s, msg) ==
  /\ current # None /\ Starts(head) = {} /\ ~StopAsked /\ ~blocking
  /\ state = s /\ Asks(head, current.app, {msg})

Pause ==
  /\ Decide /\ Wants("PLAYING", "PLAY_PAUSE")
  /\ state' = "PAUSE_PLAY" /\ player' = PauseOf(player) /\ music_lock' = FALSE
  /\ EmptyList
  /\ late_pause' = (late_pause \/ player # "on")
  /\ UNCHANGED <<current, type, amp, run_mutex, record_queue, told>>

(* execute_resume_command does not wait in AUDIO_MANAGER_ST_RESUME_PLAY: that *)
(* state is handled by update_audio_manager_state and entered by nobody.    *)
AfterResume == "PLAYING"

Resume ==
  /\ Decide /\ Wants("PAUSE_PLAY", "PLAY_RESUME")
  /\ state' = AfterResume /\ player' = ResumeOf(player) /\ HoldLock
  /\ EmptyList
  /\ UNCHANGED <<current, type, amp, run_mutex, record_queue, told, late_pause>>

IgnoreAll ==
  /\ Decide
  /\ \/ /\ current = None
        /\ \A i \in Starts(head) : IsLastStart(head, i) => Superseded(head, i)
     \/ /\ current # None /\ Starts(head) = {} /\ ~StopAsked
        /\ ~Wants("PLAYING", "PLAY_PAUSE") /\ ~Wants("PAUSE_PLAY", "PLAY_RESUME")
  /\ EmptyList /\ Settle(StartIds(head))
  /\ UNCHANGED <<state, current, type, power, run_mutex, record_queue, player, late_pause>>

Execute ==
  \/ Postpone \/ LetRecorderGo \/ StartIdle \/ TakeOver
  \/ StopOnRequest \/ Pause \/ Resume \/ IgnoreAll

AMS == TakeCommand \/ TakeStatus \/ Execute

-----------------------------------------------------------------------------
(* THE RECORD THREAD (record_thread; amr_code_task's VAD is RecorderEnough). *)

RoomForStatus == Cardinality(Waiting("status")) < StatusCap

(* xQueueSend(xQuePlayerStatus, &pst, 0): lost when the queue is full. *)
SelfReportError ==
  inbox' = IF RoomForStatus THEN Append(inbox, <<"status", "ERROR">>) ELSE inbox

RecorderStep(from, to) ==
  /\ recorder = from /\ recorder' = to
  /\ UNCHANGED <<at, manager, power, run_mutex, player, blocking, history>>

(* A recorder app that is no listener needs its file opened first. *)
RecorderBegin ==
  /\ record_queue # <<>>
  /\ record_queue' = Tail(record_queue) /\ exceed' = FALSE
  /\ \/ /\ RecorderStep("wait", "lock")
        /\ job' = Head(record_queue)
        /\ UNCHANGED inbox
     \/ /\ RecorderStep("wait", "wait")
        /\ Head(record_queue).app \notin Listeners
        /\ SelfReportError
        /\ UNCHANGED job
  /\ UNCHANGED <<stop_mutex, mic>>

RecorderOpen ==
  /\ RecorderStep("lock", "raw")
  /\ stop_mutex = "free" /\ stop_mutex' = "recorder"
  /\ mic' = "starting"
  /\ UNCHANGED <<inbox, record_queue, job, exceed>>

(* AMS has given g_rthread_run back: the loop takes it, gives it, breaks. *)
RecorderTold ==
  /\ RecorderStep("raw", "close") /\ run_mutex = "free"
  /\ UNCHANGED <<inbox, stop_mutex, mic, record_queue, job, exceed>>

(* The file is full, or the VAD heard the end of the speech. *)
RecorderEnough ==
  /\ RecorderStep("raw", "close") /\ mic = "on"
  /\ exceed' = (job.app \notin Listeners)
  /\ UNCHANGED <<inbox, stop_mutex, mic, record_queue, job>>

RecorderFails ==
  /\ MicFaults /\ RecorderStep("raw", "close")
  /\ IF job.app \in Listeners THEN SelfReportError ELSE UNCHANGED inbox
  /\ UNCHANGED <<stop_mutex, mic, record_queue, job, exceed>>

RecorderClose ==
  /\ RecorderStep("close", "unlock")
  /\ mic' = StopOf(mic)
  /\ UNCHANGED <<inbox, stop_mutex, record_queue, job, exceed>>

RecorderUnlock ==
  /\ RecorderStep("unlock", "wait")
  /\ stop_mutex' = "free" /\ job' = None
  /\ UNCHANGED <<inbox, mic, record_queue, exceed>>

RecordThread ==
  \/ RecorderBegin \/ RecorderOpen \/ RecorderTold \/ RecorderEnough
  \/ RecorderFails \/ RecorderClose \/ RecorderUnlock

-----------------------------------------------------------------------------
(* THE PLAYER LIBRARY (external): what AMS relies on.  One report for every *)
(* change, in order; it waits while the status queue is full.               *)

Emit(status) ==
  /\ RoomForStatus /\ inbox' = Append(inbox, <<"status", status>>)
  /\ UNCHANGED <<at, manager, power, mutexes, thread, history>>

PlayerTurn(from, status, to) ==
  /\ player \in from /\ player' = to /\ Emit(status)
  /\ UNCHANGED <<mic, blocking>>

MicTurn(from, status, to) ==
  /\ mic \in from /\ mic' = to /\ Emit(status)
  /\ UNCHANGED <<player, blocking>>

PlayerObeys ==
  \/ PlayerTurn({"starting", "resuming"}, "PLAYING", "on")
  \/ PlayerTurn({"pausing"}, "PAUSED", "paused")
  \/ PlayerTurn({"stopping"}, "STOP", "off")
PlayerFinishes == PlayerTurn({"on"}, "FINISHED", "off")
PlayerFails == PlayerTurn({"starting", "on", "pausing", "resuming"}, "ERROR", "off")
MicObeys ==
  \/ MicTurn({"starting"}, "PLAYING", "on")
  \/ MicTurn({"stopping"}, "STOP", "off")
MicFails == MicFaults /\ MicTurn({"starting", "on"}, "ERROR", "off")

BlockingFlips ==
  /\ MayBlock /\ blocking' = ~blocking
  /\ UNCHANGED <<inbox, at, manager, power, mutexes, thread, player, mic, history>>

Library == PlayerObeys \/ PlayerFinishes \/ PlayerFails \/ MicObeys \/ MicFails

-----------------------------------------------------------------------------
Next ==
  \/ \E r \in Requests : Ask(r)
  \/ AMS \/ RecordThread \/ Library \/ BlockingFlips

Spec == Init /\ [][Next]_vars

(* FreeRTOS runs each ready task again and again; the library obeys a call  *)
(* it was given, but need not ever finish a song.                           *)
FairSpec ==
  /\ Spec
  /\ WF_vars(AMS) /\ WF_vars(RecordThread)
  /\ WF_vars(PlayerObeys) /\ WF_vars(MicObeys)

-----------------------------------------------------------------------------
TypeOK ==
  /\ inbox \in Seq(Event)
  /\ at \in {"select", "execute", "join"}
  /\ head \in Seq(Command)
  /\ state \in States
  /\ current \in Command \cup {None}
  /\ type \in {"SONG", "TONE", "UNDEFINE"}
  /\ music_lock \in BOOLEAN /\ amp \in BOOLEAN
  /\ run_mutex \in {"free", "ams"} /\ stop_mutex \in {"free", "recorder"}
  /\ record_queue \in Seq(Command)
  /\ recorder \in {"wait", "lock", "raw", "close", "unlock"}
  /\ job \in Command \cup {None}
  /\ exceed \in BOOLEAN
  /\ player \in {"off", "starting", "on", "pausing", "paused", "resuming", "stopping"}
  /\ mic \in {"off", "starting", "on", "stopping"}
  /\ blocking \in BOOLEAN
  /\ log \in Seq(Request \cup {None}) /\ Len(log) \in 0..MaxCommands
  /\ told \in [Ids -> Nat] /\ late_pause \in BOOLEAN

-----------------------------------------------------------------------------
(* An app owns the audio exactly while AMS is not idle, and the state is of *)
(* the kind that app asked for (current and state are set on 20 paths).     *)
Ownership ==
  /\ current = None <=> state = "IDLE"
  /\ state \in PlayStates => current.msg = "PLAY_START"
  /\ state \in RecordStates => current.msg = "RECORD_START"

(* The music wake lock is held exactly while something is being started or  *)
(* played, and the amplifier is on for that time and for a pause, so the    *)
(* power manager neither sleeps under a song nor stays awake for nothing.   *)
PowerFollowsPlayback ==
  /\ music_lock <=> state \in {"START_PLAY", "PLAYING"}
  /\ amp <=> state \in {"START_PLAY", "PLAYING", "PAUSE_PLAY"}

(* The codec plays or captures only for the app AMS has recorded as owner:  *)
(* nothing sounds or listens unowned, and never both at once, although the  *)
(* library and the record thread start and stop it behind AMS's back.       *)
CodecHasOwner ==
  /\ player # "off" => state \in PlayStates
  /\ mic # "off" => state \in RecordStates

(* As long as AMS takes a song to be starting, playing, paused or stopping, *)
(* the library is at work on it or its last report waits: no report that    *)
(* AMS needs is thrown away as "unexpect" (1135-1151), with wake lock and    *)
(* amplifier left on for a song that is over, or commands postponed for     *)
(* ever (1253).  Pauses, resumes, take-overs, stale reports and a library   *)
(* that blocks do not bring it about; only late_pause does (README, 6).     *)
PlaybackAlive ==
  state \in PlayStates /\ ~late_pause =>
    \/ player # "off"
    \/ \E i \in Waiting("status") : inbox[i][2] \in {"FINISHED", "STOP", "ERROR"}

(* While the record thread works for a command, or for voice recognition    *)
(* reads g_audio_manager.current to feed the app (notify_app_status), that  *)
(* command is still the current one: AMS neither frees nor replaces it.     *)
RecorderHasOwner ==
  \/ recorder = "lock"
  \/ recorder \in {"raw", "close"} /\ job.app \in Listeners
  => current = job

(* AMS holds g_rthread_run from the start of a recording until its end, the *)
(* record thread g_rthread_stop while it captures, and no second recording  *)
(* is queued meanwhile (record_queue never holds more than one).            *)
RecordHandshake ==
  /\ run_mutex = "ams" <=> state \in {"START_RECORD", "RECORDING"} /\ at # "join"
  /\ stop_mutex = "recorder" <=> recorder \in {"raw", "close", "unlock"}
  /\ Len(record_queue) <= 1
  /\ at = "join" => state = "RECORDING"

(* Start commands in AMS's queue that nothing has answered yet. *)
InInbox   == {inbox[i][2].id : i \in Waiting("command")}
InHead    == {head[i].id : i \in DOMAIN head}
Unstopped == IF current = None \/ state \in {"STOP_PLAY", "STOP_RECORD"}
             THEN {} ELSE {current.id}
Accepted  == {i \in DOMAIN log : log[i] # None}

(* The callback of a start command that got into the queue ends it exactly  *)
(* once (finish, stopped, disturbed, error or ignored): never while it is   *)
(* still waiting or playing, never twice, never not at all.                 *)
OneVerdict ==
  \A i \in Accepted : log[i].msg \in StartMsgs =>
    told[i] = IF i \in InInbox \cup InHead \cup Unstopped THEN 0 ELSE 1

(* "last start app occupy audio control rights, other will ignore": nothing *)
(* older than the app that owns the audio is still waiting to take it.      *)
LastStartOwns ==
  current # None => \A i \in InInbox \cup InHead : i > current.id

(* A stop AMS has read is never forgotten: the playback or recording its    *)
(* app had asked for before is not running afterwards.                      *)
StartOf(stop) == IF stop = "PLAY_STOP" THEN "PLAY_START" ELSE "RECORD_START"
StopHonoured ==
  \A i \in Accepted \ (InInbox \cup InHead) :
    /\ log[i].msg \in StopMsgs
    /\ current # None /\ current.id < i
    /\ current.app = log[i].app /\ current.msg = StartOf(log[i].msg)
    => state \in {"STOP_PLAY", "STOP_RECORD"}

(* No request waits for ever: AMS leaves its transitional states, so each   *)
(* command it was sent is eventually taken up or answered.                  *)
EveryCommandServed ==
  \A i \in Ids : (i \in InInbox \cup InHead) ~> (i \notin InInbox \cup InHead)

-----------------------------------------------------------------------------
(* REFINEMENT: the start commands, seen as requests for the audio. *)
StartsAmong(ids) == {i \in ids : log[i].msg \in StartMsgs}

Focus == INSTANCE AudioFocus WITH
  Requests <- Ids,
  waiting <- StartsAmong(InInbox \cup InHead),
  owner <- IF Unstopped = {} THEN 0 ELSE current.id,
  done <- {i \in Ids : told[i] > 0}

(* AMS implements the promise of AudioFocus: each start waits, may own the  *)
(* audio alone, and is done, and no grant leaves an older request waiting.  *)
ImplementsFocus == Focus!Spec
=============================================================================
