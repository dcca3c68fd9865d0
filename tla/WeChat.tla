-------------------------------- MODULE WeChat --------------------------------
(***************************************************************************)
(* app/wechat.c: voices the child records are uploaded, messages from the  *)
(* parents are downloaded and played.  wechat_task reads one queue; the    *)
(* key task, two timers, AMS, the upload and the download server and the   *)
(* remote command channel post to it, and it posts to itself.              *)
(*                                                                         *)
(* External: AMS, of which only what AudioManager shows is used (one       *)
(* verdict for each start, STOPPED only after a stop), and the download    *)
(* server, which answers each request once.  Left out: the JSON of a       *)
(* message, paths and URLs, the LED, and the playbacks without a callback  *)
(* ("sent" and PLAY_PREVIOUS), which change no state here.                 *)
(*                                                                         *)
(* A suffixed name (Ready_Again) is the definition after it with a slip    *)
(* in it, kept to show which property would notice.                        *)
(***************************************************************************)
EXTENDS Naturals, Sequences

CONSTANTS
  QueueSize,    (* WECHAT_QUEUE_SIZE                                        *)
  UploadRoom,   (* UPLOAD_REQUEST_QUEUE_SIZE                                *)
  RetryLimit,   (* how many failures in a row are tried again, 5            *)
  MaxVoices,    (* bound: recordings that are begun                         *)
  MaxMessages,  (* bound: messages the server pushes                        *)
  MaxPresses,   (* bound: presses of the key                                *)
  None

ASSUME WeChatAssumption ==
  /\ QueueSize \in Nat /\ UploadRoom \in Nat /\ RetryLimit \in Nat
  /\ MaxVoices \in Nat /\ MaxMessages \in Nat /\ MaxPresses \in Nat
  /\ None \notin Nat
  /\ None \notin [voice : Nat, state : {"START_RECORD", "FINISH_RECORD", "START_UPLOAD"}]

VARIABLES
  queue,       (* wechat_queue                                              *)
  task,        (* wechat_task: "wait", or "record" before its record_start  *)
  recording,   (* record_worker.current                                     *)
  uploads,     (* upload_worker                                             *)
  downloads,   (* download_worker                                           *)
  plays,       (* play_worker                                               *)
  previous,    (* play_worker.previous                                      *)
  up_errors,   (* upload_err_cnt                                            *)
  down_errors, (* download_err_cnt                                          *)
  length,      (* record_time: "short" (< 10), "sound" or "limit" (>= 150)  *)
  timer,       (* record_worker.timer                                       *)
  button,      (* the key                                                   *)
  key_timer,
  captured,    (* AMS: recordings it has not answered                       *)
  stopping,    (* AMS: those of them it is asked to stop                    *)
  songs,       (* AMS: messages it plays, or is asked to, and not answered  *)
  to_upload,   (* the upload server: requests not answered                  *)
  to_download, (* the download server: requests not answered                *)
  voices, pushed, presses

sending  == <<recording, uploads, up_errors>>
incoming == <<downloads, plays, previous, down_errors>>
timers   == <<length, timer, button, key_timer>>
ams      == <<captured, stopping, songs>>
servers  == <<to_upload, to_download>>
counts   == <<voices, pushed, presses>>
vars == <<queue, task, sending, incoming, timers, ams, servers, counts>>

Voices   == 1..MaxVoices
Messages == 1..MaxMessages
(* NotifyStatus; ERROR stands for DISTURBED and COMMAND_IGNORED as well.     *)
Verdicts == {"STOPPED", "EXCEED", "ERROR"}
Results  == {"LOAD_SUCC", "FILE_SIZE_ERROR", "FAILED"}
Voice    == [voice : Voices, state : {"START_RECORD", "FINISH_RECORD", "START_UPLOAD"}]
Message  == [msg : Messages, state : {"IDLE", "START_DOWNLOAD", "FINISH_DOWNLOAD", "START_PLAY"}]

(* wechat_cmd_node; where a handler does not look at param it is None.      *)
Bare == {"RECORD_START", "RECORD_FINISH", "RECORD_TIMEOUT", "UPLOAD_START",
         "DOWNLOAD_START", "PLAY_START", "PLAY_FINISH", "PLAY_PREVIOUS", "PLAY_ERROR"}
Command ==
  [cmd : Bare, param : {None}]
  \cup [cmd : {"RECORD_ERROR"}, param : Verdicts]
  \cup [cmd : {"UPLOAD_FINISH", "DOWNLOAD_FINISH"}, param : Results]
  \cup [cmd : {"RECV_MSG"}, param : Messages]

Init ==
  /\ queue = <<>> /\ task = "wait"
  /\ recording = None /\ uploads = <<>> /\ up_errors = 0
  /\ downloads = <<>> /\ plays = <<>> /\ previous = None /\ down_errors = 0
  /\ length = "short" /\ timer = [active |-> FALSE, asked |-> "none"]
  /\ button = "up" /\ key_timer = [active |-> FALSE, asked |-> "none"]
  /\ captured = {} /\ stopping = {} /\ songs = {}
  /\ to_upload = <<>> /\ to_download = <<>>
  /\ voices = 0 /\ pushed = 0 /\ presses = 0

-----------------------------------------------------------------------------
(* wechat_notify gives up after a while: with the queue full it is lost.    *)
Room(q) == Len(q) < QueueSize
Post(q, cmd, param) == IF Room(q) THEN Append(q, [cmd |-> cmd, param |-> param]) ELSE q

(* The places in a queue of commands of some kinds.                         *)
Pending(q, cmds) == {i \in DOMAIN q : q[i].cmd \in cmds}

(* xTimerStart, xTimerReset and xTimerStop only ask the timer task.         *)
Ask(t, what) == [t EXCEPT !.asked = what]
Obeyed(t) == [active |-> t.asked = "start", asked |-> "none"]

Take(cmds) ==
  /\ task = "wait" /\ queue # <<>> /\ Head(queue).cmd \in cmds
  /\ UNCHANGED <<button, key_timer, voices, pushed, presses>>

-----------------------------------------------------------------------------
(* RECORDING.                                                               *)

Free_Always == TRUE
Free == recording = None

(* The action is in the list before the tone plays and record_start is      *)
(* called, up to ten seconds later.  There may be no memory for it, which   *)
(* is also where the bound strikes.                                         *)
RecordStart ==
  /\ task = "wait" /\ queue # <<>> /\ Head(queue).cmd = "RECORD_START"
  /\ queue' = Tail(queue)
  /\ \/ /\ Free /\ voices < MaxVoices
        /\ voices' = voices + 1 /\ task' = "record"
        /\ recording' = [voice |-> voices + 1, state |-> "START_RECORD"]
     \/ UNCHANGED <<voices, task, recording>>
  /\ UNCHANGED <<uploads, up_errors, incoming, timers, ams, servers, pushed, presses>>

BeginRecord_Untimed ==
  /\ captured' = captured \cup {recording.voice}
  /\ length' = "short" /\ UNCHANGED timer
BeginRecord ==
  /\ captured' = captured \cup {recording.voice}
  /\ length' = "short" /\ timer' = Ask(timer, "start")

RecordCall ==
  /\ task = "record" /\ task' = "wait"
  /\ BeginRecord
  /\ UNCHANGED <<queue, sending, incoming, button, key_timer, stopping, songs, servers, counts>>

(* A recording that fills its file counts as one that was stopped.          *)
Saved(verdict) ==
  verdict = IF recording.state = "START_RECORD" THEN "EXCEED" ELSE "STOPPED"

RecordError ==
  /\ Take({"RECORD_ERROR"})
  /\ \/ /\ recording = None /\ queue' = Tail(queue)
        /\ UNCHANGED <<recording, uploads, timer>>
     \/ /\ recording # None /\ recording' = None
        /\ timer' = Ask(timer, "stop")
        /\ \/ /\ Saved(Head(queue).param)
              /\ uploads' = Append(uploads, [recording EXCEPT !.state = "FINISH_RECORD"])
              /\ queue' = Post(Tail(queue), "UPLOAD_START", None)
           \/ /\ ~Saved(Head(queue).param) /\ UNCHANGED uploads
              /\ queue' = IF recording.state = "START_RECORD"
                          THEN Post(Tail(queue), "RECORD_START", None) ELSE Tail(queue)
  /\ UNCHANGED <<task, up_errors, incoming, length, ams, servers>>

(* The key was released, or fifteen seconds are over: record_stop.          *)
RecordFinish ==
  /\ Take({"RECORD_FINISH", "RECORD_TIMEOUT"})
  /\ queue' = Tail(queue)
  /\ IF recording = None THEN UNCHANGED <<recording, timer, stopping>>
     ELSE /\ recording' = [recording EXCEPT !.state = "FINISH_RECORD"]
          /\ timer' = Ask(timer, "stop") /\ stopping' = captured
  /\ UNCHANGED <<task, uploads, up_errors, incoming, length, captured, songs, servers>>

-----------------------------------------------------------------------------
(* SENDING.  What is uploaded already is uploaded once more.                *)
UploadStart ==
  /\ Take({"UPLOAD_START"})
  /\ IF uploads = <<>> THEN queue' = Tail(queue) /\ UNCHANGED <<uploads, to_upload>>
     ELSE /\ uploads' = [uploads EXCEPT ![1].state = "START_UPLOAD"]
          /\ IF length = "short"
             THEN /\ queue' = Post(Tail(queue), "UPLOAD_FINISH", "FILE_SIZE_ERROR")
                  /\ UNCHANGED to_upload
             ELSE /\ queue' = Tail(queue) /\ Len(to_upload) <= UploadRoom
                  /\ to_upload' = Append(to_upload, uploads[1].voice)
  /\ UNCHANGED <<task, recording, up_errors, incoming, length, timer, ams, to_download>>

(* A list without its head, which is put back behind the others when the    *)
(* failure is to be tried again, and the errors counted in a byte.          *)
Retried(list, errors, state) ==
  IF errors < RetryLimit THEN Append(Tail(list), [Head(list) EXCEPT !.state = state])
                         ELSE Tail(list)
Counted(errors) == (errors + 1) % 256

(* The next one of a list is begun by a command of its own.                 *)
Remain_Forgotten(list, q, cmd) == q
Remain(list, q, cmd) == IF list # <<>> THEN Post(q, cmd, None) ELSE q

UploadFinish ==
  /\ Take({"UPLOAD_FINISH"})
  /\ IF uploads = <<>> THEN queue' = Tail(queue) /\ UNCHANGED <<uploads, up_errors>>
     ELSE /\ CASE Head(queue).param = "LOAD_SUCC" -> uploads' = Tail(uploads) /\ up_errors' = 0
               [] Head(queue).param = "FILE_SIZE_ERROR" -> uploads' = Tail(uploads) /\ UNCHANGED up_errors
               [] OTHER -> /\ uploads' = Retried(uploads, up_errors, "FINISH_RECORD")
                           /\ up_errors' = Counted(up_errors)
          /\ queue' = Remain(uploads', Tail(queue), "UPLOAD_START")
  /\ UNCHANGED <<task, recording, incoming, length, timer, ams, servers>>

-----------------------------------------------------------------------------
(* RECEIVING.  A message may be malformed, or there is no memory for it.    *)
RecvMsg ==
  /\ Take({"RECV_MSG"})
  /\ \/ /\ downloads' = Append(downloads, [msg |-> Head(queue).param, state |-> "IDLE"])
        /\ queue' = Post(Tail(queue), "DOWNLOAD_START", None)
     \/ queue' = Tail(queue) /\ UNCHANGED downloads
  /\ UNCHANGED <<task, sending, plays, previous, down_errors, length, timer, ams, servers>>

Idle_Again(action) == TRUE
Idle(action) == action.state = "IDLE"

DownloadStart ==
  /\ Take({"DOWNLOAD_START"}) /\ queue' = Tail(queue)
  /\ IF downloads # <<>> /\ Idle(Head(downloads))
     THEN /\ downloads' = [downloads EXCEPT ![1].state = "START_DOWNLOAD"]
          /\ to_download' = Append(to_download, Head(downloads).msg)
     ELSE UNCHANGED <<downloads, to_download>>
  /\ UNCHANGED <<task, sending, plays, previous, down_errors, length, timer, ams, to_upload>>

DownloadFinish ==
  /\ Take({"DOWNLOAD_FINISH"})
  /\ IF downloads = <<>> THEN queue' = Tail(queue) /\ UNCHANGED <<downloads, plays, down_errors>>
     ELSE /\ IF Head(queue).param = "LOAD_SUCC"
             THEN /\ downloads' = Tail(downloads) /\ down_errors' = 0
                  /\ plays' = Append(plays, [Head(downloads) EXCEPT !.state = "FINISH_DOWNLOAD"])
             ELSE /\ downloads' = Retried(downloads, down_errors, "IDLE")
                  /\ down_errors' = Counted(down_errors) /\ UNCHANGED plays
          /\ queue' = Remain(downloads', Tail(queue), "DOWNLOAD_START")
  /\ UNCHANGED <<task, sending, previous, length, timer, ams, servers>>

Ready_Again(action) == TRUE
Ready(action) == action.state = "FINISH_DOWNLOAD"

PlayStart ==
  /\ Take({"PLAY_START"}) /\ queue' = Tail(queue)
  /\ IF plays # <<>> /\ Ready(Head(plays))
     THEN /\ songs' = songs \cup {Head(plays).msg}
          /\ plays' = [plays EXCEPT ![1].state = "START_PLAY"]
     ELSE UNCHANGED <<songs, plays>>
  /\ UNCHANGED <<task, sending, downloads, previous, down_errors, length, timer, captured, stopping, servers>>

PlayFinish ==
  /\ Take({"PLAY_FINISH"})
  /\ IF plays = <<>> THEN queue' = Tail(queue) /\ UNCHANGED <<plays, previous>>
     ELSE /\ plays' = Tail(plays) /\ previous' = Head(plays).msg
          /\ queue' = Remain(plays', Tail(queue), "PLAY_START")
  /\ UNCHANGED <<task, sending, downloads, down_errors, length, timer, ams, servers>>

(* wechat play disturbed, wait keypress *)
PlayError ==
  /\ Take({"PLAY_ERROR"}) /\ queue' = Tail(queue)
  /\ plays' = IF plays = <<>> THEN plays ELSE [plays EXCEPT ![1].state = "FINISH_DOWNLOAD"]
  /\ UNCHANGED <<task, sending, downloads, previous, down_errors, length, timer, ams, servers>>

PlayPrevious ==
  /\ Take({"PLAY_PREVIOUS"}) /\ queue' = Tail(queue)
  /\ UNCHANGED <<task, sending, incoming, length, timer, ams, servers>>

Task ==
  \/ RecordStart \/ RecordCall \/ RecordError \/ RecordFinish \/ UploadStart \/ UploadFinish
  \/ RecvMsg \/ DownloadStart \/ DownloadFinish \/ PlayStart \/ PlayFinish \/ PlayError \/ PlayPrevious

-----------------------------------------------------------------------------
(* THE KEY AND THE TIMERS.  Held for half a second it records, released     *)
(* earlier it plays; without the network it does neither.                   *)
Press ==
  /\ button = "up" /\ presses < MaxPresses
  /\ button' = "down" /\ presses' = presses + 1
  /\ \E connected \in BOOLEAN : key_timer' = IF connected THEN Ask(key_timer, "start") ELSE key_timer
  /\ UNCHANGED <<queue, task, sending, incoming, length, timer, ams, servers, voices, pushed>>

Release ==
  /\ button = "down" /\ button' = "up"
  /\ key_timer' = IF key_timer.active THEN Ask(key_timer, "stop") ELSE key_timer
  /\ \E connected \in BOOLEAN :
       queue' = IF ~connected THEN queue
                ELSE IF recording # None THEN Post(queue, "RECORD_FINISH", None)
                ELSE IF plays # <<>> THEN Post(queue, "PLAY_START", None)
                ELSE IF previous # None THEN Post(queue, "PLAY_PREVIOUS", None)
                ELSE queue
  /\ UNCHANGED <<task, sending, incoming, length, timer, ams, servers, counts>>

(* wechat_keytimer_cb *)
KeyHeld ==
  /\ key_timer.active /\ key_timer' = [key_timer EXCEPT !.active = FALSE]
  /\ queue' = IF recording = None THEN Post(queue, "RECORD_START", None) ELSE queue
  /\ UNCHANGED <<task, sending, incoming, length, timer, button, ams, servers, counts>>

(* wechat_timer_cb, ten times a second; one time-out waits at most (bound). *)
Tick ==
  /\ timer.active /\ Pending(queue, {"RECORD_TIMEOUT"}) = {}
  /\ \/ length = "short" /\ length' = "sound" /\ UNCHANGED queue
     \/ length # "short" /\ length' = "limit" /\ queue' = Post(queue, "RECORD_TIMEOUT", None)
  /\ UNCHANGED <<task, sending, incoming, timer, button, key_timer, ams, servers, counts>>

Obey ==
  /\ \/ timer.asked # "none" /\ timer' = Obeyed(timer) /\ UNCHANGED key_timer
     \/ key_timer.asked # "none" /\ key_timer' = Obeyed(key_timer) /\ UNCHANGED timer
  /\ UNCHANGED <<queue, task, sending, incoming, length, button, ams, servers, counts>>

-----------------------------------------------------------------------------
(* THE OTHERS.  AMS calls wechat_audio_record_cb with any verdict, but  *)
(* STOPPED only after a stop.                                               *)
RecordVerdict(v) ==
  /\ v \in captured
  /\ captured' = captured \ {v} /\ stopping' = stopping \ {v}
  /\ \E verdict \in Verdicts :
       /\ verdict = "STOPPED" => v \in stopping
       /\ queue' = Post(queue, "RECORD_ERROR", verdict)
  /\ UNCHANGED <<task, sending, incoming, timers, songs, servers, counts>>

(* wechat_audio_play_cb; STOPPED and COMMAND_IGNORED are passed over.       *)
PlayVerdict(m) ==
  /\ m \in songs /\ songs' = songs \ {m}
  /\ \/ queue' = Post(queue, "PLAY_FINISH", None)
     \/ queue' = Post(queue, "PLAY_ERROR", None)
     \/ UNCHANGED queue
  /\ UNCHANGED <<task, sending, incoming, timers, captured, stopping, servers, counts>>

(* execute_upload_task reports any result, and one request after the other. *)
Uploaded ==
  /\ to_upload # <<>> /\ to_upload' = Tail(to_upload)
  /\ \E result \in Results : queue' = Post(queue, "UPLOAD_FINISH", result)
  /\ UNCHANGED <<task, sending, incoming, timers, ams, to_download, counts>>

Downloaded ==
  /\ to_download # <<>> /\ to_download' = Tail(to_download)
  /\ \E result \in {"LOAD_SUCC", "FAILED"} : queue' = Post(queue, "DOWNLOAD_FINISH", result)
  /\ UNCHANGED <<task, sending, incoming, timers, ams, to_upload, counts>>

(* wechat_command_cb: the server pushes a message.                          *)
Push ==
  /\ pushed < MaxMessages /\ pushed' = pushed + 1
  /\ queue' = Post(queue, "RECV_MSG", pushed')
  /\ UNCHANGED <<task, sending, incoming, timers, ams, servers, voices, presses>>

Stopped == \E v \in stopping : RecordVerdict(v)
Others ==
  \/ \E v \in Voices : RecordVerdict(v)
  \/ \E m \in Messages : PlayVerdict(m)
  \/ Uploaded \/ Downloaded \/ Push

-----------------------------------------------------------------------------
Next == Task \/ Press \/ Release \/ KeyHeld \/ Tick \/ Obey \/ Others

Spec == Init /\ [][Next]_vars

(* The task and the timer task are scheduled, AMS answers a stop and the    *)
(* servers each request; nobody need press the key or finish a song.        *)
FairSpec ==
  /\ Spec
  /\ WF_vars(Task) /\ WF_vars(Tick) /\ WF_vars(Obey)
  /\ WF_vars(Stopped) /\ WF_vars(Uploaded) /\ WF_vars(Downloaded)

-----------------------------------------------------------------------------
TypeOK ==
  /\ queue \in Seq(Command) /\ Len(queue) <= QueueSize
  /\ task \in {"wait", "record"}
  /\ recording \in Voice \cup {None} /\ uploads \in Seq(Voice) /\ up_errors \in 0..255
  /\ downloads \in Seq(Message) /\ plays \in Seq(Message)
  /\ previous \in Messages \cup {None} /\ down_errors \in 0..255
  /\ length \in {"short", "sound", "limit"}
  /\ {timer, key_timer} \subseteq [active : BOOLEAN, asked : {"none", "start", "stop"}]
  /\ button \in {"up", "down"}
  /\ captured \subseteq Voices /\ stopping \subseteq captured /\ songs \subseteq Messages
  /\ to_upload \in Seq(Voices) /\ to_download \in Seq(Messages)
  /\ voices \in 0..MaxVoices /\ pushed \in 0..MaxMessages /\ presses \in 0..MaxPresses

(* A verdict of AMS or an answer of a server names nothing: wechat_task     *)
(* takes it for the action at the head of the list.  So of those that are   *)
(* due or queued there may be one at a time, and the head must wait for it. *)
AtMostOne(S) == \A x, y \in S : x = y

(* wechat_audio_record_cb: the verdict is that of the recording it ends.    *)
RecordAnswerIsOwn ==
  /\ task = "record" => recording # None
  /\ AtMostOne(captured) /\ AtMostOne(Pending(queue, {"RECORD_ERROR"}))
  /\ captured = {} \/ Pending(queue, {"RECORD_ERROR"}) = {}
  /\ Pending(queue, {"RECORD_ERROR"}) # {} => recording # None /\ task = "wait"
  /\ \A v \in captured : recording # None /\ task = "wait" /\ v = recording.voice

(* wechat_audio_play_cb: the message that is taken off the list, or offered *)
(* again, is the one that was playing.                                      *)
PlayAnswerIsOwn ==
  /\ AtMostOne(songs) /\ AtMostOne(Pending(queue, {"PLAY_FINISH", "PLAY_ERROR"}))
  /\ songs = {} \/ Pending(queue, {"PLAY_FINISH", "PLAY_ERROR"}) = {}
  /\ Pending(queue, {"PLAY_FINISH", "PLAY_ERROR"}) # {} => plays # <<>> /\ Head(plays).state = "START_PLAY"
  /\ \A m \in songs : plays # <<>> /\ Head(plays) = [msg |-> m, state |-> "START_PLAY"]

(* download_callback, "here must serial finish download": the message that  *)
(* is announced or tried again is the one whose download has ended.         *)
DownloadAnswerIsOwn ==
  /\ Len(to_download) <= 1 /\ AtMostOne(Pending(queue, {"DOWNLOAD_FINISH"}))
  /\ to_download = <<>> \/ Pending(queue, {"DOWNLOAD_FINISH"}) = {}
  /\ Pending(queue, {"DOWNLOAD_FINISH"}) # {} => downloads # <<>> /\ Head(downloads).state = "START_DOWNLOAD"
  /\ to_download # <<>> =>
       downloads # <<>> /\ Head(downloads) = [msg |-> Head(to_download), state |-> "START_DOWNLOAD"]

(* upload_callback, "here must serial finish upload": the voice that is     *)
(* freed as sent, or tried again, is the one whose upload has ended.        *)
UploadAnswerIsOwn ==
  /\ Len(to_upload) <= 1 /\ AtMostOne(Pending(queue, {"UPLOAD_FINISH"}))
  /\ to_upload = <<>> \/ Pending(queue, {"UPLOAD_FINISH"}) = {}
  /\ Pending(queue, {"UPLOAD_FINISH"}) # {} => uploads # <<>> /\ Head(uploads).state = "START_UPLOAD"
  /\ to_upload # <<>> =>
       uploads # <<>> /\ Head(uploads) = [voice |-> Head(to_upload), state |-> "START_UPLOAD"]

(* No recording goes on for ever, released or not, connected or not: the    *)
(* release, the fifteen seconds or AMS ends it.                             *)
RecordingEnds == recording # None ~> recording = None

(* No voice stays in the upload list: a failure is tried a number of times, *)
(* and what waits behind it gets its turn.                                  *)
VoicesLeave == uploads # <<>> ~> uploads = <<>>

(* No message stays in the download list either, whatever fails.            *)
MessagesLeave == downloads # <<>> ~> downloads = <<>>
=============================================================================
