------------------------------- MODULE DeepBrain -------------------------------
(***************************************************************************)
(* app/DeepBrainService.c: a conversation with the cloud.  The child       *)
(* speaks, _task_record_raw_read sends it, _task_deepbrain_nlp plays the   *)
(* answer, and the end of the answer starts the next recording.            *)
(*                                                                         *)
(* Four tasks block in xQueueSend(xQueueRawStart, .., portMAX_DELAY): AMS  *)
(* and the record thread inside callbacks, the timer task and the key      *)
(* task.  The only reader waits for AMS itself, in play_tone_sync.         *)
(*                                                                         *)
(* External: AMS, as AudioManager has it (the last start of what it read   *)
(* wins, the others are ignored, a recording ends after its thread), the   *)
(* voice detection and the network.  Left out: the session with the cloud  *)
(* and its result, which only decide what the answer is; audio, texts and  *)
(* URLs; the choice of tones; and prv_status, which is START_TO_RECORD     *)
(* whenever it is looked at.                                               *)
(*                                                                         *)
(* A suffixed name (Wait_ForEver) is the definition after it with a slip   *)
(* in it, kept to show which property would notice.                        *)
(***************************************************************************)
EXTENDS Naturals, Sequences, FiniteSets

CONSTANTS
  QueueSize,   (* QUEUE_MAX_SIZE, of both queues                            *)
  MaxEvents    (* bound: presses of the key, ends of speech, playbacks of   *)
               (* other apps and reads that fail, together                  *)

ASSUME DeepBrainAssumption ==
  /\ QueueSize \in Nat \ {0}
  /\ MaxEvents \in Nat

VARIABLES
  working,   (* is_db_working                                               *)
  queue,     (* xQueueRawStart                                              *)
  raw,       (* _task_record_raw_read: its place                            *)
  answers,   (* _task_deepbrain_nlp: results it has to answer, the one it   *)
             (* works on and those in xQueueDeepBrainService                *)
  stage,     (* record_timer: below 8 (0), 18 (1) or 28 (2)                 *)
  timer,     (* deepbrain_timer, and what the timer task is asked to do     *)
  ticker,    (* deepbrain_timer_fun: what it wants to post                  *)
  key,       (* deepbrain_keyprocess, on the key task: its place            *)
  commands,  (* AMS: commands not taken up                                  *)
  owner,     (* AMS: the start command that owns the audio                  *)
  ams,       (* AMS: "free", "join" (waits for the thread) or "post"        *)
  told,      (* play_tone_sync: tones whose callback has posted             *)
  thread,    (* record_thread: its place                                    *)
  begin,     (* record_queue                                                *)
  vad,       (* record_info.vad_enable                                      *)
  report,    (* what the library or the thread reported of the recording    *)
  events     (* how many of them there were                                 *)

clock    == <<stage, timer, ticker>>
audio    == <<commands, owner, ams, told>>
recorder == <<thread, begin, vad, report>>
vars == <<working, queue, raw, answers, clock, key, audio, recorder, events>>

(* What the record task is sent; STOP_TO_RECORD is handled but never sent.  *)
Message == {"START_TO_RECORD", "READ_TO_RECORD", "SEND_AUDIO_DATA",
            "TIME_10S_REMINED", "TIME_30S_QUIT", "DEEPBRAIN_QUIT"}

(* The commands AMS is sent: start commands, and record_stop ("stop").  The *)
(* tones of play_tone_sync are named by the task that waits for them.       *)
SyncTones == {"raw tone", "key tone"}
Starts    == {"record", "answer", "tone", "stale tone", "other"} \cup SyncTones
AppOf(c) ==
  CASE c \in {"record", "stop", "answer", "tone"} -> "VOICE_RECOGNITION"
    [] c \in {"stale tone"} \cup SyncTones        -> "NOTIFY"
    [] c = "other"                                -> "OTHER"

Init ==
  /\ working = FALSE /\ queue = <<>> /\ raw = "wait"
  /\ answers = 0
  /\ stage = 0 /\ timer = [active |-> FALSE, asked |-> "none"] /\ ticker = "none"
  /\ key = "idle"
  /\ commands = <<>> /\ owner = "none" /\ ams = "free" /\ told = {}
  /\ thread = "off" /\ begin = FALSE /\ vad = FALSE /\ report = "none"
  /\ events = 0

-----------------------------------------------------------------------------
(* One of the events that MaxEvents bounds.                                 *)
Happens == events < MaxEvents /\ events' = events + 1

Room == Len(queue) < QueueSize

(* record_notify with portMAX_DELAY: the caller is in it until there is room. *)
Post(msg) == Room /\ queue' = Append(queue, msg)

(* xTimerStart, xTimerReset and xTimerStop only ask the timer task, which   *)
(* obeys in order; it does not while its callback waits in Post.            *)
Ask(what) == timer' = [timer EXCEPT !.asked = what]

(* No second passes while a task has something to do at once (Calm), nor    *)
(* does a speech end while AMS has (Settled).                               *)
Settled == ams = "free" => commands = <<>> /\ report = "none"

Calm ==
  /\ Settled /\ raw \notin {"begun", "ended"} /\ (raw = "wait" => queue = <<>>)
  /\ Room => ams # "post" /\ thread \notin {"post", "send"}
  /\ ams = "join" => thread \in {"post", "send"}
  /\ thread # "close" /\ (begin => thread # "off")
  /\ timer.asked = "none" \/ ticker # "none"

-----------------------------------------------------------------------------
(* THE RECORD TASK (_task_record_raw_read).                                 *)

Take(msg) ==
  /\ raw = "wait" /\ queue # <<>> /\ Head(queue) = msg
  /\ queue' = Tail(queue)
  /\ UNCHANGED <<key, owner, ams, told, recorder, events, stage, ticker>>

RawStep(from, to) ==
  /\ raw \in from /\ raw' = to
  /\ UNCHANGED <<queue, stage, ticker, key, owner, ams, recorder, events>>

(* asr_rec_begin and asr_rec_end wait for the cloud, with time-outs of      *)
(* seconds (raw is "begin" or "end"): one limit of record_timer may pass    *)
(* meanwhile ("begun", "ended").  asr_rec_runing only sends.                *)
StartToRecord ==
  /\ Take("START_TO_RECORD") /\ raw' = "begin"
  /\ UNCHANGED <<working, answers, timer, commands>>

CallRecord ==
  /\ RawStep({"begin", "begun"}, "wait")
  /\ working' = TRUE /\ commands' = Append(commands, "record")
  /\ UNCHANGED <<answers, timer, told>>

ReadToRecord ==
  /\ Take("READ_TO_RECORD") /\ raw' = "wait"
  /\ UNCHANGED <<working, answers, timer, commands>>

SendAudioData ==
  /\ Take("SEND_AUDIO_DATA") /\ raw' = IF working THEN "end" ELSE "wait"
  /\ UNCHANGED <<working, answers, timer, commands>>

(* The result is handed on, and lost if the queue is full.                  *)
HandOn ==
  /\ RawStep({"end", "ended"}, "wait")
  /\ answers' = IF answers < QueueSize + 1 THEN answers + 1 ELSE answers
  /\ UNCHANGED <<working, timer, commands, told>>

Remind ==
  /\ Take("TIME_10S_REMINED") /\ raw' = "wait"
  /\ commands' = commands \o <<"stop", "tone">>
  /\ UNCHANGED <<working, answers, timer>>

Quit ==
  /\ Take("TIME_30S_QUIT") \/ Take("DEEPBRAIN_QUIT")
  /\ working' = FALSE /\ Ask("stop")
  /\ commands' = commands \o <<"stop", "raw tone">>
  /\ raw' = "bye"
  /\ UNCHANGED answers

(* play_tone_sync waits for its callback, ten seconds at most; then it      *)
(* deletes its queue, whose handle AMS still has.  A tone that has begun    *)
(* ends in time.                                                            *)
Stale(tone, c) == IF c = tone THEN "stale tone" ELSE c
Forget(tone) ==
  /\ tone \notin told /\ owner # tone
  /\ commands' = [i \in DOMAIN commands |-> Stale(tone, commands[i])]
  /\ UNCHANGED told

Wait_ForEver(tone) ==
  /\ tone \in told
  /\ told' = told \ {tone} /\ UNCHANGED commands
Wait(tone) ==
  \/ tone \in told /\ told' = told \ {tone} /\ UNCHANGED commands
  \/ Calm /\ Forget(tone)

ToneOver ==
  /\ raw = "bye" /\ raw' = "wait" /\ Wait("raw tone")
  /\ UNCHANGED <<working, queue, answers, clock, key, owner, ams, recorder, events>>

RawTask ==
  \/ StartToRecord \/ CallRecord \/ ReadToRecord
  \/ SendAudioData \/ HandOn \/ Remind \/ Quit \/ ToneOver

-----------------------------------------------------------------------------
(* THE NLP TASK (_task_deepbrain_nlp).                                      *)

(* The answer, by a link or by text to speech, with no more reminders until *)
(* it ends; or, for whatever failed, "can not translate".                   *)
PlayAnswer ==
  /\ answers > 0 /\ answers' = answers - 1
  /\ stage' = 0
  /\ \/ /\ commands' = Append(commands, "answer")
        /\ IF timer.active THEN Ask("stop") ELSE UNCHANGED timer
     \/ commands' = Append(commands, "tone") /\ UNCHANGED timer
  /\ UNCHANGED <<working, queue, raw, ticker, key,
                 owner, ams, told, recorder, events>>

-----------------------------------------------------------------------------
(* THE TIMER (deepbrain_timer_fun, every second) on the timer task.         *)

Obey ==
  /\ ticker = "none" /\ timer.asked # "none"
  /\ timer' = [active |-> timer.asked = "start", asked |-> "none"]
  /\ UNCHANGED <<working, queue, raw, answers, stage, ticker, key, audio, recorder, events>>

Elapse ==
  /\ ticker = "none" /\ timer = [active |-> TRUE, asked |-> "none"]
  /\ Calm
  /\ IF stage < 2
     THEN /\ stage' = stage + 1
          /\ ticker' = IF working THEN "TIME_10S_REMINED" ELSE "none"
     ELSE /\ working /\ stage' = 0 /\ ticker' = "TIME_30S_QUIT"
  /\ raw' = IF raw = "begin" THEN "begun" ELSE IF raw = "end" THEN "ended" ELSE raw
  /\ UNCHANGED <<working, queue, answers, timer, key, audio, recorder, events>>

TickerPosts ==
  /\ ticker # "none" /\ Post(ticker) /\ ticker' = "none"
  /\ UNCHANGED <<working, raw, answers, stage, timer, key, audio, recorder, events>>

-----------------------------------------------------------------------------
(* THE KEY (deepbrain_keyprocess) on the key task.                          *)

KeyStep(from, to) ==
  /\ key = from /\ key' = to
  /\ UNCHANGED <<working, raw, answers, ticker, ams, recorder>>

PressKey ==
  /\ Happens
  /\ \/ /\ KeyStep("idle", "no wifi")
        /\ commands' = Append(commands, "key tone") /\ UNCHANGED <<stage, timer>>
     \/ /\ KeyStep("idle", "hello") /\ ~working
        /\ commands' = Append(commands, "key tone") /\ UNCHANGED <<stage, timer>>
     \/ /\ KeyStep("idle", "quit") /\ working
        /\ Ask("stop") /\ stage' = 0 /\ UNCHANGED commands
  /\ UNCHANGED <<queue, owner, told>>

Greeted ==
  /\ \/ KeyStep("no wifi", "idle") /\ UNCHANGED stage
     \/ KeyStep("hello", "start") /\ stage' = 0
  /\ Wait("key tone")
  /\ UNCHANGED <<queue, timer, owner, events>>

KeyPosts ==
  /\ \/ KeyStep("start", "idle") /\ Post("START_TO_RECORD") /\ Ask("start")
     \/ KeyStep("quit", "idle") /\ Post("DEEPBRAIN_QUIT") /\ UNCHANGED timer
  /\ UNCHANGED <<stage, commands, owner, told, events>>

KeyTask == Greeted \/ KeyPosts

-----------------------------------------------------------------------------
(* AMS (external).                                                          *)

AmsStep ==
  UNCHANGED <<queue, raw, answers, stage, ticker, key, thread, vad>>

(* deepbrain_audio_record_cb, deepbrain_net_tone_cb, deepbrain_tone_play_cb *)
(* and play_tone_sync_cb, for an owner that is stopped before its end.      *)
Voices == {"record", "answer", "tone"}
Disturbed(c) ==
  IF c \in Voices THEN working' = FALSE /\ Ask("stop") ELSE UNCHANGED <<working, timer>>

(* Its commands up to the k-th are a batch: those that came while AMS had   *)
(* to wait for the library or the thread are decided upon together.         *)
StartsIn(k) == {i \in 1..k : commands[i] \in Starts}
IsLastIn(k, i) == i \in StartsIn(k) /\ \A j \in StartsIn(k) : j <= i
Superseded(k, i) == \E j \in i + 1..k : AppOf(commands[j]) = AppOf(commands[i])
StopAsked(k) == owner = "record" /\ \E i \in 1..k : commands[i] = "stop"
MustStop(k) == owner # "none" /\ (StartsIn(k) # {} \/ StopAsked(k))

Rest(k) == SubSeq(commands, k + 1, Len(commands))
Ignored(k) == {commands[j] : j \in StartsIn(k)}
Tell(cs) == told' = told \cup (cs \cap SyncTones)

(* A recording that has not begun cannot be stopped yet (START_RECORD).     *)
Ready == ~(owner = "record" /\ begin)

Joining ==
  /\ ams = "free" /\ owner = "record" /\ Ready
  /\ \E k \in 1..Len(commands) : MustStop(k)
  /\ ams' = "join"
  /\ AmsStep /\ UNCHANGED <<working, timer, commands, owner, told, begin, report, events>>

StopOwner ==
  /\ \E k \in 1..Len(commands) :
       /\ MustStop(k)
       /\ IF StopAsked(k) THEN UNCHANGED <<working, timer>> ELSE Disturbed(owner)
       /\ \/ /\ \A i \in StartsIn(k) : IsLastIn(k, i) => Superseded(k, i)
             /\ commands' = Rest(k)
             /\ Tell({owner} \cup Ignored(k))
          \/ \E i \in StartsIn(k) :
               /\ IsLastIn(k, i) /\ ~Superseded(k, i)
               /\ commands' = <<commands[i]>> \o Rest(k)
               /\ Tell({owner} \cup (Ignored(k) \ {commands[i]}))
  /\ owner' = "none" /\ AmsStep /\ UNCHANGED <<begin, events>>

StopPlayback ==
  /\ ams = "free" /\ owner # "record"
  /\ StopOwner /\ UNCHANGED <<ams, report>>

StopRecording ==
  /\ ams = "join" /\ thread = "off"
  /\ StopOwner /\ ams' = "free" /\ report' = "none"

TakeUp ==
  /\ ams = "free" /\ Ready
  /\ \E k \in 1..Len(commands) :
       /\ ~MustStop(k)
       /\ commands' = Rest(k)
       /\ \/ /\ owner # "none" \/ \A i \in StartsIn(k) : IsLastIn(k, i) => Superseded(k, i)
             /\ Tell(Ignored(k)) /\ UNCHANGED <<owner, begin>>
          \/ \E i \in StartsIn(k) :
               /\ owner = "none" /\ IsLastIn(k, i) /\ ~Superseded(k, i)
               /\ owner' = commands[i] /\ begin' = (commands[i] = "record")
               /\ Tell(Ignored(k) \ {commands[i]})
  /\ AmsStep /\ UNCHANGED <<working, timer, ams, report, events>>

(* The callback looks at is_db_working and starts the timer before it posts; *)
(* after an error of the recorder it starts it only if it is active.         *)
Continue(restart) ==
  IF working
  THEN /\ ams' = "post"
       /\ IF restart THEN Ask("start") ELSE UNCHANGED timer
  ELSE UNCHANGED <<ams, timer>>

PlaybackEnds ==
  /\ ams = "free" /\ owner \notin {"none", "record"} /\ owner' = "none"
  /\ Tell({owner})
  /\ \/ owner \in {"answer", "tone"} /\ Continue(TRUE)
     \/ owner # "answer" /\ UNCHANGED <<ams, timer>>
  /\ AmsStep /\ UNCHANGED <<working, commands, begin, report, events>>

RecordEnds ==
  /\ ams = "free" /\ report # "none" /\ report' = "none"
  /\ IF owner = "record" /\ ~begin
     THEN /\ owner' = "none"
          /\ IF report = "ERROR" THEN Continue(timer.active) ELSE UNCHANGED <<ams, timer>>
     ELSE UNCHANGED <<owner, ams, timer>>
  /\ AmsStep /\ UNCHANGED <<working, commands, told, begin, events>>

AmsPosts ==
  /\ ams = "post" /\ ams' = "free" /\ Post("START_TO_RECORD")
  /\ UNCHANGED <<working, raw, answers, clock, key, commands, owner, told, recorder, events>>

AmsWorks == Joining \/ StopPlayback \/ StopRecording \/ TakeUp \/ RecordEnds

OtherPlays ==
  /\ Happens
  /\ commands' = Append(commands, "other")
  /\ AmsStep /\ UNCHANGED <<working, timer, owner, ams, told, begin, report>>

-----------------------------------------------------------------------------
(* THE RECORD THREAD, for voice recognition, and amr_code_task's detection. *)

ThreadStep ==
  UNCHANGED <<working, raw, answers, clock, key, audio>>

(* NOTIFY_STATUS_RECORD_SEND clears vad_enable and posts.                   *)
Leave == thread' = (IF vad THEN "send" ELSE "close") /\ vad' = FALSE

(* rawRead, whose callback posts what was read; or it fails.  A report that *)
(* an earlier recording left is read before this one is on, and ignored.    *)
Read ==
  \/ thread' = "post" /\ report' = "none" /\ UNCHANGED <<vad, events>>
  \/ Happens /\ report' = "ERROR" /\ Leave

ThreadBegins ==
  /\ begin /\ thread = "off" /\ Read
  /\ begin' = FALSE
  /\ ThreadStep /\ UNCHANGED queue

ThreadPosts ==
  /\ thread = "post" /\ thread' = "look" /\ Post("READ_TO_RECORD")
  /\ ThreadStep /\ UNCHANGED <<begin, vad, report, events>>

(* Told to leave, or the end of a speech was heard (record_task_run).       *)
ThreadLooks ==
  /\ thread = "look"
  /\ \/ ams # "join" /\ ~vad /\ Read
     \/ (ams = "join" \/ vad) /\ Leave /\ UNCHANGED <<report, events>>
  /\ ThreadStep /\ UNCHANGED <<queue, begin>>

ThreadSends ==
  /\ thread = "send" /\ thread' = "close"
  /\ Post("SEND_AUDIO_DATA")
  /\ ThreadStep /\ UNCHANGED <<begin, vad, report, events>>

ThreadCloses ==
  /\ thread = "close" /\ thread' = "off"
  /\ report' = IF report = "ERROR" THEN report ELSE "STOP"
  /\ ThreadStep /\ UNCHANGED <<queue, begin, vad, events>>

Thread == ThreadBegins \/ ThreadLooks \/ ThreadCloses

SpeechEnds ==
  /\ thread \in {"post", "look"} /\ Settled /\ ~vad /\ vad' = TRUE
  /\ Happens
  /\ stage' = 0
  /\ UNCHANGED <<working, queue, raw, answers, timer, ticker, key, audio,
                 thread, begin, report>>

-----------------------------------------------------------------------------
Next ==
  \/ RawTask \/ PlayAnswer
  \/ Obey \/ Elapse \/ TickerPosts
  \/ PressKey \/ KeyTask
  \/ AmsWorks \/ PlaybackEnds \/ AmsPosts \/ OtherPlays
  \/ Thread \/ ThreadPosts \/ ThreadSends \/ SpeechEnds

Spec == Init /\ [][Next]_vars

(* Every task that is ready runs.  Of those that wait for room in the queue *)
(* FreeRTOS wakes the one that comes first by priority and time; the record *)
(* thread needs 200 ms for a round and the record task rests 10 ms after a  *)
(* message, so that the others get their turn.  Short tones end; nobody     *)
(* need speak, press the key or finish an answer.                           *)
TonesEnd == owner \in SyncTones \cup {"stale tone"} /\ PlaybackEnds

FairSpec ==
  /\ Spec
  /\ WF_vars(RawTask) /\ WF_vars(PlayAnswer) /\ WF_vars(Obey) /\ WF_vars(Greeted)
  /\ WF_vars(AmsWorks) /\ WF_vars(TonesEnd) /\ WF_vars(Thread)
  /\ SF_vars(KeyPosts) /\ SF_vars(TickerPosts) /\ SF_vars(AmsPosts)
  /\ SF_vars(ThreadPosts) /\ SF_vars(ThreadSends)

-----------------------------------------------------------------------------
TypeOK ==
  /\ working \in BOOLEAN
  /\ queue \in Seq(Message) /\ Len(queue) <= QueueSize
  /\ raw \in {"wait", "begin", "begun", "end", "ended", "bye"}
  /\ answers \in 0..QueueSize + 1
  /\ stage \in 0..2
  /\ timer \in [active : BOOLEAN, asked : {"none", "start", "stop"}]
  /\ ticker \in {"none", "TIME_10S_REMINED", "TIME_30S_QUIT"}
  /\ key \in {"idle", "no wifi", "hello", "start", "quit"}
  /\ commands \in Seq(Starts \cup {"stop"})
  /\ owner \in Starts \cup {"none"}
  /\ ams \in {"free", "join", "post"}
  /\ told \subseteq SyncTones
  /\ thread \in {"off", "post", "look", "send", "close"}
  /\ begin \in BOOLEAN /\ vad \in BOOLEAN
  /\ report \in {"none", "STOP", "ERROR"}
  /\ events \in 0..MaxEvents

(* No callback blocks AMS, the record thread, the timer task or the key     *)
(* task for ever in its post, nor AMS in waiting for the thread, although   *)
(* the reader of the queue waits for AMS in play_tone_sync.                 *)
Released ==
  /\ ams \in {"post", "join"} ~> ams = "free"
  /\ thread \in {"post", "send"} ~> thread \notin {"post", "send"}
  /\ ticker # "none" ~> ticker = "none"
  /\ key # "idle" ~> key = "idle"
=============================================================================
