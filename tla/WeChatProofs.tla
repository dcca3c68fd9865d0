----------------------------- MODULE WeChatProofs -----------------------------
(***************************************************************************)
(* The answers wechat_task gets are those of the actions it gives them to, *)
(* for any number of recordings, messages and presses of the key and any   *)
(* length of its queue, with all its senders at work at once.              *)
(***************************************************************************)
EXTENDS WeChat, TLAPS

-----------------------------------------------------------------------------
(* THE QUEUE.                                                              *)

(* A command that is taken leaves no more of its kind, or of another.       *)
LEMMA TailLemma ==
  ASSUME NEW q \in Seq(Command), q # <<>>, NEW S
  PROVE  /\ Tail(q) \in Seq(Command) /\ Len(Tail(q)) = Len(q) - 1 /\ Head(q) \in Command
         /\ AtMostOne(Pending(q, S)) => AtMostOne(Pending(Tail(q), S))
         /\ Pending(q, S) = {} => Pending(Tail(q), S) = {}
         /\ Head(q).cmd \in S => Pending(q, S) # {}
         /\ Head(q).cmd \in S /\ AtMostOne(Pending(q, S)) => Pending(Tail(q), S) = {}
<1>1. /\ Tail(q) \in Seq(Command) /\ Len(Tail(q)) = Len(q) - 1 /\ Head(q) \in Command
      /\ Len(q) \in Nat \ {0} /\ Head(q) = q[1] /\ DOMAIN q = 1..Len(q)
      /\ DOMAIN Tail(q) = 1..(Len(q) - 1)
  OBVIOUS
<1>2. ASSUME NEW i \in Pending(Tail(q), S) PROVE i \in Nat \ {0} /\ i + 1 \in Pending(q, S)
  <2>1. i \in 1..(Len(q) - 1) /\ Tail(q)[i].cmd \in S
    BY <1>1 DEF Pending
  <2>2. Tail(q)[i] = q[i + 1] /\ i + 1 \in 1..Len(q)
    BY <1>1, <2>1
  <2> QED
    BY <1>1, <2>1, <2>2 DEF Pending
<1>3. Head(q).cmd \in S => 1 \in Pending(q, S)
  BY <1>1 DEF Pending
<1>4. AtMostOne(Pending(q, S)) => AtMostOne(Pending(Tail(q), S))
  <2> SUFFICES ASSUME AtMostOne(Pending(q, S)),
                      NEW i \in Pending(Tail(q), S), NEW j \in Pending(Tail(q), S)
               PROVE  i = j
    BY DEF AtMostOne
  <2>1. i + 1 = j + 1
    BY <1>2 DEF AtMostOne
  <2> QED
    BY <1>2, <2>1
<1>5. Head(q).cmd \in S /\ AtMostOne(Pending(q, S)) => Pending(Tail(q), S) = {}
  <2> SUFFICES ASSUME Head(q).cmd \in S, AtMostOne(Pending(q, S)), NEW i \in Pending(Tail(q), S)
               PROVE  FALSE
    OBVIOUS
  <2>1. i + 1 = 1
    BY <1>2, <1>3 DEF AtMostOne
  <2> QED
    BY <1>2, <2>1
<1> QED
  BY <1>1, <1>2, <1>3, <1>4, <1>5

(* A command that is posted adds to its own kind only, and only itself.     *)
LEMMA PostLemma ==
  ASSUME NEW q \in Seq(Command), Len(q) <= QueueSize, NEW cmd, NEW param, NEW S,
         [cmd |-> cmd, param |-> param] \in Command
  PROVE  /\ Post(q, cmd, param) \in Seq(Command) /\ Len(Post(q, cmd, param)) <= QueueSize
         /\ cmd \notin S => Pending(Post(q, cmd, param), S) = Pending(q, S)
         /\ Pending(q, S) = {} => AtMostOne(Pending(Post(q, cmd, param), S))
<1> DEFINE c == [cmd |-> cmd, param |-> param]
<1>1. CASE ~Room(q)
  BY <1>1 DEF Post, AtMostOne
<1>2. CASE Room(q)
  <2> DEFINE r == Append(q, c)
  <2>1. Post(q, cmd, param) = r
    BY <1>2 DEF Post
  <2>2. r \in Seq(Command) /\ Len(r) = Len(q) + 1 /\ Len(q) \in Nat
    OBVIOUS
  <2>3. Len(r) <= QueueSize
    BY <1>2, <2>2, WeChatAssumption DEF Room
  <2>4. /\ DOMAIN r = DOMAIN q \cup {Len(q) + 1} /\ Len(q) + 1 \notin DOMAIN q
        /\ r[Len(q) + 1] = c /\ \A i \in DOMAIN q : r[i] = q[i]
    BY <2>2
  <2>5. c.cmd = cmd
    OBVIOUS
  <2>6. cmd \notin S => Pending(r, S) = Pending(q, S)
    BY <2>4, <2>5 DEF Pending
  <2>7. Pending(q, S) = {} => Pending(r, S) \subseteq {Len(q) + 1}
    BY <2>4 DEF Pending
  <2> HIDE DEF r
  <2> QED
    BY <2>1, <2>2, <2>3, <2>6, <2>7 DEF AtMostOne
<1> QED
  BY <1>1, <1>2

(* A queue of commands that is not too long.                                *)
Queue(q) == q \in Seq(Command) /\ Len(q) <= QueueSize

LEMMA TakeQueue ==
  ASSUME NEW q, Queue(q), q # <<>>
  PROVE  Queue(Tail(q)) /\ Head(q) \in Command
<1>1. Tail(q) \in Seq(Command) /\ Len(Tail(q)) = Len(q) - 1 /\ Head(q) \in Command
  BY TailLemma DEF Queue
<1>2. Len(q) \in Nat /\ Len(q) <= QueueSize /\ QueueSize \in Nat
  BY WeChatAssumption DEF Queue
<1> QED
  BY <1>1, <1>2 DEF Queue

LEMMA PostSame ==
  ASSUME NEW q, Queue(q), NEW cmd, NEW param, [cmd |-> cmd, param |-> param] \in Command,
         NEW S, cmd \notin S
  PROVE  Pending(Post(q, cmd, param), S) = Pending(q, S)
  BY PostLemma DEF Queue

LEMMA PostQueue ==
  ASSUME NEW q, Queue(q), NEW cmd, NEW param, [cmd |-> cmd, param |-> param] \in Command
  PROVE  Queue(Post(q, cmd, param))
  BY PostLemma DEF Queue

LEMMA BareQueue ==
  ASSUME NEW q, Queue(q), NEW cmd \in Bare
  PROVE  Queue(Post(q, cmd, None))
<1>1. [cmd |-> cmd, param |-> None] \in Command
  BY DEF Command
<1> QED
  BY <1>1, PostQueue

LEMMA RemainQueue ==
  ASSUME NEW q, Queue(q), NEW list, NEW cmd \in Bare
  PROVE  Queue(Remain(list, q, cmd))
  BY BareQueue DEF Remain

-----------------------------------------------------------------------------
(* TYPES.                                                                   *)
Timer == [active : BOOLEAN, asked : {"none", "start", "stop"}]

LEMMA TimerTypes ==
  ASSUME NEW t \in Timer
  PROVE  Ask(t, "start") \in Timer /\ Ask(t, "stop") \in Timer /\ Obeyed(t) \in Timer
         /\ [t EXCEPT !.active = FALSE] \in Timer
  BY DEF Timer, Ask, Obeyed

LEMMA SameQueue == ASSUME TypeOK PROVE Queue(queue)
  BY DEF TypeOK, Queue

(* What Take leaves for a handler to work with.                             *)
LEMMA TakeTypes ==
  ASSUME TypeOK, queue # <<>>
  PROVE  Queue(Tail(queue)) /\ Head(queue) \in Command
  BY TakeQueue, SameQueue

(* The lists of actions: put behind, taken off, given another state.        *)
LEMMA VoiceLists ==
  ASSUME NEW list \in Seq(Voice), NEW a \in Voice,
         NEW state \in {"START_RECORD", "FINISH_RECORD", "START_UPLOAD"}
  PROVE  /\ Append(list, a) \in Seq(Voice) /\ [a EXCEPT !.state = state] \in Voice
         /\ list # <<>> => /\ Tail(list) \in Seq(Voice) /\ Head(list) \in Voice
                           /\ list[1] \in Voice
                           /\ [list EXCEPT ![1].state = state] \in Seq(Voice)
<1>1. [a EXCEPT !.state = state] \in Voice
  BY DEF Voice
<1>2. ASSUME list # <<>>
      PROVE  Head(list) \in Voice /\ list[1] \in Voice /\ Tail(list) \in Seq(Voice)
  BY <1>2
<1>3. ASSUME list # <<>> PROVE [list EXCEPT ![1].state = state] \in Seq(Voice)
  <2>1. [list[1] EXCEPT !.state = state] \in Voice
    BY <1>2, <1>3 DEF Voice
  <2> QED
    BY <1>3, <2>1
<1> QED
  BY <1>1, <1>2, <1>3

LEMMA MessageLists ==
  ASSUME NEW list \in Seq(Message), NEW a \in Message,
         NEW state \in {"IDLE", "START_DOWNLOAD", "FINISH_DOWNLOAD", "START_PLAY"}
  PROVE  /\ Append(list, a) \in Seq(Message) /\ [a EXCEPT !.state = state] \in Message
         /\ list # <<>> => /\ Tail(list) \in Seq(Message) /\ Head(list) \in Message
                           /\ list[1] \in Message
                           /\ [list EXCEPT ![1].state = state] \in Seq(Message)
<1>1. [a EXCEPT !.state = state] \in Message
  BY DEF Message
<1>2. ASSUME list # <<>>
      PROVE  Head(list) \in Message /\ list[1] \in Message /\ Tail(list) \in Seq(Message)
  BY <1>2
<1>3. ASSUME list # <<>> PROVE [list EXCEPT ![1].state = state] \in Seq(Message)
  <2>1. [list[1] EXCEPT !.state = state] \in Message
    BY <1>2, <1>3 DEF Message
  <2> QED
    BY <1>3, <2>1
<1> QED
  BY <1>1, <1>2, <1>3

(* The recorder, until the voice is in the upload list.                     *)
LEMMA RecordingTypes ==
  ASSUME TypeOK, task = "record" => recording # None,
         RecordStart \/ RecordCall \/ RecordError \/ RecordFinish
  PROVE  TypeOK'
<1>t. timer \in Timer /\ Ask(timer, "start") \in Timer /\ Ask(timer, "stop") \in Timer
  BY TimerTypes DEF TypeOK, Timer
<1>q. Queue(queue)
  BY SameQueue
<1>v. ASSUME NEW state \in {"FINISH_RECORD"}, recording # None
      PROVE  [recording EXCEPT !.state = state] \in Voice
  BY <1>v DEF TypeOK, Voice
<1>1. CASE RecordStart
  <2>1. Queue(queue')
    BY <1>1, TakeTypes DEF RecordStart
  <2>2. recording' \in Voice \cup {None} /\ voices' \in 0..MaxVoices /\ task' \in {"wait", "record"}
    <3>1. recording \in Voice \cup {None} /\ voices \in 0..MaxVoices /\ task \in {"wait", "record"}
      BY DEF TypeOK
    <3>2. CASE UNCHANGED <<voices, task, recording>>
      BY <3>1, <3>2
    <3>3. CASE /\ voices < MaxVoices /\ voices' = voices + 1 /\ task' = "record"
               /\ recording' = [voice |-> voices + 1, state |-> "START_RECORD"]
      <4>1. voices + 1 \in 1..MaxVoices /\ voices + 1 \in 0..MaxVoices
        BY <3>1, <3>3, WeChatAssumption
      <4> QED
        BY <3>3, <4>1 DEF Voice, Voices
    <3> QED
      BY <1>1, <3>2, <3>3 DEF RecordStart
  <2> QED
    BY <1>1, <2>1, <2>2 DEF RecordStart, TypeOK, Queue, incoming, timers, ams, servers
<1>2. CASE RecordCall
  <2>1. recording \in Voice
    BY <1>2 DEF RecordCall, TypeOK
  <2>2. recording.voice \in Voices
    BY <2>1 DEF Voice
  <2>3. captured' \subseteq Voices /\ stopping' \subseteq captured'
    BY <1>2, <2>2 DEF RecordCall, BeginRecord, TypeOK
  <2>4. timer' \in Timer /\ length' \in {"short", "sound", "limit"}
    BY <1>2, <1>t DEF RecordCall, BeginRecord
  <2> QED
    BY <1>2, <2>3, <2>4 DEF RecordCall, TypeOK, Timer, sending, incoming, servers, counts
<1>3. CASE RecordError
  <2>1. Queue(queue')
    BY <1>3, TakeTypes, BareQueue DEF RecordError, Take, Bare
  <2>2. recording' \in Voice \cup {None} /\ uploads' \in Seq(Voice) /\ timer' \in Timer
    BY <1>3, <1>t, <1>v, VoiceLists DEF RecordError, TypeOK
  <2> QED
    BY <1>3, <2>1, <2>2 DEF RecordError, Take, TypeOK, Queue, Timer, incoming, ams, servers
<1>4. CASE RecordFinish
  <2>1. Queue(queue')
    BY <1>4, TakeTypes DEF RecordFinish, Take
  <2>2. recording' \in Voice \cup {None} /\ timer' \in Timer
    BY <1>4, <1>t, <1>v DEF RecordFinish, TypeOK
  <2>3. stopping' \subseteq captured
    BY <1>4 DEF RecordFinish, TypeOK
  <2> QED
    BY <1>4, <2>1, <2>2, <2>3 DEF RecordFinish, Take, TypeOK, Queue, Timer, incoming, servers
<1> QED
  BY <1>1, <1>2, <1>3, <1>4

(* The upload list.                                                         *)
LEMMA SendingTypes ==
  ASSUME TypeOK, UploadStart \/ UploadFinish
  PROVE  TypeOK'
<1>l. uploads \in Seq(Voice)
  BY DEF TypeOK
<1>h. ASSUME uploads # <<>>
      PROVE  Head(uploads) \in Voice /\ uploads[1] \in Voice /\ uploads[1].voice \in Voices
  <2>1. Head(uploads) \in Voice /\ uploads[1] \in Voice
    BY <1>l, <1>h
  <2> QED
    BY <2>1 DEF Voice
<1>1. CASE UploadStart
  <2>1. [cmd |-> "UPLOAD_FINISH", param |-> "FILE_SIZE_ERROR"] \in Command
    BY DEF Command, Results
  <2>2. Queue(queue')
    <3>1. Queue(Tail(queue))
      BY <1>1, TakeTypes DEF UploadStart, Take
    <3>2. Queue(Post(Tail(queue), "UPLOAD_FINISH", "FILE_SIZE_ERROR"))
      BY <2>1, <3>1, PostQueue
    <3> QED
      BY <1>1, <3>1, <3>2 DEF UploadStart
  <2>3. uploads' \in Seq(Voice)
    BY <1>1, <1>l, <1>h, VoiceLists DEF UploadStart
  <2>4. to_upload' \in Seq(Voices)
    <3>1. to_upload \in Seq(Voices)
      BY DEF TypeOK
    <3> QED
      BY <1>1, <1>h, <3>1 DEF UploadStart
  <2> QED
    BY <1>1, <2>2, <2>3, <2>4 DEF UploadStart, Take, TypeOK, Queue, incoming, ams
<1>2. CASE UploadFinish
  <2>1. Queue(queue')
    BY <1>2, TakeTypes, RemainQueue DEF UploadFinish, Take, Bare
  <2>2. uploads' \in Seq(Voice) /\ up_errors' \in 0..255
    <3>1. up_errors \in 0..255 /\ Counted(up_errors) \in 0..255 /\ 0 \in 0..255
      <4>1. up_errors \in 0..255
        BY DEF TypeOK
      <4> QED
        BY <4>1 DEF Counted
    <3>2. ASSUME uploads # <<>>
          PROVE  Tail(uploads) \in Seq(Voice) /\ Retried(uploads, up_errors, "FINISH_RECORD") \in Seq(Voice)
      <4>1. Tail(uploads) \in Seq(Voice) /\ Head(uploads) \in Voice
        BY <1>l, <1>h, <3>2
      <4>2. [Head(uploads) EXCEPT !.state = "FINISH_RECORD"] \in Voice
        BY <4>1 DEF Voice
      <4> QED
        BY <4>1, <4>2 DEF Retried
    <3> QED
      BY <1>2, <1>l, <3>1, <3>2 DEF UploadFinish
  <2> QED
    BY <1>2, <2>1, <2>2 DEF UploadFinish, Take, TypeOK, Queue, incoming, ams, servers
<1> QED
  BY <1>1, <1>2

(* The download list.                                                       *)
LEMMA DownloadTypes ==
  ASSUME TypeOK, RecvMsg \/ DownloadStart \/ DownloadFinish
  PROVE  TypeOK'
<1>l. downloads \in Seq(Message) /\ plays \in Seq(Message)
  BY DEF TypeOK
<1>h. ASSUME downloads # <<>>
      PROVE  /\ Head(downloads) \in Message /\ Tail(downloads) \in Seq(Message)
             /\ Head(downloads).msg \in Messages
  <2>1. Head(downloads) \in Message /\ Tail(downloads) \in Seq(Message)
    BY <1>l, <1>h
  <2> QED
    BY <2>1 DEF Message
<1>1. CASE RecvMsg
  <2>1. Queue(queue')
    BY <1>1, TakeTypes, BareQueue DEF RecvMsg, Take, Bare
  <2>2. Head(queue).param \in Messages
    BY <1>1, TakeTypes DEF RecvMsg, Take, Command, Bare
  <2>3. [msg |-> Head(queue).param, state |-> "IDLE"] \in Message
    BY <2>2 DEF Message
  <2>4. downloads' \in Seq(Message)
    BY <1>1, <1>l, <2>3 DEF RecvMsg
  <2> QED
    BY <1>1, <2>1, <2>4 DEF RecvMsg, Take, TypeOK, Queue, sending, ams, servers
<1>2. CASE DownloadStart
  <2>1. Queue(queue')
    BY <1>2, TakeTypes DEF DownloadStart, Take
  <2>2. downloads' \in Seq(Message)
    BY <1>2, <1>l, <1>h, MessageLists DEF DownloadStart
  <2>3. to_download' \in Seq(Messages)
    <3>1. to_download \in Seq(Messages)
      BY DEF TypeOK
    <3> QED
      BY <1>2, <1>h, <3>1 DEF DownloadStart
  <2> QED
    BY <1>2, <2>1, <2>2, <2>3 DEF DownloadStart, Take, TypeOK, Queue, sending, ams
<1>3. CASE DownloadFinish
  <2>1. Queue(queue')
    BY <1>3, TakeTypes, RemainQueue DEF DownloadFinish, Take, Bare
  <2>2. down_errors \in 0..255 /\ Counted(down_errors) \in 0..255 /\ 0 \in 0..255
    <3>1. down_errors \in 0..255
      BY DEF TypeOK
    <3> QED
      BY <3>1 DEF Counted
  <2>3. ASSUME downloads # <<>>
        PROVE  Retried(downloads, down_errors, "IDLE") \in Seq(Message)
    <3>1. [Head(downloads) EXCEPT !.state = "IDLE"] \in Message
      BY <1>h, <2>3 DEF Message
    <3> QED
      BY <1>h, <2>3, <3>1 DEF Retried
  <2>4. ASSUME downloads # <<>>
        PROVE  Append(plays, [Head(downloads) EXCEPT !.state = "FINISH_DOWNLOAD"]) \in Seq(Message)
    <3>1. [Head(downloads) EXCEPT !.state = "FINISH_DOWNLOAD"] \in Message
      BY <1>h, <2>4 DEF Message
    <3> QED
      BY <1>l, <3>1
  <2>5. downloads' \in Seq(Message) /\ plays' \in Seq(Message) /\ down_errors' \in 0..255
    BY <1>3, <1>l, <1>h, <2>2, <2>3, <2>4 DEF DownloadFinish
  <2> QED
    BY <1>3, <2>1, <2>5 DEF DownloadFinish, Take, TypeOK, Queue, sending, ams, servers
<1> QED
  BY <1>1, <1>2, <1>3

(* The play list.                                                           *)
LEMMA PlayTypes ==
  ASSUME TypeOK, PlayStart \/ PlayFinish \/ PlayError \/ PlayPrevious
  PROVE  TypeOK'
<1>l. plays \in Seq(Message)
  BY DEF TypeOK
<1>h. ASSUME plays # <<>>
      PROVE  /\ Head(plays) \in Message /\ Tail(plays) \in Seq(Message)
             /\ Head(plays).msg \in Messages
  <2>1. Head(plays) \in Message /\ Tail(plays) \in Seq(Message)
    BY <1>l, <1>h
  <2> QED
    BY <2>1 DEF Message
<1>1. CASE PlayStart
  <2>1. Queue(queue')
    BY <1>1, TakeTypes DEF PlayStart, Take
  <2>2. plays' \in Seq(Message) /\ songs' \subseteq Messages
    BY <1>1, <1>l, <1>h, MessageLists DEF PlayStart, TypeOK
  <2> QED
    BY <1>1, <2>1, <2>2 DEF PlayStart, Take, TypeOK, Queue, sending, servers
<1>2. CASE PlayFinish
  <2>1. Queue(queue')
    BY <1>2, TakeTypes, RemainQueue DEF PlayFinish, Take, Bare
  <2>2. plays' \in Seq(Message) /\ previous' \in Messages \cup {None}
    BY <1>2, <1>l, <1>h DEF PlayFinish, TypeOK
  <2> QED
    BY <1>2, <2>1, <2>2 DEF PlayFinish, Take, TypeOK, Queue, sending, ams, servers
<1>3. CASE PlayError
  <2>1. Queue(queue')
    BY <1>3, TakeTypes DEF PlayError, Take
  <2>2. plays' \in Seq(Message)
    BY <1>3, <1>l, <1>h, MessageLists DEF PlayError
  <2> QED
    BY <1>3, <2>1, <2>2 DEF PlayError, Take, TypeOK, Queue, sending, ams, servers
<1>4. CASE PlayPrevious
  <2>1. Queue(queue')
    BY <1>4, TakeTypes DEF PlayPrevious, Take
  <2> QED
    BY <1>4, <2>1 DEF PlayPrevious, Take, TypeOK, Queue, sending, incoming, ams, servers
<1> QED
  BY <1>1, <1>2, <1>3, <1>4

(* The key, the timers, and those that answer.                              *)
LEMMA OtherTypes ==
  ASSUME TypeOK, Press \/ Release \/ KeyHeld \/ Tick \/ Obey \/ Others
  PROVE  TypeOK'
<1>q. Queue(queue) /\ queue \in Seq(Command)
  BY SameQueue DEF TypeOK
<1>t. ASSUME NEW t \in {timer, key_timer}
      PROVE  /\ t \in Timer /\ Ask(t, "start") \in Timer /\ Ask(t, "stop") \in Timer
             /\ Obeyed(t) \in Timer /\ [t EXCEPT !.active = FALSE] \in Timer
  <2>1. t \in Timer
    BY DEF TypeOK, Timer
  <2> QED
    BY <2>1, TimerTypes
<1>1. CASE Press
  <2>1. key_timer' \in Timer
    BY <1>1, <1>t DEF Press
  <2>2. presses' \in 0..MaxPresses
    BY <1>1, WeChatAssumption DEF Press, TypeOK
  <2> QED
    BY <1>1, <2>1, <2>2 DEF Press, TypeOK, Timer, sending, incoming, ams, servers
<1>2. CASE Release
  <2>1. Queue(queue')
    BY <1>2, <1>q, BareQueue DEF Release, Bare
  <2>2. key_timer' \in Timer
    BY <1>2, <1>t DEF Release
  <2> QED
    BY <1>2, <2>1, <2>2 DEF Release, TypeOK, Queue, Timer, sending, incoming, ams, servers, counts
<1>3. CASE KeyHeld
  <2>1. Queue(queue')
    BY <1>3, <1>q, BareQueue DEF KeyHeld, Bare
  <2>2. key_timer' \in Timer
    BY <1>3, <1>t DEF KeyHeld
  <2> QED
    BY <1>3, <2>1, <2>2 DEF KeyHeld, TypeOK, Queue, Timer, sending, incoming, ams, servers, counts
<1>4. CASE Tick
  <2>1. Queue(queue')
    BY <1>4, <1>q, BareQueue DEF Tick, Bare
  <2> QED
    BY <1>4, <2>1 DEF Tick, TypeOK, Queue, sending, incoming, ams, servers, counts
<1>5. CASE Obey
  <2>1. timer' \in Timer /\ key_timer' \in Timer
    BY <1>5, <1>t DEF Obey
  <2> QED
    BY <1>5, <2>1 DEF Obey, TypeOK, Timer, sending, incoming, ams, servers, counts
<1>6. ASSUME NEW v \in Voices, RecordVerdict(v) PROVE TypeOK'
  <2>1. ASSUME NEW verdict \in Verdicts PROVE Queue(Post(queue, "RECORD_ERROR", verdict))
    <3>1. [cmd |-> "RECORD_ERROR", param |-> verdict] \in Command
      BY DEF Command
    <3> QED
      BY <1>q, <3>1, PostQueue
  <2>2. Queue(queue')
    BY <1>6, <2>1 DEF RecordVerdict
  <2>3. captured' \subseteq Voices /\ stopping' \subseteq captured'
    BY <1>6 DEF RecordVerdict, TypeOK
  <2> QED
    BY <1>6, <2>2, <2>3 DEF RecordVerdict, TypeOK, Queue, sending, incoming, timers, servers, counts
<1>7. ASSUME NEW m \in Messages, PlayVerdict(m) PROVE TypeOK'
  <2>1. Queue(queue')
    BY <1>7, <1>q, BareQueue DEF PlayVerdict, Bare
  <2> QED
    BY <1>7, <2>1 DEF PlayVerdict, TypeOK, Queue, sending, incoming, timers, servers, counts
<1>8. CASE Uploaded
  <2>1. ASSUME NEW result \in Results PROVE Queue(Post(queue, "UPLOAD_FINISH", result))
    <3>1. [cmd |-> "UPLOAD_FINISH", param |-> result] \in Command
      BY DEF Command
    <3> QED
      BY <1>q, <3>1, PostQueue
  <2>2. Queue(queue') /\ to_upload' \in Seq(Voices)
    BY <1>8, <2>1 DEF Uploaded, TypeOK
  <2> QED
    BY <1>8, <2>2 DEF Uploaded, TypeOK, Queue, sending, incoming, timers, ams, counts
<1>9. CASE Downloaded
  <2>1. ASSUME NEW result \in {"LOAD_SUCC", "FAILED"}
        PROVE  Queue(Post(queue, "DOWNLOAD_FINISH", result))
    <3>1. [cmd |-> "DOWNLOAD_FINISH", param |-> result] \in Command
      BY DEF Command, Results
    <3> QED
      BY <1>q, <3>1, PostQueue
  <2>2. Queue(queue') /\ to_download' \in Seq(Messages)
    BY <1>9, <2>1 DEF Downloaded, TypeOK
  <2> QED
    BY <1>9, <2>2 DEF Downloaded, TypeOK, Queue, sending, incoming, timers, ams, counts
<1>10. CASE Push
  <2>1. pushed' \in Messages /\ pushed' \in 0..MaxMessages
    BY <1>10, WeChatAssumption DEF Push, TypeOK, Messages
  <2>2. [cmd |-> "RECV_MSG", param |-> pushed'] \in Command
    BY <2>1 DEF Command
  <2>3. Queue(queue')
    BY <1>10, <1>q, <2>2, PostQueue DEF Push
  <2> QED
    BY <1>10, <2>1, <2>3 DEF Push, TypeOK, Queue, sending, incoming, timers, ams, servers
<1> QED
  BY <1>1, <1>2, <1>3, <1>4, <1>5, <1>6, <1>7, <1>8, <1>9, <1>10 DEF Others

-----------------------------------------------------------------------------
(* ANSWERS.  A step brings no new command of the kinds S.                   *)
NoNew(S) ==
  /\ Pending(queue, S) = {} => Pending(queue', S) = {}
  /\ AtMostOne(Pending(queue, S)) => AtMostOne(Pending(queue', S))

LEMMA PostNoNew ==
  ASSUME TypeOK, NEW cmd, NEW param, [cmd |-> cmd, param |-> param] \in Command,
         NEW S, cmd \notin S, queue' = Post(queue, cmd, param)
  PROVE  NoNew(S)
<1>1. queue \in Seq(Command) /\ Len(queue) <= QueueSize
  BY DEF TypeOK
<1>2. Pending(queue', S) = Pending(queue, S)
  BY <1>1, PostLemma
<1> QED
  BY <1>2 DEF NoNew

LEMMA TakeNoNew ==
  ASSUME TypeOK, queue # <<>>, NEW S,
         \/ queue' = Tail(queue)
         \/ \E cmd, param : /\ [cmd |-> cmd, param |-> param] \in Command /\ cmd \notin S
                            /\ queue' = Post(Tail(queue), cmd, param)
  PROVE  NoNew(S)
<1>1. queue \in Seq(Command)
  BY DEF TypeOK
<1>2. /\ AtMostOne(Pending(queue, S)) => AtMostOne(Pending(Tail(queue), S))
      /\ Pending(queue, S) = {} => Pending(Tail(queue), S) = {}
  BY <1>1, TailLemma
<1>3. CASE queue' = Tail(queue)
  BY <1>2, <1>3 DEF NoNew
<1>4. ASSUME NEW cmd, NEW param, [cmd |-> cmd, param |-> param] \in Command, cmd \notin S,
             queue' = Post(Tail(queue), cmd, param)
      PROVE  NoNew(S)
  <2>1. Queue(Tail(queue))
    BY TakeTypes
  <2>2. Pending(queue', S) = Pending(Tail(queue), S)
    BY <1>4, <2>1, PostSame
  <2> QED
    BY <1>2, <2>2 DEF NoNew
<1> QED
  BY <1>3, <1>4

(* What wechat_task posts to itself.                                        *)
Own == {"RECORD_START", "UPLOAD_START", "UPLOAD_FINISH", "DOWNLOAD_START", "PLAY_START"}

LEMMA TaskNoNew ==
  ASSUME TypeOK, Task, NEW S, S \cap Own = {}
  PROVE  NoNew(S)
<1>1. CASE RecordCall
  BY <1>1 DEF RecordCall, NoNew
<1>2. ASSUME ~RecordCall PROVE queue # <<>>
  BY <1>2 DEF Task, RecordStart, RecordError, RecordFinish, UploadStart, UploadFinish, RecvMsg,
    DownloadStart, DownloadFinish, PlayStart, PlayFinish, PlayError, PlayPrevious, Take
<1>3. /\ [cmd |-> "UPLOAD_FINISH", param |-> "FILE_SIZE_ERROR"] \in Command
      /\ \A cmd \in Own \ {"UPLOAD_FINISH"} : [cmd |-> cmd, param |-> None] \in Command
  BY DEF Command, Results, Bare, Own
<1>4. CASE queue' = Tail(queue) /\ ~RecordCall
  BY <1>2, <1>4, TakeNoNew
<1>5. CASE /\ ~RecordCall
           /\ \/ queue' = Post(Tail(queue), "UPLOAD_FINISH", "FILE_SIZE_ERROR")
              \/ \E cmd \in Own \ {"UPLOAD_FINISH"} : queue' = Post(Tail(queue), cmd, None)
  <2>1. \A cmd \in Own : cmd \notin S
    OBVIOUS
  <2>2. "UPLOAD_FINISH" \in Own
    BY DEF Own
  <2> QED
    BY <1>2, <1>3, <1>5, <2>1, <2>2, TakeNoNew
<1>6. /\ RecordStart \/ RecordFinish \/ DownloadStart \/ PlayStart \/ PlayError \/ PlayPrevious
           => queue' = Tail(queue)
      /\ RecordError => \/ queue' = Tail(queue)
                        \/ \E cmd \in {"UPLOAD_START", "RECORD_START"} : queue' = Post(Tail(queue), cmd, None)
      /\ UploadStart => queue' \in {Tail(queue), Post(Tail(queue), "UPLOAD_FINISH", "FILE_SIZE_ERROR")}
      /\ UploadFinish => queue' \in {Tail(queue), Post(Tail(queue), "UPLOAD_START", None)}
      /\ RecvMsg \/ DownloadFinish => queue' \in {Tail(queue), Post(Tail(queue), "DOWNLOAD_START", None)}
      /\ PlayFinish => queue' \in {Tail(queue), Post(Tail(queue), "PLAY_START", None)}
  BY DEF RecordStart, RecordError, RecordFinish, UploadStart, UploadFinish, RecvMsg,
    DownloadStart, DownloadFinish, PlayStart, PlayFinish, PlayError, PlayPrevious, Remain
<1> QED
  BY <1>1, <1>4, <1>5, <1>6 DEF Task, Own

(* What the key, the timers, the upload server and the channel post.        *)
LEMMA EventsNoNew ==
  ASSUME TypeOK, Press \/ Release \/ KeyHeld \/ Tick \/ Obey \/ Uploaded \/ Push, NEW S,
         S \cap {"RECORD_FINISH", "PLAY_START", "PLAY_PREVIOUS", "RECORD_START", "RECORD_TIMEOUT",
                 "UPLOAD_FINISH", "RECV_MSG"} = {}
  PROVE  NoNew(S)
<1>1. ASSUME NEW cmd \in {"RECORD_FINISH", "PLAY_START", "PLAY_PREVIOUS", "RECORD_START", "RECORD_TIMEOUT"},
             queue' = Post(queue, cmd, None)
      PROVE  NoNew(S)
  <2>1. [cmd |-> cmd, param |-> None] \in Command
    BY DEF Command, Bare
  <2> QED
    BY <1>1, <2>1, PostNoNew
<1>2. ASSUME NEW result \in Results, queue' = Post(queue, "UPLOAD_FINISH", result) PROVE NoNew(S)
  <2>1. [cmd |-> "UPLOAD_FINISH", param |-> result] \in Command
    BY DEF Command
  <2> QED
    BY <1>2, <2>1, PostNoNew
<1>3. CASE Push
  <2>1. pushed' \in Messages
    BY <1>3, WeChatAssumption DEF Push, TypeOK, Messages
  <2>2. [cmd |-> "RECV_MSG", param |-> pushed'] \in Command
    BY <2>1 DEF Command
  <2> QED
    BY <1>3, <2>2, PostNoNew DEF Push
<1>4. queue' = queue => NoNew(S)
  BY DEF NoNew
<1> QED
  BY <1>1, <1>2, <1>3, <1>4 DEF Press, Release, KeyHeld, Tick, Obey, Uploaded

(* What AMS and the download server post.                                   *)
LEMMA RecordVerdictNoNew ==
  ASSUME TypeOK, NEW v \in Voices, RecordVerdict(v), NEW S, "RECORD_ERROR" \notin S
  PROVE  NoNew(S)
<1>1. PICK verdict \in Verdicts : queue' = Post(queue, "RECORD_ERROR", verdict)
  BY DEF RecordVerdict
<1>2. [cmd |-> "RECORD_ERROR", param |-> verdict] \in Command
  BY DEF Command
<1> QED
  BY <1>1, <1>2, PostNoNew

LEMMA PlayVerdictNoNew ==
  ASSUME TypeOK, NEW m \in Messages, PlayVerdict(m), NEW S, S \cap {"PLAY_FINISH", "PLAY_ERROR"} = {}
  PROVE  NoNew(S)
<1>1. ASSUME NEW cmd \in {"PLAY_FINISH", "PLAY_ERROR"}, queue' = Post(queue, cmd, None)
      PROVE  NoNew(S)
  <2>1. [cmd |-> cmd, param |-> None] \in Command
    BY DEF Command, Bare
  <2> QED
    BY <1>1, <2>1, PostNoNew
<1>2. queue' = queue => NoNew(S)
  BY DEF NoNew
<1> QED
  BY <1>1, <1>2 DEF PlayVerdict

LEMMA DownloadedNoNew ==
  ASSUME TypeOK, Downloaded, NEW S, "DOWNLOAD_FINISH" \notin S
  PROVE  NoNew(S)
<1>1. PICK result \in {"LOAD_SUCC", "FAILED"} : queue' = Post(queue, "DOWNLOAD_FINISH", result)
  BY DEF Downloaded
<1>2. [cmd |-> "DOWNLOAD_FINISH", param |-> result] \in Command
  BY DEF Command, Results
<1> QED
  BY <1>1, <1>2, PostNoNew

(* A command that is taken is the only one of its kinds.                    *)
LEMMA TakeOwn ==
  ASSUME TypeOK, queue # <<>>, NEW S, Head(queue).cmd \in S, AtMostOne(Pending(queue, S)),
         \/ queue' = Tail(queue)
         \/ \E cmd \in Own \ {"UPLOAD_FINISH"} : cmd \notin S /\ queue' = Post(Tail(queue), cmd, None)
  PROVE  Pending(queue, S) # {} /\ Pending(queue', S) = {}
<1>1. queue \in Seq(Command)
  BY DEF TypeOK
<1>2. Pending(queue, S) # {} /\ Pending(Tail(queue), S) = {}
  BY <1>1, TailLemma
<1>3. ASSUME NEW cmd \in Own \ {"UPLOAD_FINISH"}, cmd \notin S
      PROVE  Pending(Post(Tail(queue), cmd, None), S) = {}
  <2>1. [cmd |-> cmd, param |-> None] \in Command
    BY DEF Command, Bare, Own
  <2>2. Queue(Tail(queue))
    BY TakeTypes
  <2>3. Pending(Post(Tail(queue), cmd, None), S) = Pending(Tail(queue), S)
    BY <1>3, <2>1, <2>2, PostSame
  <2> QED
    BY <1>2, <2>3
<1> QED
  BY <1>2, <1>3

(* An answer that is posted when none of its kinds is queued is alone.      *)
LEMMA PostOwn ==
  ASSUME TypeOK, NEW cmd, NEW param, [cmd |-> cmd, param |-> param] \in Command,
         NEW S, Pending(queue, S) = {}, queue' = Post(queue, cmd, param)
  PROVE  AtMostOne(Pending(queue', S))
<1>1. queue \in Seq(Command) /\ Len(queue) <= QueueSize
  BY DEF TypeOK
<1> QED
  BY <1>1, PostLemma

-----------------------------------------------------------------------------
(* THE VERDICT OF A RECORDING.                                              *)
Recorded == {"RECORD_ERROR"}

LEMMA RecordSame ==
  ASSUME RecordAnswerIsOwn, NoNew(Recorded), UNCHANGED <<task, recording, captured>>
  PROVE  RecordAnswerIsOwn'
<1>1. CASE Pending(queue, Recorded) = {}
  <2>1. Pending(queue', Recorded) = {}
    BY <1>1 DEF NoNew
  <2> QED
    BY <2>1 DEF RecordAnswerIsOwn, Recorded, AtMostOne
<1>2. CASE Pending(queue, Recorded) # {}
  BY <1>2 DEF RecordAnswerIsOwn, NoNew, Recorded
<1> QED
  BY <1>1, <1>2

LEMMA RecordKept ==
  ASSUME TypeOK, RecordAnswerIsOwn, Next
  PROVE  RecordAnswerIsOwn'
<1>1. CASE RecordStart
  <2>1. queue # <<>> /\ queue' = Tail(queue)
    BY <1>1 DEF RecordStart
  <2>2. NoNew(Recorded)
    BY <2>1, TakeNoNew
  <2>3. CASE UNCHANGED <<task, recording>>
    BY <1>1, <2>2, <2>3, RecordSame DEF RecordStart, ams
  <2>4. CASE Free /\ recording' = [voice |-> voices + 1, state |-> "START_RECORD"]
    <3>1. captured = {} /\ Pending(queue, Recorded) = {}
      BY <2>4 DEF RecordAnswerIsOwn, Free, Recorded
    <3>2. captured' = {} /\ Pending(queue', Recorded) = {}
      BY <1>1, <2>2, <3>1 DEF NoNew, RecordStart, ams
    <3>3. recording' # None
      <4>1. voices + 1 \in Nat
        BY WeChatAssumption DEF TypeOK
      <4> QED
        BY <2>4, <4>1, WeChatAssumption
    <3> QED
      BY <3>2, <3>3 DEF RecordAnswerIsOwn, Recorded, AtMostOne
  <2> QED
    BY <1>1, <2>3, <2>4 DEF RecordStart
<1>2. CASE RecordCall
  <2>1. recording # None /\ captured = {} /\ Pending(queue, Recorded) = {}
    BY <1>2 DEF RecordAnswerIsOwn, RecordCall, Recorded
  <2>2. captured' = {recording.voice} /\ queue' = queue /\ recording' = recording /\ task' = "wait"
    BY <1>2, <2>1 DEF RecordCall, BeginRecord, sending
  <2> QED
    BY <2>1, <2>2 DEF RecordAnswerIsOwn, Recorded, AtMostOne
<1>3. CASE RecordError
  <2>1. /\ queue # <<>> /\ Head(queue).cmd \in Recorded /\ task' = task /\ captured' = captured
        /\ \/ queue' = Tail(queue)
           \/ \E cmd \in {"UPLOAD_START", "RECORD_START"} : queue' = Post(Tail(queue), cmd, None)
    BY <1>3 DEF RecordError, Take, Recorded, ams
  <2>2. AtMostOne(Pending(queue, Recorded))
    BY DEF RecordAnswerIsOwn, Recorded
  <2>3. Pending(queue, Recorded) # {} /\ Pending(queue', Recorded) = {}
    BY <2>1, <2>2, TakeOwn DEF Own, Recorded
  <2>4. captured' = {} /\ task' = "wait"
    BY <2>1, <2>3 DEF RecordAnswerIsOwn, Recorded
  <2> QED
    BY <2>3, <2>4 DEF RecordAnswerIsOwn, Recorded, AtMostOne
<1>4. CASE RecordFinish
  <2>1. queue # <<>> /\ queue' = Tail(queue) /\ UNCHANGED <<task, captured>>
    BY <1>4 DEF RecordFinish, Take
  <2>2. NoNew(Recorded)
    BY <2>1, TakeNoNew
  <2>3. CASE recording = None
    BY <1>4, <2>1, <2>2, <2>3, RecordSame DEF RecordFinish
  <2>4. CASE recording # None
    <3>1. recording' # None /\ recording'.voice = recording.voice
      <4>1. recording \in Voice
        BY <2>4 DEF TypeOK
      <4>2. [recording EXCEPT !.state = "FINISH_RECORD"] \in Voice /\ None \notin Voice
        BY <4>1, WeChatAssumption DEF Voice, Voices
      <4>3. recording' = [recording EXCEPT !.state = "FINISH_RECORD"]
        BY <1>4, <2>4 DEF RecordFinish
      <4> QED
        BY <4>1, <4>2, <4>3 DEF Voice
    <3>2. CASE Pending(queue, Recorded) = {}
      <4>1. Pending(queue', Recorded) = {}
        BY <2>2, <3>2 DEF NoNew
      <4> QED
        BY <2>1, <3>1, <4>1 DEF RecordAnswerIsOwn, Recorded, AtMostOne
    <3>3. CASE Pending(queue, Recorded) # {}
      BY <2>1, <2>2, <3>1, <3>3 DEF RecordAnswerIsOwn, NoNew, Recorded
    <3> QED
      BY <3>2, <3>3
  <2> QED
    BY <2>3, <2>4
<1>5. ASSUME NEW v \in Voices, RecordVerdict(v) PROVE RecordAnswerIsOwn'
  <2>1. PICK verdict \in Verdicts : queue' = Post(queue, "RECORD_ERROR", verdict)
    BY <1>5 DEF RecordVerdict
  <2>2. [cmd |-> "RECORD_ERROR", param |-> verdict] \in Command
    BY DEF Command
  <2>3. captured = {v} /\ recording # None /\ task = "wait" /\ Pending(queue, Recorded) = {}
    BY <1>5 DEF RecordVerdict, RecordAnswerIsOwn, Recorded, AtMostOne
  <2>4. AtMostOne(Pending(queue', Recorded))
    BY <2>1, <2>2, <2>3, PostOwn
  <2>5. captured' = {} /\ UNCHANGED <<recording, task>>
    BY <1>5, <2>3 DEF RecordVerdict, sending
  <2> QED
    BY <2>3, <2>4, <2>5 DEF RecordAnswerIsOwn, Recorded, AtMostOne
<1>6. CASE \/ UploadStart \/ UploadFinish \/ RecvMsg \/ DownloadStart \/ DownloadFinish
           \/ PlayStart \/ PlayFinish \/ PlayError \/ PlayPrevious
  <2>1. NoNew(Recorded)
    BY <1>6, TaskNoNew DEF Task, Own, Recorded
  <2>2. UNCHANGED <<task, recording, captured>>
    BY <1>6 DEF UploadStart, UploadFinish, RecvMsg, DownloadStart, DownloadFinish,
      PlayStart, PlayFinish, PlayError, PlayPrevious, sending, ams
  <2> QED
    BY <2>1, <2>2, RecordSame
<1>7. CASE Press \/ Release \/ KeyHeld \/ Tick \/ Obey \/ Uploaded \/ Push
  <2>1. NoNew(Recorded)
    BY <1>7, EventsNoNew DEF Recorded
  <2>2. UNCHANGED <<task, recording, captured>>
    BY <1>7 DEF Press, Release, KeyHeld, Tick, Obey, Uploaded, Push, sending, ams
  <2> QED
    BY <2>1, <2>2, RecordSame
<1>8. ASSUME NEW m \in Messages, PlayVerdict(m) PROVE RecordAnswerIsOwn'
  <2>1. NoNew(Recorded)
    BY <1>8, PlayVerdictNoNew DEF Recorded
  <2> QED
    BY <1>8, <2>1, RecordSame DEF PlayVerdict, sending
<1>9. CASE Downloaded
  <2>1. NoNew(Recorded)
    BY <1>9, DownloadedNoNew DEF Recorded
  <2> QED
    BY <1>9, <2>1, RecordSame DEF Downloaded, sending, ams
<1> QED
  BY <1>1, <1>2, <1>3, <1>4, <1>5, <1>6, <1>7, <1>8, <1>9 DEF Next, Task, Others

-----------------------------------------------------------------------------
(* THE VERDICT OF A MESSAGE.                                                *)
Played == {"PLAY_FINISH", "PLAY_ERROR"}

LEMMA PlaySame ==
  ASSUME PlayAnswerIsOwn, NoNew(Played), UNCHANGED songs,
         plays # <<>> => plays' # <<>> /\ Head(plays') = Head(plays)
  PROVE  PlayAnswerIsOwn'
<1>1. CASE Pending(queue, Played) = {}
  <2>1. Pending(queue', Played) = {}
    BY <1>1 DEF NoNew
  <2> QED
    BY <2>1 DEF PlayAnswerIsOwn, Played, AtMostOne
<1>2. CASE Pending(queue, Played) # {}
  BY <1>2 DEF PlayAnswerIsOwn, NoNew, Played
<1> QED
  BY <1>1, <1>2

LEMMA PlayKept ==
  ASSUME TypeOK, PlayAnswerIsOwn, Next
  PROVE  PlayAnswerIsOwn'
<1>l. plays \in Seq(Message) /\ downloads \in Seq(Message)
  BY DEF TypeOK
<1>1. CASE PlayStart
  <2>1. queue # <<>> /\ queue' = Tail(queue)
    BY <1>1 DEF PlayStart, Take
  <2>2. NoNew(Played)
    BY <2>1, TakeNoNew
  <2>3. CASE ~(plays # <<>> /\ Ready(Head(plays)))
    BY <1>1, <2>2, <2>3, PlaySame DEF PlayStart
  <2>4. CASE plays # <<>> /\ Ready(Head(plays))
    <3>1. songs = {} /\ Pending(queue, Played) = {}
      BY <2>4 DEF PlayAnswerIsOwn, Ready, Played
    <3>2. songs' = {Head(plays).msg} /\ plays' = [plays EXCEPT ![1].state = "START_PLAY"]
      BY <1>1, <2>4, <3>1 DEF PlayStart
    <3>3. Pending(queue', Played) = {}
      BY <2>2, <3>1 DEF NoNew
    <3>4. plays' # <<>> /\ Head(plays') = [msg |-> Head(plays).msg, state |-> "START_PLAY"]
      <4>0. Head(plays) = plays[1] /\ plays[1] \in Message /\ 1 \in DOMAIN plays
        BY <1>l, <2>4
      <4>1. [plays EXCEPT ![1].state = "START_PLAY"] \in Seq(Message)
        BY <1>l, <2>4, <4>0, MessageLists
      <4>2. plays' # <<>> /\ Head(plays') = [plays[1] EXCEPT !.state = "START_PLAY"]
        BY <1>l, <2>4, <3>2, <4>0, <4>1
      <4> QED
        BY <4>0, <4>2 DEF Message
    <3> QED
      BY <3>2, <3>3, <3>4 DEF PlayAnswerIsOwn, Played, AtMostOne
  <2> QED
    BY <2>3, <2>4
<1>2. CASE PlayFinish \/ PlayError
  <2>1. /\ queue # <<>> /\ Head(queue).cmd \in Played /\ songs' = songs
        /\ queue' = Tail(queue) \/ queue' = Post(Tail(queue), "PLAY_START", None)
    BY <1>2 DEF PlayFinish, PlayError, Take, Played, ams, Remain
  <2>2. AtMostOne(Pending(queue, Played))
    BY DEF PlayAnswerIsOwn, Played
  <2>3. Pending(queue, Played) # {} /\ Pending(queue', Played) = {}
    BY <2>1, <2>2, TakeOwn DEF Own, Played
  <2>4. songs' = {}
    BY <2>1, <2>3 DEF PlayAnswerIsOwn, Played
  <2> QED
    BY <2>3, <2>4 DEF PlayAnswerIsOwn, Played, AtMostOne
<1>3. ASSUME NEW m \in Messages, PlayVerdict(m) PROVE PlayAnswerIsOwn'
  <2>1. songs = {m} /\ Pending(queue, Played) = {} /\ plays # <<>> /\ Head(plays).state = "START_PLAY"
    BY <1>3 DEF PlayVerdict, PlayAnswerIsOwn, Played, AtMostOne
  <2>2. songs' = {} /\ plays' = plays
    BY <1>3, <2>1 DEF PlayVerdict, incoming
  <2>3. AtMostOne(Pending(queue', Played))
    <3>1. ASSUME NEW cmd \in Played, queue' = Post(queue, cmd, None)
          PROVE  AtMostOne(Pending(queue', Played))
      <4>1. [cmd |-> cmd, param |-> None] \in Command
        BY DEF Command, Bare, Played
      <4> QED
        BY <2>1, <3>1, <4>1, PostOwn
    <3>2. queue' = queue => AtMostOne(Pending(queue', Played))
      BY <2>1 DEF AtMostOne
    <3> QED
      BY <1>3, <3>1, <3>2 DEF PlayVerdict, Played
  <2> QED
    BY <2>1, <2>2, <2>3 DEF PlayAnswerIsOwn, Played
<1>4. CASE \/ RecordStart \/ RecordCall \/ RecordError \/ RecordFinish \/ UploadStart \/ UploadFinish
           \/ RecvMsg \/ DownloadStart \/ PlayPrevious
  <2>1. NoNew(Played)
    BY <1>4, TaskNoNew DEF Task, Own, Played
  <2>2. UNCHANGED <<plays, songs>>
    BY <1>4 DEF RecordStart, RecordCall, RecordError, RecordFinish, UploadStart, UploadFinish,
      RecvMsg, DownloadStart, PlayPrevious, incoming, ams
  <2> QED
    BY <2>1, <2>2, PlaySame
<1>5. CASE DownloadFinish
  <2>1. NoNew(Played)
    BY <1>5, TaskNoNew DEF Task, Own, Played
  <2>2. plays # <<>> => plays' # <<>> /\ Head(plays') = Head(plays)
    <3>1. ASSUME NEW a, plays' = Append(plays, a), plays # <<>>
          PROVE  plays' # <<>> /\ Head(plays') = Head(plays)
      BY <1>l, <3>1
    <3> QED
      BY <1>5, <3>1 DEF DownloadFinish
  <2> QED
    BY <1>5, <2>1, <2>2, PlaySame DEF DownloadFinish, ams
<1>6. CASE Press \/ Release \/ KeyHeld \/ Tick \/ Obey \/ Uploaded \/ Push
  <2>1. NoNew(Played)
    BY <1>6, EventsNoNew DEF Played
  <2>2. UNCHANGED <<plays, songs>>
    BY <1>6 DEF Press, Release, KeyHeld, Tick, Obey, Uploaded, Push, incoming, ams
  <2> QED
    BY <2>1, <2>2, PlaySame
<1>7. ASSUME NEW v \in Voices, RecordVerdict(v) PROVE PlayAnswerIsOwn'
  <2>1. NoNew(Played)
    BY <1>7, RecordVerdictNoNew DEF Played
  <2> QED
    BY <1>7, <2>1, PlaySame DEF RecordVerdict, incoming
<1>8. CASE Downloaded
  <2>1. NoNew(Played)
    BY <1>8, DownloadedNoNew DEF Played
  <2> QED
    BY <1>8, <2>1, PlaySame DEF Downloaded, incoming, ams
<1> QED
  BY <1>1, <1>2, <1>3, <1>4, <1>5, <1>6, <1>7, <1>8 DEF Next, Task, Others

-----------------------------------------------------------------------------
(* THE ANSWER OF THE DOWNLOAD SERVER.                                       *)
Fetched == {"DOWNLOAD_FINISH"}

LEMMA FetchSame ==
  ASSUME DownloadAnswerIsOwn, NoNew(Fetched), UNCHANGED to_download,
         downloads # <<>> => downloads' # <<>> /\ Head(downloads') = Head(downloads)
  PROVE  DownloadAnswerIsOwn'
<1>1. CASE Pending(queue, Fetched) = {}
  <2>1. Pending(queue', Fetched) = {}
    BY <1>1 DEF NoNew
  <2> QED
    BY <2>1 DEF DownloadAnswerIsOwn, Fetched, AtMostOne
<1>2. CASE Pending(queue, Fetched) # {}
  BY <1>2 DEF DownloadAnswerIsOwn, NoNew, Fetched
<1> QED
  BY <1>1, <1>2

LEMMA DownloadKept ==
  ASSUME TypeOK, DownloadAnswerIsOwn, Next
  PROVE  DownloadAnswerIsOwn'
<1>l. downloads \in Seq(Message) /\ to_download \in Seq(Messages)
  BY DEF TypeOK
<1>1. CASE DownloadStart
  <2>1. queue # <<>> /\ queue' = Tail(queue)
    BY <1>1 DEF DownloadStart, Take
  <2>2. NoNew(Fetched)
    BY <2>1, TakeNoNew
  <2>3. CASE ~(downloads # <<>> /\ Idle(Head(downloads)))
    BY <1>1, <2>2, <2>3, FetchSame DEF DownloadStart
  <2>4. CASE downloads # <<>> /\ Idle(Head(downloads))
    <3>1. to_download = <<>> /\ Pending(queue, Fetched) = {}
      BY <2>4 DEF DownloadAnswerIsOwn, Idle, Fetched
    <3>2. /\ to_download' = <<Head(downloads).msg>>
          /\ downloads' = [downloads EXCEPT ![1].state = "START_DOWNLOAD"]
      BY <1>1, <2>4, <3>1 DEF DownloadStart
    <3>3. Pending(queue', Fetched) = {}
      BY <2>2, <3>1 DEF NoNew
    <3>4. downloads' # <<>> /\ Head(downloads') = [msg |-> Head(downloads).msg, state |-> "START_DOWNLOAD"]
      <4>0. Head(downloads) = downloads[1] /\ downloads[1] \in Message /\ 1 \in DOMAIN downloads
        BY <1>l, <2>4
      <4>1. [downloads EXCEPT ![1].state = "START_DOWNLOAD"] \in Seq(Message)
        BY <1>l, <2>4, <4>0, MessageLists
      <4>2. downloads' # <<>> /\ Head(downloads') = [downloads[1] EXCEPT !.state = "START_DOWNLOAD"]
        BY <1>l, <2>4, <3>2, <4>0, <4>1
      <4> QED
        BY <4>0, <4>2 DEF Message
    <3>5. Len(to_download') <= 1 /\ Head(to_download') = Head(downloads).msg
      BY <3>2
    <3> QED
      BY <3>3, <3>4, <3>5 DEF DownloadAnswerIsOwn, Fetched, AtMostOne
  <2> QED
    BY <2>3, <2>4
<1>2. CASE DownloadFinish
  <2>1. /\ queue # <<>> /\ Head(queue).cmd \in Fetched /\ to_download' = to_download
        /\ queue' = Tail(queue) \/ queue' = Post(Tail(queue), "DOWNLOAD_START", None)
    BY <1>2 DEF DownloadFinish, Take, Fetched, servers, Remain
  <2>2. AtMostOne(Pending(queue, Fetched))
    BY DEF DownloadAnswerIsOwn, Fetched
  <2>3. Pending(queue, Fetched) # {} /\ Pending(queue', Fetched) = {}
    BY <2>1, <2>2, TakeOwn DEF Own, Fetched
  <2>4. to_download' = <<>>
    BY <2>1, <2>3 DEF DownloadAnswerIsOwn, Fetched
  <2> QED
    BY <2>3, <2>4 DEF DownloadAnswerIsOwn, Fetched, AtMostOne
<1>3. CASE Downloaded
  <2>1. PICK result \in {"LOAD_SUCC", "FAILED"} : queue' = Post(queue, "DOWNLOAD_FINISH", result)
    BY <1>3 DEF Downloaded
  <2>2. [cmd |-> "DOWNLOAD_FINISH", param |-> result] \in Command
    BY DEF Command, Results
  <2>3. /\ to_download # <<>> /\ Len(to_download) <= 1 /\ Pending(queue, Fetched) = {}
        /\ downloads # <<>> /\ Head(downloads).state = "START_DOWNLOAD"
    BY <1>3 DEF Downloaded, DownloadAnswerIsOwn, Fetched
  <2>4. to_download' = <<>> /\ downloads' = downloads
    BY <1>3, <1>l, <2>3 DEF Downloaded, incoming
  <2>5. AtMostOne(Pending(queue', Fetched))
    BY <2>1, <2>2, <2>3, PostOwn
  <2> QED
    BY <2>3, <2>4, <2>5 DEF DownloadAnswerIsOwn, Fetched
<1>4. CASE RecvMsg
  <2>1. NoNew(Fetched)
    BY <1>4, TaskNoNew DEF Task, Own, Fetched
  <2>2. downloads # <<>> => downloads' # <<>> /\ Head(downloads') = Head(downloads)
    <3>1. ASSUME NEW a, downloads' = Append(downloads, a), downloads # <<>>
          PROVE  downloads' # <<>> /\ Head(downloads') = Head(downloads)
      BY <1>l, <3>1
    <3> QED
      BY <1>4, <3>1 DEF RecvMsg
  <2> QED
    BY <1>4, <2>1, <2>2, FetchSame DEF RecvMsg, servers
<1>5. CASE \/ RecordStart \/ RecordCall \/ RecordError \/ RecordFinish \/ UploadStart \/ UploadFinish
           \/ PlayStart \/ PlayFinish \/ PlayError \/ PlayPrevious
  <2>1. NoNew(Fetched)
    BY <1>5, TaskNoNew DEF Task, Own, Fetched
  <2>2. UNCHANGED <<downloads, to_download>>
    BY <1>5 DEF RecordStart, RecordCall, RecordError, RecordFinish, UploadStart, UploadFinish,
      PlayStart, PlayFinish, PlayError, PlayPrevious, incoming, servers
  <2> QED
    BY <2>1, <2>2, FetchSame
<1>6. CASE Press \/ Release \/ KeyHeld \/ Tick \/ Obey \/ Uploaded \/ Push
  <2>1. NoNew(Fetched)
    BY <1>6, EventsNoNew DEF Fetched
  <2>2. UNCHANGED <<downloads, to_download>>
    BY <1>6 DEF Press, Release, KeyHeld, Tick, Obey, Uploaded, Push, incoming, servers
  <2> QED
    BY <2>1, <2>2, FetchSame
<1>7. ASSUME NEW v \in Voices, RecordVerdict(v) PROVE DownloadAnswerIsOwn'
  <2>1. NoNew(Fetched)
    BY <1>7, RecordVerdictNoNew DEF Fetched
  <2> QED
    BY <1>7, <2>1, FetchSame DEF RecordVerdict, incoming, servers
<1>8. ASSUME NEW m \in Messages, PlayVerdict(m) PROVE DownloadAnswerIsOwn'
  <2>1. NoNew(Fetched)
    BY <1>8, PlayVerdictNoNew DEF Fetched
  <2> QED
    BY <1>8, <2>1, FetchSame DEF PlayVerdict, incoming, servers
<1> QED
  BY <1>1, <1>2, <1>3, <1>4, <1>5, <1>6, <1>7, <1>8 DEF Next, Task, Others

-----------------------------------------------------------------------------
(* THE THEOREMS.                                                            *)
IInv == TypeOK /\ RecordAnswerIsOwn /\ PlayAnswerIsOwn /\ DownloadAnswerIsOwn

LEMMA TypeKept ==
  ASSUME TypeOK, RecordAnswerIsOwn, Next
  PROVE  TypeOK'
<1>1. task = "record" => recording # None
  BY DEF RecordAnswerIsOwn
<1> QED
  BY <1>1, RecordingTypes, SendingTypes, DownloadTypes, PlayTypes, OtherTypes DEF Next, Task

LEMMA Stutters ==
  ASSUME IInv, UNCHANGED vars
  PROVE  IInv'
<1> USE DEF IInv, vars, sending, incoming, timers, ams, servers, counts
<1>1. TypeOK'
  BY DEF TypeOK
<1>2. RecordAnswerIsOwn'
  BY DEF RecordAnswerIsOwn
<1>3. PlayAnswerIsOwn' /\ DownloadAnswerIsOwn'
  BY DEF PlayAnswerIsOwn, DownloadAnswerIsOwn
<1> QED
  BY <1>1, <1>2, <1>3

LEMMA InitHolds ==
  ASSUME Init
  PROVE  IInv
<1>1. \A S : Pending(queue, S) = {}
  BY DEF Init, Pending
<1>2. /\ queue \in Seq(Command) /\ Len(queue) <= QueueSize
      /\ uploads \in Seq(Voice) /\ downloads \in Seq(Message) /\ plays \in Seq(Message)
      /\ to_upload \in Seq(Voices) /\ to_download \in Seq(Messages) /\ Len(to_download) <= 1
  BY WeChatAssumption DEF Init
<1>3. TypeOK
  BY <1>2, WeChatAssumption DEF Init, TypeOK
<1>4. RecordAnswerIsOwn /\ PlayAnswerIsOwn /\ DownloadAnswerIsOwn
  BY <1>1, <1>2 DEF Init, RecordAnswerIsOwn, PlayAnswerIsOwn, DownloadAnswerIsOwn, AtMostOne
<1> QED
  BY <1>3, <1>4 DEF IInv

(* Whatever AMS, the servers and the timers do and whatever is lost in a    *)
(* full queue of wechat_task: the three agreements between the lists of     *)
(* wechat.c and the work the others do for it hold together.                *)
THEOREM Inductive == Spec => []IInv
<1>1. Init => IInv
  BY InitHolds
<1>2. IInv /\ [Next]_vars => IInv'
  <2>1. ASSUME IInv, Next PROVE IInv'
    BY <2>1, TypeKept, RecordKept, PlayKept, DownloadKept DEF IInv
  <2> QED
    BY <2>1, Stutters
<1> QED
  BY <1>1, <1>2, PTL DEF Spec

(* The state of wechat.c stays within its types.                            *)
THEOREM TypeCorrect == Spec => []TypeOK
<1>1. IInv => TypeOK
  BY DEF IInv
<1> QED
  BY <1>1, Inductive, PTL

(* A verdict wechat_audio_record_cb passes on is that of the recording that *)
(* WECHAT_RECORD_ERROR frees, saves or begins again.                        *)
THEOREM RecordAnswers == Spec => []RecordAnswerIsOwn
<1>1. IInv => RecordAnswerIsOwn
  BY DEF IInv
<1> QED
  BY <1>1, Inductive, PTL

(* A verdict wechat_audio_play_cb passes on is that of the message that     *)
(* WECHAT_PLAY_FINISH deletes or WECHAT_PLAY_ERROR offers again.            *)
THEOREM PlayAnswers == Spec => []PlayAnswerIsOwn
<1>1. IInv => PlayAnswerIsOwn
  BY DEF IInv
<1> QED
  BY <1>1, Inductive, PTL

(* An answer of the download server is that of the message that             *)
(* WECHAT_DOWNLOAD_FINISH announces or puts back.                           *)
THEOREM DownloadAnswers == Spec => []DownloadAnswerIsOwn
<1>1. IInv => DownloadAnswerIsOwn
  BY DEF IInv
<1> QED
  BY <1>1, Inductive, PTL
=============================================================================
