-------------------------- MODULE AudioManagerProofs --------------------------
(* Invariants of AudioManager and its refinement of AudioFocus, proved for   *)
(* any clients, caps and bounds.                                            *)
EXTENDS AudioManager, SequenceTheorems, TLAPS

(* What an event holds, by its kind. *)
LEMMA EventParts ==
  ASSUME NEW e \in Event
  PROVE  /\ e[1] = "command" => e[2] \in Command
         /\ e[1] = "status" => e[2] \in Statuses
  BY DEF Event

LEMMA NewCommand ==
  ASSUME TypeOK, NEW r \in Requests, Len(log) < MaxCommands
  PROVE  Numbered(r) \in Command
  BY CommandAssumption, ManagerAssumption DEF TypeOK, Command, Request, Ids, Numbered

(* One event leaves the inbox. *)
LEMMA InboxTail ==
  ASSUME TypeOK, inbox # <<>>
  PROVE  Tail(inbox) \in Seq(Event) /\ Head(inbox) \in Event
  BY DEF TypeOK

LEMMA SettleType ==
  ASSUME TypeOK, NEW ids, Settle(ids)
  PROVE  told' \in [Ids -> Nat]
  BY DEF TypeOK, Settle

LEMMA AskType ==
  ASSUME TypeOK, NEW r \in Requests, Ask(r)
  PROVE  TypeOK'
<1>1. <<"command", Numbered(r)>> \in Event
  BY NewCommand DEF Ask, Event
<1>2. inbox' \in Seq(Event)
  <2>1. inbox' = inbox \/ inbox' = Append(inbox, <<"command", Numbered(r)>>)
    BY DEF Ask
  <2>2. \A e \in Event : Append(inbox, e) \in Seq(Event)
    BY AppendProperties DEF TypeOK
  <2>3. QED
    BY <1>1, <2>1, <2>2, Zenon DEF TypeOK
<1>3. r \in Request
  BY ManagerAssumption
<1>4. log' = Append(log, r) \/ log' = Append(log, None)
  BY DEF Ask
<1>5. log \in Seq(Request \cup {None}) /\ Len(log) < MaxCommands
  BY DEF Ask, TypeOK
<1>6. log' \in Seq(Request \cup {None}) /\ Len(log') = Len(log) + 1
  BY <1>3, <1>4, <1>5, AppendProperties
<1>7. Len(log') \in 0..MaxCommands
  BY <1>5, <1>6, CommandAssumption
<1>8. UNCHANGED <<at, head, state, current, type, music_lock, amp, run_mutex, stop_mutex,
                  record_queue, recorder, job, exceed, player, mic, blocking, told, late_pause>>
  BY DEF Ask, manager, power, mutexes, thread, library
<1>9. QED
  BY <1>2, <1>6, <1>7, <1>8 DEF TypeOK

LEMMA TakeCommandType ==
  ASSUME TypeOK, TakeCommand
  PROVE  TypeOK'
<1>1. Head(inbox)[2] \in Command
  BY InboxTail, EventParts DEF TakeCommand
<1>2. head' \in Seq(Command) /\ inbox' \in Seq(Event)
  BY <1>1, InboxTail DEF TakeCommand, TypeOK
<1>3. QED
  BY <1>2 DEF TakeCommand, TypeOK, power, mutexes, thread, library, history

(* A report leaves the recorder, the library's mic and the history alone. *)
LEMMA ReportType ==
  ASSUME TypeOK, NEW ss, NEW rs, Report(ss, rs)
  PROVE  /\ inbox' \in Seq(Event) /\ at' \in {"select", "execute", "join"}
         /\ UNCHANGED <<head, record_queue, recorder, job, exceed, mic, blocking, log,
                         stop_mutex>>
  BY InboxTail DEF Report, thread

LEMMA TakeStatusType ==
  ASSUME TypeOK, TakeStatus
  PROVE  TypeOK'
<1>1. /\ inbox' \in Seq(Event) /\ at' \in {"select", "execute", "join"}
      /\ UNCHANGED <<head, record_queue, recorder, job, exceed, mic, blocking, log,
                      stop_mutex>>
  BY ReportType DEF TakeStatus, Begun, PlayEnded, RecordEnded, Stopped, ToneEnded, Unexpected
<1>2. /\ state' \in States /\ current' \in Command \cup {None}
      /\ type' \in {"SONG", "TONE", "UNDEFINE"}
      /\ music_lock' \in BOOLEAN /\ amp' \in BOOLEAN
      /\ run_mutex' \in {"free", "ams"}
      /\ player' \in {"off", "starting", "on", "pausing", "paused", "resuming", "stopping"}
      /\ late_pause' \in BOOLEAN
  <2>1. CASE Begun
    BY <2>1 DEF Begun, TypeOK, States, power
  <2>2. CASE PlayEnded
    BY <2>2 DEF PlayEnded, Release, TypeOK, States
  <2>3. CASE RecordEnded
    BY <2>3 DEF RecordEnded, Release, GiveRun, TypeOK, States, power
  <2>4. CASE Stopped
    BY <2>4 DEF Stopped, Release, TypeOK, States, power
  <2>5. CASE ToneEnded
    BY <2>5 DEF ToneEnded, Release, Play, HoldLock, TypeOK, States, power
  <2>6. CASE Unexpected
    BY <2>6 DEF Unexpected, TypeOK, power
  <2>7. QED
    BY <2>1, <2>2, <2>3, <2>4, <2>5, <2>6 DEF TakeStatus
<1>3. told' \in [Ids -> Nat]
  <2>1. (\E ids : Settle(ids)) \/ told' = told
    BY DEF TakeStatus, Begun, PlayEnded, RecordEnded, Stopped, ToneEnded, Unexpected
  <2>2. QED
    BY <2>1, SettleType DEF TypeOK
<1>4. QED
  BY <1>1, <1>2, <1>3 DEF TypeOK

LEMMA StopType ==
  ASSUME TypeOK, NEW ids, Stop(ids)
  PROVE  /\ state' \in States
         /\ music_lock' \in BOOLEAN /\ amp' \in BOOLEAN
         /\ player' \in {"off", "starting", "on", "pausing", "paused", "resuming", "stopping"}
         /\ told' \in [Ids -> Nat]
<1>1. told' \in [Ids -> Nat]
  BY SettleType DEF Stop
<1>2. QED
  BY <1>1 DEF Stop, AfterStop, StopOf, TypeOK, States, power

LEMMA StartType ==
  ASSUME TypeOK, NEW c \in Command, Start(c)
  PROVE  /\ state' \in States
         /\ current' \in Command \cup {None}
         /\ type' \in {"SONG", "TONE", "UNDEFINE"}
         /\ music_lock' \in BOOLEAN /\ amp' \in BOOLEAN
         /\ run_mutex' \in {"free", "ams"}
         /\ record_queue' \in Seq(Command)
         /\ player' \in {"off", "starting", "on", "pausing", "paused", "resuming", "stopping"}
         /\ late_pause' \in BOOLEAN
<1>1. CASE c.msg = "PLAY_START"
  <2>1. [c EXCEPT !.tone = FALSE] \in Command
    BY DEF Command
  <2>2. QED
    BY <1>1, <2>1 DEF Start, Play, HoldLock, TypeOK, States, power
<1>2. CASE c.msg = "RECORD_START"
  <2>1. record_queue' = Append(record_queue, c)
    BY <1>2 DEF Start
  <2>2. record_queue' \in Seq(Command)
    BY <2>1, AppendProperties DEF TypeOK
  <2>3. QED
    BY <1>2, <2>2 DEF Start, TypeOK, States, power
<1>3. QED
  BY <1>1, <1>2 DEF Start

LEMMA ExecuteType ==
  ASSUME TypeOK, Execute
  PROVE  TypeOK'
<1> USE DEF Decide
<1>1. CASE Postpone
  BY <1>1 DEF Postpone, TypeOK, manager, power, mutexes, thread, library, history
<1>2. CASE LetRecorderGo
  BY <1>2 DEF LetRecorderGo, GiveRun, TypeOK, manager, power, thread, library, history
<1>3. CASE StartIdle
  <2>1. PICK i \in DOMAIN head : Start(head[i]) /\ Settle(Refused(i))
    BY <1>3 DEF StartIdle
  <2>2. head[i] \in Command
    BY <2>1 DEF TypeOK
  <2>3. told' \in [Ids -> Nat]
    BY <2>1, SettleType
  <2>4. head' \in Seq(Command)
    BY <1>3 DEF StartIdle, EmptyList
  <2>5. UNCHANGED <<inbox, stop_mutex, recorder, job, exceed, mic, blocking, log>> /\ at' = "select"
    BY <1>3 DEF StartIdle
  <2>6. QED
    BY <2>1, <2>2, <2>3, <2>4, <2>5, StartType DEF TypeOK
<1>4. CASE TakeOver
  <2>1. PICK i \in DOMAIN head : /\ head' \in {<<>>, <<head[i]>>}
                                 /\ Stop(StartIds(head)) \/ Stop(Refused(i))
    BY <1>4 DEF TakeOver, EmptyList
  <2>2. head' \in Seq(Command)
    <3>1. head[i] \in Command
      BY <2>1 DEF TypeOK
    <3>2. <<head[i]>> \in Seq(Command) /\ <<>> \in Seq(Command)
      BY <3>1
    <3>3. QED
      BY <2>1, <3>2, Zenon
  <2>3. UNCHANGED <<inbox, stop_mutex, recorder, job, exceed, mic, blocking, log,
                    current, type, run_mutex, record_queue, late_pause>> /\ at' = "select"
    BY <1>4 DEF TakeOver
  <2>4. QED
    BY <2>1, <2>2, <2>3, StopType DEF TypeOK
<1>5. CASE StopOnRequest
  <2>1. Stop({}) /\ head' = <<>>
    BY <1>5 DEF StopOnRequest, EmptyList
  <2>2. UNCHANGED <<inbox, stop_mutex, recorder, job, exceed, mic, blocking, log,
                    current, type, run_mutex, record_queue, late_pause>> /\ at' = "select"
    BY <1>5 DEF StopOnRequest
  <2>3. QED
    BY <2>1, <2>2, StopType DEF TypeOK
<1>6. CASE Pause
  <2>1. player' \in {"off", "starting", "on", "pausing", "paused", "resuming", "stopping"}
    BY <1>6 DEF Pause, PauseOf, TypeOK
  <2>2. head' \in Seq(Command)
    BY <1>6 DEF Pause, EmptyList
  <2>3. UNCHANGED <<inbox, stop_mutex, recorder, job, exceed, mic, blocking, log,
                    current, type, amp, run_mutex, record_queue, told>>
    BY <1>6 DEF Pause
  <2>4. at' = "select" /\ state' = "PAUSE_PLAY" /\ music_lock' = FALSE
    BY <1>6 DEF Pause
  <2>5. state' \in States /\ at' \in {"select", "execute", "join"} /\ music_lock' \in BOOLEAN
    BY <2>4 DEF States
  <2>6. late_pause' \in BOOLEAN
    BY <1>6 DEF Pause, TypeOK
  <2>7. QED
    BY <2>1, <2>2, <2>3, <2>5, <2>6 DEF TypeOK
<1>7. CASE Resume
  <2>1. player' \in {"off", "starting", "on", "pausing", "paused", "resuming", "stopping"}
    BY <1>7 DEF Resume, ResumeOf, TypeOK
  <2>2. head' \in Seq(Command)
    BY <1>7 DEF Resume, EmptyList
  <2>3. UNCHANGED <<inbox, stop_mutex, recorder, job, exceed, mic, blocking, log,
                    current, type, amp, run_mutex, record_queue, told, late_pause>>
    BY <1>7 DEF Resume
  <2>4. at' = "select" /\ state' = "PLAYING" /\ music_lock' = TRUE
    BY <1>7 DEF Resume, AfterResume, HoldLock
  <2>5. state' \in States /\ at' \in {"select", "execute", "join"} /\ music_lock' \in BOOLEAN
    BY <2>4 DEF States
  <2>6. QED
    BY <2>1, <2>2, <2>3, <2>5 DEF TypeOK
<1>8. CASE IgnoreAll
  <2>1. told' \in [Ids -> Nat]
    BY <1>8, SettleType DEF IgnoreAll
  <2>2. QED
    BY <1>8, <2>1 DEF IgnoreAll, EmptyList, TypeOK, power
<1>9. QED
  BY <1>1, <1>2, <1>3, <1>4, <1>5, <1>6, <1>7, <1>8 DEF Execute

LEMMA RecordThreadType ==
  ASSUME TypeOK, RecordThread
  PROVE  TypeOK'
<1>1. inbox' \in Seq(Event)
  <2>1. inbox' = inbox \/ inbox' = Append(inbox, <<"status", "ERROR">>)
    BY DEF RecordThread, RecorderBegin, RecorderOpen, RecorderTold, RecorderEnough,
           RecorderFails, RecorderClose, RecorderUnlock, SelfReportError
  <2>2. <<"status", "ERROR">> \in Event
    BY DEF Event, Statuses
  <2>3. Append(inbox, <<"status", "ERROR">>) \in Seq(Event)
    BY <2>2, AppendProperties DEF TypeOK
  <2>4. QED
    BY <2>1, <2>3 DEF TypeOK
<1>2. UNCHANGED <<at, head, state, current, type, music_lock, amp, run_mutex, player,
                  blocking, log, told, late_pause>>
  BY DEF RecordThread, RecorderBegin, RecorderOpen, RecorderTold, RecorderEnough,
         RecorderFails, RecorderClose, RecorderUnlock, RecorderStep, manager, power, history
<1>3. /\ recorder' \in {"wait", "lock", "raw", "close", "unlock"}
      /\ stop_mutex' \in {"free", "recorder"}
      /\ mic' \in {"off", "starting", "on", "stopping"}
      /\ exceed' \in BOOLEAN
  BY DEF RecordThread, RecorderBegin, RecorderOpen, RecorderTold, RecorderEnough,
         RecorderFails, RecorderClose, RecorderUnlock, RecorderStep, StopOf, TypeOK
<1>4. record_queue' \in Seq(Command) /\ job' \in Command \cup {None}
  <2>1. CASE RecorderBegin
    BY <2>1 DEF RecorderBegin, TypeOK
  <2>2. CASE ~RecorderBegin
    BY <2>2 DEF RecordThread, RecorderOpen, RecorderTold, RecorderEnough,
                RecorderFails, RecorderClose, RecorderUnlock, TypeOK
  <2>3. QED
    BY <2>1, <2>2
<1>5. QED
  BY <1>1, <1>2, <1>3, <1>4 DEF TypeOK

LEMMA LibraryType ==
  ASSUME TypeOK, Library
  PROVE  TypeOK'
<1>1. PICK s \in Statuses : Emit(s)
  BY DEF Library, PlayerObeys, PlayerFinishes, PlayerFails, MicObeys, MicFails,
         PlayerTurn, MicTurn, Statuses
<1>2. inbox' \in Seq(Event)
  <2>1. <<"status", s>> \in Event
    BY DEF Event
  <2>2. Append(inbox, <<"status", s>>) \in Seq(Event)
    BY <2>1, AppendProperties DEF TypeOK
  <2>3. QED
    BY <1>1, <2>2 DEF Emit
<1>3. UNCHANGED <<at, head, state, current, type, music_lock, amp, run_mutex, stop_mutex,
                  record_queue, recorder, job, exceed, log, told, late_pause>>
  BY <1>1 DEF Emit, manager, power, mutexes, thread, history
<1>4. /\ player' \in {"off", "starting", "on", "pausing", "paused", "resuming", "stopping"}
      /\ mic' \in {"off", "starting", "on", "stopping"}
      /\ blocking' \in BOOLEAN
  BY DEF Library, PlayerObeys, PlayerFinishes, PlayerFails, MicObeys, MicFails,
         PlayerTurn, MicTurn, TypeOK
<1>5. QED
  BY <1>2, <1>3, <1>4 DEF TypeOK

LEMMA InitType == Init => TypeOK
<1> SUFFICES ASSUME Init PROVE TypeOK
  OBVIOUS
<1>1. log \in Seq(Request \cup {None}) /\ Len(log) \in 0..MaxCommands
  BY CommandAssumption DEF Init
<1>2. told \in [Ids -> Nat]
  BY DEF Init
<1>3. inbox \in Seq(Event) /\ head \in Seq(Command) /\ record_queue \in Seq(Command)
  BY DEF Init
<1>4. QED
  BY <1>1, <1>2, <1>3 DEF Init, TypeOK, States

LEMMA NextType == TypeOK /\ [Next]_vars => TypeOK'
<1> SUFFICES ASSUME TypeOK, [Next]_vars PROVE TypeOK'
  OBVIOUS
<1>1. ASSUME NEW r \in Requests, Ask(r) PROVE TypeOK'
  BY <1>1, AskType
<1>2. CASE AMS
  BY <1>2, TakeCommandType, TakeStatusType, ExecuteType DEF AMS
<1>3. CASE RecordThread
  BY <1>3, RecordThreadType
<1>4. CASE Library
  BY <1>4, LibraryType
<1>5. CASE BlockingFlips
  BY <1>5 DEF BlockingFlips, TypeOK, manager, power, mutexes, thread, history
<1>6. CASE UNCHANGED vars
  BY <1>6 DEF vars, TypeOK, manager, power, mutexes, thread, library, history
<1>7. QED
  BY <1>1, <1>2, <1>3, <1>4, <1>5, <1>6 DEF Next

(* Every variable keeps its type: what AMS dereferences, as the command at   *)
(* the head of its list or the current one, is a command.                   *)
THEOREM TypeCorrect == Spec => []TypeOK
  BY InitType, NextType, PTL DEF Spec

-----------------------------------------------------------------------------
(* AMS waits for the record thread only while it records; with that, the    *)
(* ownership is inductive.                                                  *)
OwnershipInv ==
  /\ TypeOK
  /\ at = "join" => state = "RECORDING"
  /\ Ownership

OwnerVars == <<at, state, current>>

(* The steps of the clients, the record thread and the library leave the    *)
(* owner alone.                                                             *)
LEMMA OthersKeepOwner ==
  ASSUME Next, ~AMS
  PROVE  UNCHANGED OwnerVars
<1>1. ASSUME NEW r \in Requests, Ask(r) PROVE UNCHANGED OwnerVars
  BY <1>1 DEF Ask, OwnerVars, manager
<1>2. CASE RecordThread
  BY <1>2 DEF RecordThread, RecorderBegin, RecorderOpen, RecorderTold, RecorderEnough,
    RecorderFails, RecorderClose, RecorderUnlock, RecorderStep, OwnerVars, manager
<1>3. CASE Library
  BY <1>3 DEF Library, PlayerObeys, PlayerFinishes, PlayerFails, MicObeys, MicFails,
    PlayerTurn, MicTurn, Emit, OwnerVars, manager
<1>4. CASE BlockingFlips
  BY <1>4 DEF BlockingFlips, OwnerVars, manager
<1>5. QED
  BY <1>1, <1>2, <1>3, <1>4 DEF Next

LEMMA EventsKeepOwnership ==
  ASSUME OwnershipInv, TakeCommand \/ TakeStatus
  PROVE  (at' = "join" => state' = "RECORDING") /\ Ownership'
<1>1. at' = "execute"
  BY DEF TakeCommand, TakeStatus, Begun, PlayEnded, RecordEnded, Stopped, ToneEnded,
         Unexpected, Report
<1>2. CASE state' = state /\ current' = current
  BY <1>1, <1>2 DEF OwnershipInv, Ownership
<1>3. CASE Release
  BY <1>1, <1>3 DEF Release, Ownership, PlayStates, RecordStates
<1>4. CASE Begun
  BY <1>1, <1>4 DEF Begun, Report, OwnershipInv, Ownership, PlayStates, RecordStates
<1>5. CASE ToneEnded /\ Play
  BY <1>1, <1>5 DEF ToneEnded, Play, Report, OwnershipInv, Ownership, PlayStates, RecordStates, Release
<1>6. QED
  BY <1>1, <1>2, <1>3, <1>4, <1>5
     DEF TakeCommand, TakeStatus, PlayEnded, RecordEnded, Stopped, ToneEnded, Unexpected

LEMMA StopKeepsOwnership ==
  ASSUME OwnershipInv, NEW ids, Stop(ids), current' = current
  PROVE  Ownership'
  BY DEF OwnershipInv, Ownership, Stop, AfterStop, PlayStates, RecordStates

LEMMA StartKeepsOwnership ==
  ASSUME OwnershipInv, current = None, NEW c \in Command, Start(c)
  PROVE  Ownership'
<1>1. c # None /\ [c EXCEPT !.tone = FALSE] # None /\ [c EXCEPT !.tone = FALSE].msg = c.msg
  <2>1. [c EXCEPT !.tone = FALSE] \in Command /\ [c EXCEPT !.tone = FALSE].msg = c.msg
    BY DEF Command
  <2>2. QED
    BY <2>1, ManagerAssumption
<1>2. CASE c.msg = "PLAY_START"
  BY <1>1, <1>2 DEF Start, Play, OwnershipInv, Ownership, PlayStates, RecordStates
<1>3. CASE c.msg = "RECORD_START"
  BY <1>1, <1>3 DEF Start, OwnershipInv, Ownership, PlayStates, RecordStates
<1>4. QED
  BY <1>2, <1>3 DEF Start

LEMMA ExecuteKeepsOwnership ==
  ASSUME OwnershipInv, Execute
  PROVE  (at' = "join" => state' = "RECORDING") /\ Ownership'
<1>1. CASE Postpone
  BY <1>1 DEF Postpone, manager, OwnershipInv, Ownership
<1>2. CASE LetRecorderGo
  BY <1>2 DEF LetRecorderGo, manager, OwnershipInv, Ownership
<1>3. CASE StartIdle
  <2>1. PICK i \in DOMAIN head : Start(head[i])
    BY <1>3 DEF StartIdle
  <2>2. head[i] \in Command
    BY <2>1 DEF OwnershipInv, TypeOK
  <2>3. current = None /\ at' = "select"
    BY <1>3 DEF StartIdle, Decide
  <2>4. QED
    BY <2>1, <2>2, <2>3, StartKeepsOwnership
<1>4. CASE TakeOver \/ StopOnRequest
  <2>1. at' = "select" /\ current' = current
    BY <1>4 DEF TakeOver, StopOnRequest, Decide
  <2>2. \E ids : Stop(ids)
    BY <1>4 DEF TakeOver, StopOnRequest
  <2>3. QED
    BY <2>1, <2>2, StopKeepsOwnership
<1>5. CASE Pause
  <2>1. state = "PLAYING" /\ current # None
    BY <1>5 DEF Pause, Wants
  <2>2. at' = "select" /\ state' = "PAUSE_PLAY" /\ current' = current
    BY <1>5 DEF Pause, Decide
  <2>3. QED
    BY <2>1, <2>2 DEF OwnershipInv, Ownership, PlayStates, RecordStates
<1>6. CASE Resume
  <2>1. state = "PAUSE_PLAY" /\ current # None
    BY <1>6 DEF Resume, Wants
  <2>2. at' = "select" /\ state' = "PLAYING" /\ current' = current
    BY <1>6 DEF Resume, AfterResume, Decide
  <2>3. QED
    BY <2>1, <2>2 DEF OwnershipInv, Ownership, PlayStates, RecordStates
<1>7. CASE IgnoreAll
  BY <1>7 DEF IgnoreAll, Decide, OwnershipInv, Ownership
<1>8. QED
  BY <1>1, <1>2, <1>3, <1>4, <1>5, <1>6, <1>7 DEF Execute

LEMMA OwnershipInductive == OwnershipInv /\ [Next]_vars => OwnershipInv'
<1> SUFFICES ASSUME OwnershipInv, [Next]_vars PROVE OwnershipInv'
  OBVIOUS
<1>1. TypeOK'
  BY NextType DEF OwnershipInv
<1>2. CASE UNCHANGED OwnerVars
  BY <1>1, <1>2 DEF OwnerVars, OwnershipInv, Ownership
<1>3. CASE AMS
  BY <1>1, <1>3, EventsKeepOwnership, ExecuteKeepsOwnership DEF AMS, OwnershipInv
<1>4. UNCHANGED vars => UNCHANGED OwnerVars
  BY DEF vars, manager, OwnerVars
<1>5. QED
  BY <1>2, <1>3, <1>4, OthersKeepOwner

(* Whatever the clients ask for and however the library and the record      *)
(* thread behave, with blocking and with failures of the microphone too, an *)
(* app owns the audio exactly while AMS is not idle.                        *)
THEOREM OwnershipHolds == Spec => []Ownership
<1>1. Init => OwnershipInv
  BY InitType DEF Init, OwnershipInv, Ownership, PlayStates, RecordStates
<1>2. OwnershipInv => Ownership
  BY DEF OwnershipInv
<1>3. QED
  BY <1>1, <1>2, OwnershipInductive, PTL DEF Spec

-----------------------------------------------------------------------------
(* Without blocking every playback that AMS starts, stops or loses takes    *)
(* the wake lock and the amplifier with it.                                 *)
PowerInv == OwnershipInv /\ blocking = FALSE /\ PowerFollowsPlayback

LEMMA EventsKeepPower ==
  ASSUME PowerInv, TakeCommand \/ TakeStatus
  PROVE  PowerFollowsPlayback' /\ blocking' = FALSE
<1>1. blocking' = FALSE
  BY DEF PowerInv, TakeCommand, TakeStatus, Begun, PlayEnded, RecordEnded, Stopped,
         ToneEnded, Unexpected, Report, library
<1> USE DEF PowerInv, PowerFollowsPlayback
<1>2. CASE TakeCommand
  BY <1>1, <1>2 DEF TakeCommand, power
<1>3. CASE Begun
  BY <1>1, <1>3 DEF Begun, Report, power
<1>4. CASE PlayEnded
  BY <1>1, <1>4 DEF PlayEnded, Release
<1>5. CASE RecordEnded
  BY <1>1, <1>5 DEF RecordEnded, Report, Release, power
<1>6. CASE Stopped
  BY <1>1, <1>6 DEF Stopped, Report, Release, power
<1>7. CASE ToneEnded
  BY <1>1, <1>7 DEF ToneEnded, Play, HoldLock
<1>8. CASE Unexpected
  BY <1>1, <1>8 DEF Unexpected, power
<1>9. QED
  BY <1>2, <1>3, <1>4, <1>5, <1>6, <1>7, <1>8 DEF TakeStatus

LEMMA ExecuteKeepsPower ==
  ASSUME PowerInv, Execute
  PROVE  PowerFollowsPlayback' /\ blocking' = FALSE
<1>1. blocking' = FALSE
  BY DEF PowerInv, Execute, Postpone, LetRecorderGo, StartIdle, TakeOver, StopOnRequest,
         Pause, Resume, IgnoreAll, Decide, library
<1> USE DEF PowerInv, PowerFollowsPlayback
<1>2. CASE Postpone \/ LetRecorderGo
  BY <1>1, <1>2 DEF Postpone, LetRecorderGo, manager, power
<1>3. CASE StartIdle
  <2>1. state = "IDLE" /\ \E c : Start(c)
    BY <1>3 DEF StartIdle, OwnershipInv, Ownership
  <2>2. QED
    BY <1>1, <2>1 DEF Start, Play, HoldLock, power
<1>4. CASE TakeOver \/ StopOnRequest
  <2>1. \E ids : Stop(ids)
    BY <1>4 DEF TakeOver, StopOnRequest
  <2>2. QED
    BY <1>1, <2>1 DEF Stop, AfterStop, power
<1>5. CASE Pause
  BY <1>1, <1>5 DEF Pause, Wants
<1>6. CASE Resume
  BY <1>1, <1>6 DEF Resume, AfterResume, HoldLock, Wants
<1>7. CASE IgnoreAll
  BY <1>1, <1>7 DEF IgnoreAll, power
<1>8. QED
  BY <1>1, <1>2, <1>3, <1>4, <1>5, <1>6, <1>7 DEF Execute

LEMMA OthersKeepPower ==
  ASSUME ~MayBlock, PowerInv, Next, ~AMS
  PROVE  UNCHANGED <<state, power, blocking>>
<1>1. ASSUME NEW r \in Requests, Ask(r) PROVE UNCHANGED <<state, power, blocking>>
  BY <1>1 DEF Ask, manager, library
<1>2. CASE RecordThread
  BY <1>2 DEF RecordThread, RecorderBegin, RecorderOpen, RecorderTold, RecorderEnough,
    RecorderFails, RecorderClose, RecorderUnlock, RecorderStep, manager
<1>3. CASE Library
  BY <1>3 DEF Library, PlayerObeys, PlayerFinishes, PlayerFails, MicObeys, MicFails,
    PlayerTurn, MicTurn, Emit, manager
<1>4. ~BlockingFlips
  BY DEF BlockingFlips
<1>5. QED
  BY <1>1, <1>2, <1>3, <1>4 DEF Next

(* As long as the library does not block, the music wake lock and the       *)
(* amplifier follow the playback, for any clients, record thread and        *)
(* microphone.                                                              *)
THEOREM PowerHolds ==
  ASSUME ~MayBlock
  PROVE  Spec => []PowerFollowsPlayback
<1>1. Init => PowerInv
  BY InitType DEF Init, PowerInv, PowerFollowsPlayback, OwnershipInv, Ownership, PlayStates,
                  RecordStates
<1>2. PowerInv /\ [Next]_vars => PowerInv'
  <2> SUFFICES ASSUME PowerInv, [Next]_vars PROVE PowerInv'
    OBVIOUS
  <2>1. OwnershipInv'
    BY OwnershipInductive DEF PowerInv
  <2>2. CASE UNCHANGED <<state, power, blocking>>
    BY <2>1, <2>2 DEF PowerInv, PowerFollowsPlayback, power
  <2>3. CASE AMS
    BY <2>1, <2>3, EventsKeepPower, ExecuteKeepsPower DEF AMS, PowerInv
  <2>4. UNCHANGED vars => UNCHANGED <<state, power, blocking>>
    BY DEF vars, manager, library
  <2>5. QED
    BY <2>2, <2>3, <2>4, OthersKeepPower
<1>3. PowerInv => PowerFollowsPlayback
  BY DEF PowerInv
<1>4. QED
  BY <1>1, <1>2, <1>3, PTL DEF Spec

-----------------------------------------------------------------------------
(* THE INBOX: what a step does to the commands and the reports that wait.   *)

LEMMA InboxElements ==
  ASSUME TypeOK
  PROVE  /\ Len(inbox) \in Nat /\ DOMAIN inbox = 1..Len(inbox)
         /\ \A i \in DOMAIN inbox : inbox[i] \in Event
  BY DEF TypeOK

(* An event that arrives is the last one. *)
LEMMA InboxAppend ==
  ASSUME TypeOK, NEW e \in Event, inbox' = Append(inbox, e)
  PROVE  /\ DOMAIN inbox' = 1..(Len(inbox) + 1)
         /\ \A i \in 1..Len(inbox) : inbox'[i] = inbox[i]
         /\ inbox'[Len(inbox) + 1] = e
         /\ \A kind : Waiting(kind)' =
              Waiting(kind) \cup (IF e[1] = kind THEN {Len(inbox) + 1} ELSE {})
<1>1. /\ inbox' \in Seq(Event) /\ Len(inbox') = Len(inbox) + 1
      /\ \A i \in 1..Len(inbox) : inbox'[i] = inbox[i]
      /\ inbox'[Len(inbox) + 1] = e
  BY AppendProperties DEF TypeOK
<1>2. DOMAIN inbox' = 1..(Len(inbox) + 1)
  BY <1>1
<1>3. ASSUME NEW kind
      PROVE  Waiting(kind)' = Waiting(kind) \cup (IF e[1] = kind THEN {Len(inbox) + 1} ELSE {})
  BY <1>1, <1>2, InboxElements DEF Waiting
<1>4. QED
  BY <1>1, <1>2, <1>3

(* The event AMS reads is the first, the others move up. *)
LEMMA InboxRead ==
  ASSUME TypeOK, inbox # <<>>, inbox' = Tail(inbox)
  PROVE  /\ Head(inbox) = inbox[1] /\ 1 \in DOMAIN inbox
         /\ \A i \in DOMAIN inbox' : i \in Nat /\ i >= 1 /\ i + 1 \in DOMAIN inbox
                                     /\ inbox'[i] = inbox[i + 1]
         /\ \A i \in DOMAIN inbox : i = 1 \/ i - 1 \in DOMAIN inbox'
         /\ \A kind : \A i \in Waiting(kind)' : i + 1 \in Waiting(kind) /\ i \in Nat /\ i >= 1
         /\ \A kind : \A i \in Waiting(kind) : i = 1 \/ i - 1 \in Waiting(kind)'
<1>1. /\ inbox' \in Seq(Event) /\ Len(inbox') = Len(inbox) - 1
      /\ \A i \in 1..Len(inbox') : inbox'[i] = inbox[i + 1]
  BY HeadTailProperties DEF TypeOK
<1>2. Len(inbox) \in Nat \ {0} /\ Head(inbox) = inbox[1]
  BY EmptySeq DEF TypeOK
<1>3. /\ \A i \in DOMAIN inbox' : i \in Nat /\ i >= 1 /\ i + 1 \in DOMAIN inbox
                                  /\ inbox'[i] = inbox[i + 1]
      /\ \A i \in DOMAIN inbox : i = 1 \/ i - 1 \in DOMAIN inbox'
  BY <1>1, <1>2, InboxElements
<1>4. \A i \in DOMAIN inbox : i = 1 \/ inbox'[i - 1] = inbox[i]
  BY <1>1, <1>2, InboxElements
<1>5. QED
  BY <1>1, <1>2, <1>3, <1>4, InboxElements DEF Waiting

(* What the reports say of the work of the library and the record thread.   *)
Terminal == Ends \cup {"ERROR"}
NoReport == Waiting("status") = {}
Ending   == \E i \in Waiting("status") : inbox[i][2] \in Terminal
LastReport == \A i, j \in Waiting("status") : inbox[i][2] \in Terminal => j <= i

LEMMA AppendIsLast ==
  ASSUME TypeOK, NEW s \in Statuses, inbox' = Append(inbox, <<"status", s>>),
         LastReport, ~Ending
  PROVE  LastReport' /\ (Ending' => s \in Terminal)
<1>1. <<"status", s>> \in Event
  BY DEF Event
<1>2. /\ Waiting("status")' = Waiting("status") \cup {Len(inbox) + 1}
      /\ \A i \in 1..Len(inbox) : inbox'[i] = inbox[i]
      /\ inbox'[Len(inbox) + 1] = <<"status", s>>
  BY <1>1, InboxAppend
<1>3. Waiting("status") \subseteq 1..Len(inbox) /\ Len(inbox) \in Nat
  BY InboxElements DEF Waiting
<1>4. QED
  BY <1>2, <1>3 DEF LastReport, Ending, Terminal, Ends

LEMMA CommandsKeepReports ==
  ASSUME TypeOK, LastReport, TakeCommand \/ \E r \in Requests : Ask(r)
  PROVE  LastReport' /\ (Ending' => Ending) /\ (NoReport => NoReport')
<1>1. CASE inbox' = inbox
  BY <1>1 DEF LastReport, Ending, NoReport, Waiting
<1>2. CASE TakeCommand
  <2>1. inbox # <<>> /\ inbox' = Tail(inbox)
    BY <1>2 DEF TakeCommand
  <2>2. QED
    BY <2>1, InboxRead, InboxElements DEF LastReport, Ending, NoReport, Waiting
<1>3. ASSUME NEW r \in Requests, Ask(r), inbox' # inbox
      PROVE  LastReport' /\ (Ending' => Ending) /\ (NoReport => NoReport')
  <2>1. <<"command", Numbered(r)>> \in Event
    BY <1>3, NewCommand DEF Ask, Event
  <2>2. inbox' = Append(inbox, <<"command", Numbered(r)>>)
    BY <1>3 DEF Ask
  <2> DEFINE e == <<"command", Numbered(r)>>
  <2>3. Waiting("status")' = Waiting("status") /\ \A i \in 1..Len(inbox) : inbox'[i] = inbox[i]
    <3>1. e[1] # "status" /\ e \in Event /\ inbox' = Append(inbox, e)
      BY <2>1, <2>2
    <3> HIDE DEF e
    <3>2. Waiting("status")' = Waiting("status") \cup {}
      BY <3>1, InboxAppend
    <3>3. QED
      BY <3>1, <3>2, InboxAppend
  <2>4. Waiting("status") \subseteq 1..Len(inbox)
    BY InboxElements DEF Waiting
  <2>5. QED
    BY <2>3, <2>4 DEF LastReport, Ending, NoReport
<1>4. QED
  BY <1>1, <1>2, <1>3

(* A report that ends the work is the only one left. *)
LEMMA ReadingReports ==
  ASSUME TypeOK, LastReport, NEW ss, NEW rs, Report(ss, rs)
  PROVE  /\ LastReport' /\ (Ending' => Ending) /\ ~NoReport
         /\ Head(inbox)[2] \in Terminal => Ending /\ NoReport'
<1>1. inbox # <<>> /\ inbox' = Tail(inbox) /\ Head(inbox)[1] = "status"
  BY DEF Report
<1>2. 1 \in Waiting("status") /\ Head(inbox) = inbox[1]
  BY <1>1, InboxRead DEF Waiting
<1>3. LastReport' /\ (Ending' => Ending)
  BY <1>1, InboxRead, InboxElements DEF LastReport, Ending, Waiting
<1>4. ASSUME Head(inbox)[2] \in Terminal PROVE NoReport'
  <2>1. \A i \in Waiting("status") : i <= 1
    BY <1>2, <1>4 DEF LastReport
  <2>2. \A i \in Waiting("status")' : i + 1 <= 1 /\ i \in Nat /\ i >= 1
    BY <1>1, <2>1, InboxRead
  <2>3. QED
    BY <2>2 DEF NoReport
<1>5. QED
  BY <1>2, <1>3, <1>4 DEF Ending, NoReport

-----------------------------------------------------------------------------
(* THE HANDSHAKE.  AMS waits for the record thread only with a command in   *)
(* its list that makes it stop, so it leaves RECORDING when it goes on.     *)
HandshakeInv ==
  /\ OwnershipInv
  /\ at = "join" => MustStop
  /\ run_mutex = "ams" <=> state \in {"START_RECORD", "RECORDING"} /\ at # "join"
  /\ stop_mutex = "recorder" <=> recorder \in {"raw", "close", "unlock"}

(* What only AMS writes. *)
AMSVars == <<at, head, state, current, type, power, run_mutex>>

LEMMA OthersKeepAMS ==
  ASSUME Next, ~AMS
  PROVE  UNCHANGED AMSVars
<1>1. ASSUME NEW r \in Requests, Ask(r) PROVE UNCHANGED AMSVars
  BY <1>1 DEF Ask, AMSVars, manager, mutexes
<1>2. CASE RecordThread
  BY <1>2 DEF RecordThread, RecorderBegin, RecorderOpen, RecorderTold, RecorderEnough,
    RecorderFails, RecorderClose, RecorderUnlock, RecorderStep, AMSVars, manager
<1>3. CASE Library
  BY <1>3 DEF Library, PlayerObeys, PlayerFinishes, PlayerFails, MicObeys, MicFails,
    PlayerTurn, MicTurn, Emit, AMSVars, manager, mutexes
<1>4. CASE BlockingFlips
  BY <1>4 DEF BlockingFlips, AMSVars, manager, mutexes
<1>5. QED
  BY <1>1, <1>2, <1>3, <1>4 DEF Next

(* Only the record thread takes and gives g_rthread_stop. *)
LEMMA StopMutexFollowsThread ==
  ASSUME TypeOK, Next, stop_mutex = "recorder" <=> recorder \in {"raw", "close", "unlock"}
  PROVE  (stop_mutex = "recorder" <=> recorder \in {"raw", "close", "unlock"})'
<1>1. CASE RecordThread
  BY <1>1 DEF RecordThread, RecorderBegin, RecorderOpen, RecorderTold, RecorderEnough,
    RecorderFails, RecorderClose, RecorderUnlock, RecorderStep, TypeOK
<1>2. CASE AMS
  <2>1. UNCHANGED <<stop_mutex, recorder>>
    BY <1>2 DEF AMS, TakeCommand, TakeStatus, Begun, PlayEnded, RecordEnded, Stopped,
      ToneEnded, Unexpected, Report, Execute, Postpone, LetRecorderGo, StartIdle, TakeOver,
      StopOnRequest, Pause, Resume, IgnoreAll, Decide, mutexes, thread
  <2>2. QED
    BY <2>1
<1>3. CASE Library \/ BlockingFlips \/ \E r \in Requests : Ask(r)
  <2>1. UNCHANGED <<stop_mutex, recorder>>
    BY <1>3 DEF Library, PlayerObeys, PlayerFinishes, PlayerFails, MicObeys, MicFails,
      PlayerTurn, MicTurn, Emit, BlockingFlips, Ask, mutexes, thread
  <2>2. QED
    BY <2>1
<1>4. QED
  BY <1>1, <1>2, <1>3 DEF Next

LEMMA EventsKeepHandshake ==
  ASSUME HandshakeInv, TakeCommand \/ TakeStatus
  PROVE  /\ at' # "join"
         /\ (run_mutex = "ams" <=> state \in {"START_RECORD", "RECORDING"} /\ at # "join")'
<1>1. at = "select" /\ at' = "execute"
  BY DEF TakeCommand, TakeStatus, Begun, PlayEnded, RecordEnded, Stopped, ToneEnded,
         Unexpected, Report
<1> USE DEF HandshakeInv
<1>2. CASE TakeCommand
  BY <1>1, <1>2 DEF TakeCommand, mutexes
<1>3. CASE Begun
  BY <1>1, <1>3 DEF Begun, Report
<1>4. CASE PlayEnded
  BY <1>1, <1>4 DEF PlayEnded, Report, Release
<1>5. CASE RecordEnded
  BY <1>1, <1>5 DEF RecordEnded, Release, GiveRun
<1>6. CASE Stopped
  BY <1>1, <1>6 DEF Stopped, Report, Release
<1>7. CASE ToneEnded
  BY <1>1, <1>7 DEF ToneEnded, Report, Release, Play
<1>8. CASE Unexpected
  BY <1>1, <1>8 DEF Unexpected
<1>9. QED
  BY <1>2, <1>3, <1>4, <1>5, <1>6, <1>7, <1>8 DEF TakeStatus

LEMMA ExecuteKeepsHandshake ==
  ASSUME HandshakeInv, Execute
  PROVE  /\ (at = "join" => MustStop)'
         /\ (run_mutex = "ams" <=> state \in {"START_RECORD", "RECORDING"} /\ at # "join")'
<1> USE DEF HandshakeInv, OwnershipInv, TypeOK
<1>1. CASE Postpone
  BY <1>1 DEF Postpone, manager, mutexes
<1>2. CASE LetRecorderGo
  <2>1. MustStop'
    BY <1>2 DEF LetRecorderGo, MustStop, StopAsked, StopMsg, manager
  <2>2. run_mutex' = "free" /\ at' = "join"
    BY <1>2 DEF LetRecorderGo, GiveRun
  <2>3. QED
    BY <2>1, <2>2
<1>3. CASE StartIdle
  <2>1. state = "IDLE" /\ at' = "select"
    BY <1>3 DEF StartIdle, Decide, Ownership
  <2>2. PICK c : Start(c)
    BY <1>3 DEF StartIdle
  <2>3. QED
    BY <2>1, <2>2 DEF Start, Play
<1>4. CASE TakeOver \/ StopOnRequest
  <2>1. /\ at' = "select" /\ run_mutex' = run_mutex
        /\ \E ids : Stop(ids)
        /\ state \notin Delaying \/ at = "join"
    BY <1>4 DEF TakeOver, StopOnRequest, Decide
  <2>2. state = "RECORDING" => at = "join"
    BY <1>4 DEF TakeOver, StopOnRequest, Decide, MustStop, IsLastStart
  <2>3. QED
    BY <2>1, <2>2 DEF Stop, AfterStop, Delaying
<1>5. CASE Pause \/ Resume
  BY <1>5 DEF Pause, Resume, AfterResume, Wants, Decide
<1>6. CASE IgnoreAll
  <2>1. at' = "select" /\ UNCHANGED <<state, run_mutex>>
    BY <1>6 DEF IgnoreAll, Decide
  <2>2. at # "join"
    BY <1>6 DEF IgnoreAll, MustStop
  <2>3. QED
    BY <2>1, <2>2
<1>7. QED
  BY <1>1, <1>2, <1>3, <1>4, <1>5, <1>6 DEF Execute

LEMMA HandshakeInductive == HandshakeInv /\ [Next]_vars => HandshakeInv'
<1> SUFFICES ASSUME HandshakeInv, [Next]_vars PROVE HandshakeInv'
  OBVIOUS
<1>1. OwnershipInv'
  BY OwnershipInductive DEF HandshakeInv
<1>2. (stop_mutex = "recorder" <=> recorder \in {"raw", "close", "unlock"})'
  BY StopMutexFollowsThread DEF HandshakeInv, OwnershipInv, vars, mutexes, thread
<1>3. CASE UNCHANGED AMSVars
  BY <1>1, <1>2, <1>3 DEF AMSVars, HandshakeInv, MustStop, StopAsked, StopMsg
<1>4. CASE AMS
  BY <1>1, <1>2, <1>4, EventsKeepHandshake, ExecuteKeepsHandshake DEF AMS, HandshakeInv
<1>5. UNCHANGED vars => UNCHANGED AMSVars
  BY DEF vars, manager, power, mutexes, AMSVars
<1>6. QED
  BY <1>3, <1>4, <1>5, OthersKeepAMS

LEMMA InitHandshake == Init => HandshakeInv
  BY InitType DEF Init, HandshakeInv, OwnershipInv, Ownership, PlayStates, RecordStates

(* The record thread holds g_rthread_stop while it captures, and AMS        *)
(* g_rthread_run while a recording is not asked to end, whatever the        *)
(* microphone does.                                                         *)
LEMMA HandshakeMutexes ==
  Spec => [](/\ run_mutex = "ams" <=> state \in {"START_RECORD", "RECORDING"} /\ at # "join"
             /\ stop_mutex = "recorder" <=> recorder \in {"raw", "close", "unlock"})
<1>1. HandshakeInv =>
        /\ run_mutex = "ams" <=> state \in {"START_RECORD", "RECORDING"} /\ at # "join"
        /\ stop_mutex = "recorder" <=> recorder \in {"raw", "close", "unlock"}
  BY DEF HandshakeInv
<1>2. QED
  BY <1>1, InitHandshake, HandshakeInductive, PTL DEF Spec

-----------------------------------------------------------------------------
(* THE CODEC, while the microphone does not fail.  A report that the work is *)
(* over is the last one and finds everybody at rest, so AMS is idle only    *)
(* when nothing is under way; a recording passes from the queue to the      *)
(* record thread to the microphone and leaves nothing behind.               *)
MicUnused == mic = "off" /\ recorder \in {"wait", "unlock"} /\ record_queue = <<>>

CodecInv ==
  /\ HandshakeInv
  /\ LastReport
  /\ Ending => player = "off" /\ MicUnused
  /\ state = "IDLE" => NoReport /\ player = "off"
  /\ state \notin RecordStates => MicUnused
  /\ state \in RecordStates => player = "off"
  /\ Len(record_queue) <= 1
  /\ record_queue # <<>> =>
       /\ state = "START_RECORD" /\ recorder \in {"wait", "unlock"} /\ mic = "off" /\ NoReport
       /\ Head(record_queue) = current
  /\ recorder \in {"lock", "raw", "close"} => job = current
  /\ mic = "stopping" => recorder \in {"wait", "unlock"}

LEMMA CommandsKeepCodec ==
  ASSUME CodecInv, TakeCommand \/ \E r \in Requests : Ask(r)
  PROVE  CodecInv'
<1>1. HandshakeInv'
  BY HandshakeInductive DEF CodecInv, Next, AMS
<1>2. LastReport' /\ (Ending' => Ending) /\ (NoReport => NoReport')
  BY CommandsKeepReports DEF CodecInv, HandshakeInv, OwnershipInv
<1>3. UNCHANGED <<state, current, player, mic, recorder, record_queue, job>>
  BY DEF TakeCommand, Ask, manager, library, thread
<1>4. QED
  BY <1>1, <1>2, <1>3 DEF CodecInv, MicUnused

LEMMA StatusKeepsCodec ==
  ASSUME CodecInv, TakeStatus
  PROVE  CodecInv'
<1>1. HandshakeInv'
  BY HandshakeInductive DEF CodecInv, Next, AMS
<1>2. PICK ss, rs : Report(ss, rs)
  BY DEF TakeStatus, Begun, PlayEnded, RecordEnded, Stopped, ToneEnded, Unexpected
<1>3. /\ LastReport' /\ (Ending' => Ending) /\ ~NoReport
      /\ Head(inbox)[2] \in Terminal => Ending /\ NoReport'
  BY <1>2, ReadingReports DEF CodecInv, HandshakeInv, OwnershipInv
<1>4. UNCHANGED <<mic, recorder, record_queue, job>>
  BY <1>2 DEF Report, thread
<1>5. NoReport' => ~Ending'
  BY DEF NoReport, Ending
<1>6. record_queue = <<>> /\ (MicUnused => MicUnused')
  BY <1>3, <1>4 DEF CodecInv, MicUnused
<1>7. CASE UNCHANGED <<state, current, player>>
  BY <1>1, <1>3, <1>4, <1>6, <1>7 DEF CodecInv
<1>8. CASE Begun
  <2>1. /\ UNCHANGED <<current, player>>
        /\ \/ state = "START_PLAY" /\ state' = "PLAYING"
           \/ state = "START_RECORD" /\ state' = "RECORDING"
    BY <1>8 DEF Begun, Report
  <2>2. QED
    BY <1>1, <1>3, <1>4, <1>6, <2>1 DEF CodecInv, RecordStates
<1>9. CASE PlayEnded \/ RecordEnded \/ Stopped
  <2>1. state' = "IDLE" /\ player' = player /\ Head(inbox)[2] \in Terminal
    BY <1>9 DEF PlayEnded, RecordEnded, Stopped, Report, Release, Terminal, Ends, PlayFailures
  <2>2. player = "off" /\ MicUnused
    BY <1>3, <2>1 DEF CodecInv
  <2>3. QED
    BY <1>1, <1>3, <1>4, <1>5, <1>6, <2>1, <2>2 DEF CodecInv, RecordStates, MicUnused
<1>10. CASE ToneEnded
  <2>1. /\ Head(inbox)[2] \in Terminal
        /\ \/ state' = "START_PLAY"
           \/ state' = "IDLE" /\ player' = player
    BY <1>10 DEF ToneEnded, Report, Release, Play, Terminal
  <2>2. player = "off" /\ MicUnused
    BY <1>3, <2>1 DEF CodecInv
  <2>3. QED
    BY <1>1, <1>3, <1>4, <1>5, <1>6, <2>1, <2>2 DEF CodecInv, RecordStates, MicUnused
<1>11. QED
  BY <1>7, <1>8, <1>9, <1>10 DEF TakeStatus, Unexpected

LEMMA ExecuteKeepsCodec ==
  ASSUME CodecInv, Execute
  PROVE  CodecInv'
<1>1. HandshakeInv'
  BY HandshakeInductive DEF CodecInv, Next, AMS
<1>2. UNCHANGED <<inbox, recorder, job, mic>>
  BY DEF Execute, Postpone, LetRecorderGo, StartIdle, TakeOver, StopOnRequest, Pause, Resume,
         IgnoreAll, Decide, thread, library
<1>3. UNCHANGED <<LastReport, Ending, NoReport>>
  BY <1>2 DEF LastReport, Ending, NoReport, Waiting
<1>4. CASE StartIdle
  <2>1. state = "IDLE" /\ NoReport /\ player = "off" /\ MicUnused
    BY <1>4 DEF StartIdle, CodecInv, HandshakeInv, OwnershipInv, Ownership, RecordStates
  <2>2. ~Ending
    BY <2>1 DEF Ending, NoReport
  <2>3. PICK i \in DOMAIN head : Start(head[i])
    BY <1>4 DEF StartIdle
  <2>4. CASE head[i].msg = "PLAY_START"
    <3>1. /\ state' = "START_PLAY" \/ UNCHANGED <<state, player>>
          /\ record_queue' = record_queue
      BY <2>3, <2>4 DEF Start, Play
    <3>2. QED
      BY <1>1, <1>2, <1>3, <2>1, <2>2, <3>1 DEF CodecInv, RecordStates, MicUnused
  <2>5. CASE head[i].msg = "RECORD_START"
    <3>1. /\ state' = "START_RECORD" /\ player' = player /\ current' = head[i]
          /\ record_queue' = Append(record_queue, head[i])
      BY <2>3, <2>5 DEF Start
    <3>2. Len(record_queue') = 1 /\ Head(record_queue') = current'
      BY <2>1, <3>1 DEF MicUnused
    <3>3. QED
      BY <1>1, <1>2, <1>3, <2>1, <2>2, <3>1, <3>2 DEF CodecInv, RecordStates, MicUnused
  <2>6. QED
    BY <2>3, <2>4, <2>5 DEF Start
<1>5. CASE ~StartIdle
  <2>1. UNCHANGED <<current, record_queue>>
    BY <1>5 DEF Execute, Postpone, LetRecorderGo, TakeOver, StopOnRequest, Pause, Resume,
                IgnoreAll, manager, thread
  <2>2. player = "off" => player' = "off"
    BY <1>5 DEF Execute, Postpone, LetRecorderGo, TakeOver, StopOnRequest, Pause, Resume,
                IgnoreAll, library, Stop, StopOf, PauseOf, ResumeOf
  <2>3. \/ state' = state
        \/ {state, state'} \subseteq {"PLAYING", "PAUSE_PLAY", "STOP_PLAY"}
        \/ state = "RECORDING" /\ state' = "STOP_RECORD"
    BY <1>5 DEF Execute, Postpone, LetRecorderGo, TakeOver, StopOnRequest, Pause, Resume, Wants,
                IgnoreAll, manager, Stop, AfterStop, AfterResume
  <2>4. QED
    BY <1>1, <1>2, <1>3, <2>1, <2>2, <2>3 DEF CodecInv, RecordStates, MicUnused
<1>6. QED
  BY <1>4, <1>5

(* What the record thread reads and reports is of the current recording. *)
LEMMA ThreadKeepsCodec ==
  ASSUME ~MicFaults, CodecInv, RecordThread
  PROVE  CodecInv'
<1>1. HandshakeInv'
  BY HandshakeInductive DEF CodecInv, Next
<1>2. UNCHANGED <<state, current, player>>
  BY DEF RecordThread, RecorderBegin, RecorderOpen, RecorderTold, RecorderEnough,
    RecorderFails, RecorderClose, RecorderUnlock, RecorderStep, manager
<1>3. CASE inbox' = inbox
  <2>1. UNCHANGED <<LastReport, Ending, NoReport>>
    BY <1>3 DEF LastReport, Ending, NoReport, Waiting
  <2>2. CASE RecorderBegin
    <3>1. /\ record_queue # <<>> /\ record_queue' = Tail(record_queue) /\ mic' = mic
          /\ \/ recorder' = "lock" /\ job' = Head(record_queue)
             \/ recorder' = "wait" /\ job' = job
      BY <2>2 DEF RecorderBegin, RecorderStep
    <3>2. record_queue' = <<>>
      BY <3>1 DEF CodecInv, HandshakeInv, OwnershipInv, TypeOK
    <3>3. ~Ending /\ state = "START_RECORD" /\ mic = "off"
      BY <3>1 DEF CodecInv, NoReport, Ending
    <3>4. QED
      BY <1>1, <1>2, <2>1, <3>1, <3>2, <3>3 DEF CodecInv, MicUnused, RecordStates
  <2>3. CASE RecorderOpen \/ RecorderTold \/ RecorderEnough \/ RecorderClose
    <3>1. /\ recorder \in {"lock", "raw", "close"} /\ UNCHANGED <<record_queue, job>>
          /\ recorder' \in {"raw", "close", "unlock"}
          /\ mic' = "stopping" => mic = "stopping" \/ recorder' = "unlock"
      BY <2>3 DEF RecorderOpen, RecorderTold, RecorderEnough, RecorderClose, RecorderStep, StopOf
    <3>2. ~Ending /\ state \in RecordStates /\ record_queue = <<>>
      BY <3>1 DEF CodecInv, MicUnused
    <3>3. QED
      BY <1>1, <1>2, <2>1, <3>1, <3>2 DEF CodecInv, MicUnused, RecordStates
  <2>4. CASE RecorderUnlock
    BY <1>1, <1>2, <2>1, <2>4 DEF RecorderUnlock, RecorderStep, CodecInv, MicUnused
  <2>5. ~RecorderFails
    BY DEF RecorderFails
  <2>6. QED
    BY <2>2, <2>3, <2>4, <2>5 DEF RecordThread
<1>4. CASE inbox' # inbox
  <2>1. /\ record_queue # <<>> /\ record_queue' = Tail(record_queue) /\ mic' = mic
        /\ recorder' = "wait" /\ job' = job
        /\ inbox' = Append(inbox, <<"status", "ERROR">>)
    BY <1>4 DEF RecordThread, RecorderBegin, RecorderOpen, RecorderTold, RecorderEnough,
      RecorderFails, RecorderClose, RecorderUnlock, RecorderStep, SelfReportError
  <2>2. record_queue' = <<>>
    BY <2>1 DEF CodecInv, HandshakeInv, OwnershipInv, TypeOK
  <2>3. ~Ending /\ state = "START_RECORD" /\ mic = "off" /\ player = "off"
    BY <2>1 DEF CodecInv, NoReport, Ending, RecordStates
  <2>4. LastReport'
    BY <2>1, <2>3, AppendIsLast DEF CodecInv, HandshakeInv, OwnershipInv, Statuses
  <2>5. QED
    BY <1>1, <1>2, <2>1, <2>2, <2>3, <2>4 DEF CodecInv, MicUnused, RecordStates
<1>5. QED
  BY <1>3, <1>4

(* The library reports the end of a work as its last word on it. *)
LEMMA LibraryKeepsCodec ==
  ASSUME ~MicFaults, CodecInv, Library
  PROVE  CodecInv'
<1>1. HandshakeInv'
  BY HandshakeInductive DEF CodecInv, Next
<1>2. PICK s \in Statuses :
        /\ Emit(s)
        /\ \/ player # "off" /\ mic' = mic /\ (s \in Terminal => player' = "off")
           \/ mic = "starting" /\ mic' = "on" /\ s = "PLAYING" /\ player' = player
           \/ mic = "stopping" /\ mic' = "off" /\ player' = player
  BY DEF Library, PlayerObeys, PlayerFinishes, PlayerFails, MicObeys, MicFails,
         PlayerTurn, MicTurn, Statuses, Terminal, Ends
<1>3. /\ UNCHANGED <<state, current, recorder, record_queue, job>>
      /\ inbox' = Append(inbox, <<"status", s>>)
  BY <1>2 DEF Emit, manager, thread
<1>4. ~Ending /\ record_queue = <<>> /\ state # "IDLE"
  BY <1>2 DEF CodecInv, MicUnused, RecordStates
<1>5. LastReport' /\ (Ending' => s \in Terminal)
  BY <1>3, <1>4, AppendIsLast DEF CodecInv, HandshakeInv, OwnershipInv
<1>6. CASE player # "off" /\ mic' = mic /\ (s \in Terminal => player' = "off")
  BY <1>1, <1>3, <1>4, <1>5, <1>6 DEF CodecInv, MicUnused
<1>7. CASE mic = "starting" /\ mic' = "on" /\ s = "PLAYING" /\ player' = player
  BY <1>1, <1>3, <1>4, <1>5, <1>7 DEF CodecInv, MicUnused, Terminal, Ends
<1>8. CASE mic = "stopping" /\ mic' = "off" /\ player' = player
  BY <1>1, <1>3, <1>4, <1>5, <1>8 DEF CodecInv, MicUnused
<1>9. QED
  BY <1>2, <1>6, <1>7, <1>8

LEMMA CodecInductive ==
  ASSUME ~MicFaults
  PROVE  CodecInv /\ [Next]_vars => CodecInv'
<1> SUFFICES ASSUME CodecInv, [Next]_vars PROVE CodecInv'
  OBVIOUS
<1>1. CASE TakeCommand \/ \E r \in Requests : Ask(r)
  BY <1>1, CommandsKeepCodec
<1>2. CASE TakeStatus
  BY <1>2, StatusKeepsCodec
<1>3. CASE Execute
  BY <1>3, ExecuteKeepsCodec
<1>4. CASE RecordThread
  BY <1>4, ThreadKeepsCodec
<1>5. CASE Library
  BY <1>5, LibraryKeepsCodec
<1>6. CASE BlockingFlips \/ UNCHANGED vars
  <2>1. HandshakeInv'
    BY HandshakeInductive DEF CodecInv
  <2>2. UNCHANGED <<inbox, state, current, player, mic, recorder, record_queue, job>>
    BY <1>6 DEF BlockingFlips, vars, manager, thread, library
  <2>3. QED
    BY <2>1, <2>2 DEF CodecInv, MicUnused, LastReport, Ending, NoReport, Waiting
<1>7. QED
  BY <1>1, <1>2, <1>3, <1>4, <1>5, <1>6 DEF Next, AMS

LEMMA InitCodec == Init => CodecInv
<1> SUFFICES ASSUME Init PROVE CodecInv
  OBVIOUS
<1>1. Waiting("status") = {}
  BY DEF Init, Waiting
<1>2. QED
  BY <1>1, InitHandshake
     DEF Init, CodecInv, MicUnused, LastReport, Ending, NoReport, RecordStates

(* With a microphone that works, the library plays or captures only for the *)
(* app AMS has recorded as owner, whenever the record thread, the library   *)
(* and AMS take their turns and whichever of them blocks.                   *)
THEOREM CodecOwned ==
  ASSUME ~MicFaults
  PROVE  Spec => []CodecHasOwner
<1>1. CodecInv => CodecHasOwner
  BY DEF CodecInv, CodecHasOwner, MicUnused, HandshakeInv, OwnershipInv, TypeOK, States,
         PlayStates, RecordStates
<1>2. QED
  BY <1>1, InitCodec, CodecInductive, PTL DEF Spec

(* With a microphone that works, the two mutexes follow the recording and   *)
(* no second one is queued before the record thread has taken the first.    *)
THEOREM HandshakeHolds ==
  ASSUME ~MicFaults
  PROVE  Spec => []RecordHandshake
<1>1. CodecInv => RecordHandshake
  BY DEF CodecInv, HandshakeInv, OwnershipInv, RecordHandshake
<1>2. QED
  BY <1>1, InitCodec, CodecInductive, PTL DEF Spec

-----------------------------------------------------------------------------
(* THE WORK OF THE RECORD THREAD, also with a microphone that fails.        *)
Accountable(c) ==
  c \in Command /\ c.msg = "RECORD_START" /\ (c = current \/ told[c.id] >= 1)

(* The recording the record thread works for, or has in its queue, is the   *)
(* current one, or its app has been told that it is over.                   *)
WorkAccounted ==
  /\ job # None => Accountable(job)
  /\ \A i \in DOMAIN record_queue : Accountable(record_queue[i])

AccountInv ==
  /\ OwnershipInv /\ WorkAccounted
  /\ state = "STOP_RECORD" => told[current.id] >= 1

LEMMA SettleAdds ==
  ASSUME TypeOK, NEW ids, Settle(ids)
  PROVE  \A i \in Ids : /\ told[i] \in Nat /\ told'[i] \in Nat /\ told'[i] >= told[i]
                        /\ i \in ids => told'[i] >= 1
  BY DEF Settle, TypeOK

LEMMA KeepsAccount ==
  ASSUME WorkAccounted, UNCHANGED <<job, record_queue>>,
         \A c \in Command : c.msg = "RECORD_START" /\ (c = current \/ told[c.id] >= 1)
                              => c = current' \/ told'[c.id] >= 1
  PROVE  WorkAccounted'
  BY DEF WorkAccounted, Accountable

LEMMA StatusKeepsAccount ==
  ASSUME AccountInv, TakeStatus
  PROVE  WorkAccounted' /\ (state = "STOP_RECORD" => told[current.id] >= 1)'
<1> USE DEF AccountInv, OwnershipInv
<1>1. UNCHANGED <<job, record_queue>> /\ TypeOK
  BY DEF TakeStatus, Begun, PlayEnded, RecordEnded, Stopped, ToneEnded, Unexpected, Report, thread
<1>2. \A c \in Command : c.id \in Ids
  BY DEF Command
<1>3. \A i \in Ids : told[i] \in Nat
  BY <1>1 DEF TypeOK
<1>4. CASE Begun \/ Unexpected
  <2>1. UNCHANGED <<current, told>> /\ (state' = "STOP_RECORD" => state = "STOP_RECORD")
    BY <1>4 DEF Begun, Unexpected
  <2>2. QED
    BY <1>1, <2>1, KeepsAccount
<1>5. CASE RecordEnded
  <2>1. Settle({current.id}) /\ state' = "IDLE" /\ current # None
    BY <1>5 DEF RecordEnded, Report, Release, Ownership
  <2>2. current \in Command
    BY <1>1, <2>1 DEF TypeOK
  <2>3. QED
    BY <1>1, <1>2, <2>1, <2>2, SettleAdds, KeepsAccount
<1>6. CASE Stopped
  <2>1. /\ state' = "IDLE" /\ told' = told
        /\ state = "STOP_RECORD" \/ current.msg = "PLAY_START"
    BY <1>6 DEF Stopped, Report, Release, Ownership, PlayStates
  <2>2. QED
    BY <1>1, <2>1, KeepsAccount
<1>7. CASE PlayEnded \/ ToneEnded
  <2>1. /\ state' \in {"IDLE", "START_PLAY"} /\ current.msg = "PLAY_START"
        /\ told' = told \/ Settle({current.id})
    BY <1>7 DEF PlayEnded, ToneEnded, Report, Release, Play, Ownership, PlayStates
  <2>2. \A i \in Ids : told'[i] \in Nat /\ told'[i] >= told[i]
    BY <1>1, <1>3, <2>1, SettleAdds
  <2>3. QED
    BY <1>1, <1>2, <1>3, <2>1, <2>2, KeepsAccount
<1>8. QED
  BY <1>4, <1>5, <1>6, <1>7 DEF TakeStatus

LEMMA ExecuteKeepsAccount ==
  ASSUME AccountInv, Execute
  PROVE  WorkAccounted' /\ (state = "STOP_RECORD" => told[current.id] >= 1)'
<1> USE DEF AccountInv, OwnershipInv
<1>1. TypeOK /\ job' = job
  BY DEF Execute, Postpone, LetRecorderGo, StartIdle, TakeOver, StopOnRequest, Pause, Resume,
         IgnoreAll, Decide, thread
<1>2. \A c \in Command : c.id \in Ids /\ told[c.id] \in Nat
  BY <1>1 DEF TypeOK, Command
<1>3. CASE Postpone \/ LetRecorderGo \/ Pause \/ Resume
  <2>1. UNCHANGED <<current, told, record_queue>> /\ (state' = "STOP_RECORD" => state = "STOP_RECORD")
    BY <1>3 DEF Postpone, LetRecorderGo, Pause, Resume, AfterResume, manager, thread, history
  <2>2. QED
    BY <1>1, <2>1, KeepsAccount
<1>4. CASE IgnoreAll
  <2>1. UNCHANGED <<state, current, record_queue>> /\ Settle(StartIds(head))
    BY <1>4 DEF IgnoreAll
  <2>2. state = "STOP_RECORD" => current \in Command
    BY <1>1 DEF TypeOK, Ownership
  <2>3. QED
    BY <1>1, <1>2, <2>1, <2>2, SettleAdds, KeepsAccount
<1>5. CASE TakeOver \/ StopOnRequest
  <2>1. UNCHANGED <<current, record_queue>> /\ current # None /\ \E ids : Stop(ids)
    BY <1>5 DEF TakeOver, StopOnRequest
  <2>2. PICK ids : Stop(ids)
    BY <2>1
  <2>3. current \in Command
    BY <1>1, <2>1 DEF TypeOK
  <2>4. /\ Settle(ids) \/ Settle(ids \cup {current.id})
        /\ state' = "STOP_RECORD" => Settle(ids \cup {current.id}) \/ state = "STOP_RECORD"
    BY <2>2 DEF Stop, AfterStop
  <2>5. \A i \in Ids : told'[i] \in Nat /\ told'[i] >= told[i]
    BY <1>1, <2>4, SettleAdds
  <2>6. state' = "STOP_RECORD" => told'[current.id] >= 1
    BY <1>1, <1>2, <2>3, <2>4, <2>5, SettleAdds
  <2>7. QED
    BY <1>1, <1>2, <2>1, <2>5, <2>6, KeepsAccount
<1>6. CASE StartIdle
  <2>1. PICK i \in DOMAIN head : Start(head[i]) /\ Settle(Refused(i)) /\ current = None
    BY <1>6 DEF StartIdle
  <2>2. head[i] \in Command /\ state = "IDLE"
    BY <1>1, <2>1 DEF TypeOK, Ownership
  <2>3. \A c \in Command : told'[c.id] \in Nat /\ told'[c.id] >= told[c.id] /\ c # None
    BY <1>1, <1>2, <2>1, SettleAdds, ManagerAssumption
  <2>4. state' # "STOP_RECORD"
    BY <2>1, <2>2 DEF Start, Play
  <2>5. CASE record_queue' = record_queue
    BY <1>1, <1>2, <2>1, <2>3, <2>4, <2>5, KeepsAccount
  <2>6. CASE record_queue' # record_queue
    <3>1. PICK h \in Command : h = head[i]
      BY <2>2
    <3>2. record_queue' = Append(record_queue, h) /\ current' = h /\ h.msg = "RECORD_START"
      BY <2>1, <2>6, <3>1 DEF Start
    <3>3. \A c \in Command : c.msg = "RECORD_START" /\ told[c.id] >= 1 => told'[c.id] >= 1
      BY <1>2, <2>3
    <3>4. ASSUME NEW c, Accountable(c)
          PROVE  Accountable(c)'
      <4>1. c \in Command /\ c.msg = "RECORD_START" /\ told[c.id] >= 1
        BY <2>1, <2>3, <3>4 DEF Accountable
      <4>2. told'[c.id] >= 1
        BY <3>3, <4>1
      <4>3. QED
        BY <4>1, <4>2 DEF Accountable
    <3>5. Accountable(h)'
      BY <3>2 DEF Accountable
    <3>6. ASSUME NEW k \in DOMAIN record_queue'
          PROVE  /\ record_queue'[k] \in Command /\ record_queue'[k].msg = "RECORD_START"
                 /\ record_queue'[k] = current' \/ told'[record_queue'[k].id] >= 1
      <4>1. PICK c : c = record_queue'[k]
        OBVIOUS
      <4>2. c = h \/ \E l \in DOMAIN record_queue : c = record_queue[l]
        BY <1>1, <3>2, <4>1 DEF TypeOK
      <4>3. Accountable(c)'
        BY <3>4, <3>5, <4>2 DEF WorkAccounted
      <4>4. QED
        BY <4>1, <4>3 DEF Accountable
    <3>7. job' # None => job' \in Command /\ job'.msg = "RECORD_START"
                         /\ (job' = current' \/ told'[job'.id] >= 1)
      BY <1>1, <3>4 DEF WorkAccounted, Accountable
    <3>8. WorkAccounted'
      BY <3>6, <3>7 DEF WorkAccounted, Accountable
    <3>9. QED
      BY <2>4, <3>8
  <2>7. QED
    BY <2>5, <2>6
<1>7. QED
  BY <1>3, <1>4, <1>5, <1>6 DEF Execute

LEMMA ThreadKeepsAccount ==
  ASSUME AccountInv, RecordThread
  PROVE  WorkAccounted'
<1> USE DEF AccountInv, OwnershipInv
<1>1. UNCHANGED <<current, told>>
  BY DEF RecordThread, RecorderBegin, RecorderOpen, RecorderTold, RecorderEnough,
    RecorderFails, RecorderClose, RecorderUnlock, RecorderStep, manager, history
<1>2. \A c : Accountable(c)' <=> Accountable(c)
  BY <1>1 DEF Accountable
<1>3. CASE RecorderBegin
  <2>1. /\ record_queue # <<>> /\ record_queue' = Tail(record_queue)
        /\ job' \in {job, Head(record_queue)}
    BY <1>3 DEF RecorderBegin
  <2>2. Head(record_queue) = record_queue[1] /\ 1 \in DOMAIN record_queue
    BY <2>1 DEF TypeOK
  <2>3. \A i \in DOMAIN record_queue' : i + 1 \in DOMAIN record_queue /\ record_queue'[i] = record_queue[i + 1]
    BY <2>1 DEF TypeOK
  <2>4. QED
    BY <1>2, <2>1, <2>2, <2>3 DEF WorkAccounted
<1>4. CASE ~RecorderBegin
  <2>1. record_queue' = record_queue /\ job' \in {job, None}
    BY <1>4 DEF RecordThread, RecorderOpen, RecorderTold, RecorderEnough, RecorderFails,
      RecorderClose, RecorderUnlock
  <2>2. QED
    BY <1>2, <2>1 DEF WorkAccounted
<1>5. QED
  BY <1>3, <1>4

LEMMA AccountInductive == AccountInv /\ [Next]_vars => AccountInv'
<1> SUFFICES ASSUME AccountInv, [Next]_vars PROVE AccountInv'
  OBVIOUS
<1>1. OwnershipInv'
  BY OwnershipInductive DEF AccountInv
<1>2. CASE UNCHANGED <<state, current, told, job, record_queue>>
  BY <1>1, <1>2 DEF AccountInv, WorkAccounted, Accountable
<1>3. CASE RecordThread
  <2>1. UNCHANGED <<state, current, told>>
    BY <1>3 DEF RecordThread, RecorderBegin, RecorderOpen, RecorderTold, RecorderEnough,
      RecorderFails, RecorderClose, RecorderUnlock, RecorderStep, manager, history
  <2>2. QED
    BY <1>1, <1>3, <2>1, ThreadKeepsAccount DEF AccountInv
<1>4. CASE TakeStatus \/ Execute
  BY <1>1, <1>4, StatusKeepsAccount, ExecuteKeepsAccount DEF AccountInv
<1>5. CASE \/ UNCHANGED vars \/ TakeCommand \/ Library \/ BlockingFlips \/ \E r \in Requests : Ask(r)
  <2>1. UNCHANGED <<state, current, told, job, record_queue>>
    BY <1>5 DEF vars, TakeCommand, Library, PlayerObeys, PlayerFinishes, PlayerFails, MicObeys,
      MicFails, PlayerTurn, MicTurn, Emit, BlockingFlips, Ask, manager, thread, history
  <2>2. QED
    BY <1>2, <2>1
<1>6. QED
  BY <1>3, <1>4, <1>5 DEF Next, AMS

(* The record thread never works, and never feeds an app (notify_app_status *)
(* of record_thread), for a recording that is neither the current one nor   *)
(* ended for its app: on the ERROR path too, where AMS frees the command    *)
(* without waiting for the thread (1198-1202), the app has been told.       *)
THEOREM RecorderAccounted == Spec => []WorkAccounted
<1>1. Init => AccountInv
  BY InitType DEF Init, AccountInv, OwnershipInv, Ownership, WorkAccounted, PlayStates, RecordStates
<1>2. QED
  BY <1>1, AccountInductive, PTL DEF Spec, AccountInv

-----------------------------------------------------------------------------
(* THE ORDER OF THE COMMANDS.  They are numbered as they are made, and AMS  *)
(* reads and drops them without changing their order: the owner is older    *)
(* than the list, the list than the queue.                                  *)
Logged(c, l) ==
  c.id \in DOMAIN l /\ l[c.id] # None /\ l[c.id].app = c.app /\ l[c.id].msg = c.msg

Ordered ==
  /\ \A i, j \in Waiting("command") : i < j => inbox[i][2].id < inbox[j][2].id
  /\ \A i, j \in DOMAIN head : i < j => head[i].id < head[j].id
  /\ \A i \in InHead, j \in InInbox : i < j
  /\ \A i \in Waiting("command") : Logged(inbox[i][2], log)
  /\ \A i \in DOMAIN head : Logged(head[i], log)
  /\ current # None => Logged(current, log)

OrderInv == OwnershipInv /\ Ordered /\ LastStartOwns

LEMMA CommandsTyped ==
  ASSUME TypeOK
  PROVE  /\ \A i \in Waiting("command") : inbox[i][2] \in Command
         /\ \A i \in DOMAIN head : head[i] \in Command
         /\ InInbox \subseteq Ids /\ InHead \subseteq Ids
         /\ DOMAIN log = 1..Len(log) /\ Len(log) \in Nat /\ DOMAIN log \subseteq Ids
<1>1. \A i \in Waiting("command") : inbox[i][2] \in Command
  BY InboxElements, EventParts DEF Waiting
<1>2. \A i \in DOMAIN head : head[i] \in Command
  BY DEF TypeOK
<1>3. DOMAIN log = 1..Len(log) /\ Len(log) \in Nat /\ DOMAIN log \subseteq Ids
  BY CommandAssumption DEF TypeOK, Ids
<1>4. QED
  BY <1>1, <1>2, <1>3 DEF InInbox, InHead, Command

(* The history grows at its end: what is logged stays logged. *)
LEMMA LogGrows ==
  ASSUME TypeOK, NEW x \in Request \cup {None}, log' = Append(log, x)
  PROVE  /\ DOMAIN log' = 1..(Len(log) + 1)
         /\ \A i \in DOMAIN log : log'[i] = log[i]
         /\ log'[Len(log) + 1] = x
         /\ Accepted' = Accepted \cup (IF x = None THEN {} ELSE {Len(log) + 1})
         /\ \A c : Logged(c, log) => Logged(c, log')
<1>1. /\ log' \in Seq(Request \cup {None}) /\ Len(log') = Len(log) + 1
      /\ \A i \in 1..Len(log) : log'[i] = log[i]
      /\ log'[Len(log) + 1] = x
  BY AppendProperties DEF TypeOK
<1>2. /\ DOMAIN log' = 1..(Len(log) + 1)
      /\ DOMAIN log = 1..Len(log) /\ Len(log) \in Nat
  BY <1>1, CommandsTyped
<1>3. QED
  BY <1>1, <1>2 DEF Accepted, Logged

(* The ids in the queue, as events arrive and are read. *)
LEMMA ArrivingIds ==
  ASSUME TypeOK, NEW e \in Event, inbox' = Append(inbox, e)
  PROVE  InInbox' = InInbox \cup (IF e[1] = "command" THEN {e[2].id} ELSE {})
<1>1. /\ \A i \in 1..Len(inbox) : inbox'[i] = inbox[i]
      /\ inbox'[Len(inbox) + 1] = e
      /\ Waiting("command")' =
           Waiting("command") \cup (IF e[1] = "command" THEN {Len(inbox) + 1} ELSE {})
  BY InboxAppend
<1>2. Waiting("command") \subseteq 1..Len(inbox)
  BY InboxElements DEF Waiting
<1>3. InInbox' = {inbox'[i][2].id : i \in Waiting("command")'}
  BY DEF InInbox
<1>4. QED
  BY <1>1, <1>2, <1>3 DEF InInbox

LEMMA ReportIds ==
  ASSUME TypeOK, NEW ss, NEW rs, Report(ss, rs)
  PROVE  InInbox' = InInbox
<1>1. inbox # <<>> /\ inbox' = Tail(inbox) /\ Head(inbox)[1] = "status"
  BY DEF Report
<1>2. /\ \A i \in Waiting("command")' : i + 1 \in Waiting("command") /\ inbox'[i] = inbox[i + 1]
      /\ \A i \in Waiting("command") : i # 1 /\ i - 1 \in Waiting("command")'
  BY <1>1, InboxRead DEF Waiting
<1>3. \A i \in Waiting("command") : inbox'[i - 1] = inbox[i]
  BY <1>2, InboxElements DEF Waiting
<1>4. InInbox' = {inbox'[i][2].id : i \in Waiting("command")'}
  BY DEF InInbox
<1>5. QED
  BY <1>2, <1>3, <1>4 DEF InInbox

LEMMA CommandIds ==
  ASSUME OrderInv, TakeCommand
  PROVE  /\ Head(inbox)[2].id \in InInbox /\ Head(inbox)[2] \in Command
         /\ Logged(Head(inbox)[2], log)
         /\ \A j \in InInbox' : Head(inbox)[2].id < j
         /\ InInbox = InInbox' \cup {Head(inbox)[2].id}
         /\ InHead' = InHead \cup {Head(inbox)[2].id}
<1> USE DEF OrderInv, OwnershipInv
<1> DEFINE c == Head(inbox)[2]
<1>1. inbox # <<>> /\ inbox' = Tail(inbox) /\ Head(inbox)[1] = "command"
  BY DEF TakeCommand
<1>2. 1 \in Waiting("command") /\ Head(inbox) = inbox[1]
  BY <1>1, InboxRead DEF Waiting
<1>3. /\ \A i \in Waiting("command")' : /\ i + 1 \in Waiting("command")
                                        /\ inbox'[i] = inbox[i + 1] /\ i \in Nat /\ i >= 1
      /\ \A i \in Waiting("command") : i = 1 \/ i - 1 \in Waiting("command")'
  BY <1>1, InboxRead DEF Waiting
<1>4. \A i \in Waiting("command") : i = 1 \/ inbox'[i - 1] = inbox[i]
  BY <1>3, InboxElements DEF Waiting
<1>5. InInbox' = {inbox'[i][2].id : i \in Waiting("command")'}
  BY DEF InInbox
<1>6. c.id \in InInbox /\ c \in Command /\ Logged(c, log)
  BY <1>2, CommandsTyped DEF InInbox, Ordered
<1>7. \A j \in InInbox' : c.id < j
  <2> SUFFICES ASSUME NEW i \in Waiting("command")' PROVE c.id < inbox'[i][2].id
    BY <1>5
  <2>1. i + 1 \in Waiting("command") /\ 1 < i + 1 /\ inbox'[i] = inbox[i + 1]
    BY <1>3
  <2>2. QED
    BY <1>2, <2>1 DEF Ordered
<1>8. InInbox = InInbox' \cup {c.id}
  BY <1>2, <1>3, <1>4, <1>5 DEF InInbox
<1>9. InHead' = InHead \cup {c.id}
  <2>1. /\ head' = Append(head, c) /\ head \in Seq(Command) /\ Len(head) \in Nat
        /\ DOMAIN head = 1..Len(head)
    BY <1>1 DEF TakeCommand, TypeOK
  <2>2. /\ Len(head') = Len(head) + 1 /\ DOMAIN head' = 1..(Len(head) + 1)
        /\ \A i \in 1..Len(head) : head'[i] = head[i]
        /\ head'[Len(head) + 1] = c
    BY <1>6, <2>1, AppendProperties
  <2>3. InHead' = {head'[i].id : i \in DOMAIN head'}
    BY DEF InHead
  <2>4. QED
    BY <2>1, <2>2, <2>3 DEF InHead
<1>10. QED
  BY <1>6, <1>7, <1>8, <1>9

(* Reading or writing the queue keeps the order of the commands in it. *)
LEMMA AskKeepsOrder ==
  ASSUME OrderInv, NEW r \in Requests, Ask(r)
  PROVE  Ordered' /\ LastStartOwns'
<1> USE DEF OrderInv, OwnershipInv
<1>1. UNCHANGED <<head, current>> /\ InHead' = InHead
  BY DEF Ask, manager, InHead
<1>2. PICK x \in {r, None} :
        /\ log' = Append(log, x)
        /\ x = r => inbox' = Append(inbox, <<"command", Numbered(r)>>)
        /\ x = None => inbox' = inbox
  <2>1. r \in Request /\ r # None
    BY ManagerAssumption
  <2>2. QED
    BY <2>1 DEF Ask
<1>3. x \in Request \cup {None} /\ r # None
  BY ManagerAssumption
<1>4. /\ \A i \in DOMAIN log : log'[i] = log[i]
      /\ DOMAIN log = 1..Len(log) /\ Len(log) \in Nat
      /\ DOMAIN log' = 1..(Len(log) + 1) /\ log'[Len(log) + 1] = x
      /\ \A c : Logged(c, log) => Logged(c, log')
  BY <1>2, <1>3, LogGrows, CommandsTyped
<1>5. CASE x = None
  <2>1. Waiting("command")' = Waiting("command") /\ InInbox' = InInbox
    BY <1>2, <1>5 DEF Waiting, InInbox
  <2>2. QED
    BY <1>1, <1>2, <1>4, <1>5, <2>1 DEF Ordered, LastStartOwns
<1>6. CASE x = r
  <2> DEFINE c == Numbered(r)
             e == <<"command", c>>
  <2>1. e \in Event /\ e[1] = "command" /\ e[2] = c /\ inbox' = Append(inbox, e)
    BY <1>2, <1>6, NewCommand DEF Ask, Event
  <2>2. c.id = Len(log) + 1 /\ Logged(c, log')
    BY <1>3, <1>4, <1>6 DEF Logged, Numbered
  <2> HIDE DEF c, e
  <2>3. InInbox' = InInbox \cup {c.id}
    BY <2>1, ArrivingIds
  <2>4. /\ \A i \in 1..Len(inbox) : inbox'[i] = inbox[i]
        /\ inbox'[Len(inbox) + 1] = e
        /\ Waiting("command")' = Waiting("command") \cup {Len(inbox) + 1}
    BY <2>1, InboxAppend
  <2>5. Waiting("command") \subseteq 1..Len(inbox) /\ Len(inbox) \in Nat
    BY InboxElements DEF Waiting
  <2>6. /\ \A i \in InInbox \cup InHead : i < c.id
        /\ current # None => current.id < c.id
    BY <1>4, <2>2 DEF Ordered, InInbox, InHead, Logged
  <2>7. \A i, j \in Waiting("command")' : i < j => inbox'[i][2].id < inbox'[j][2].id
    <3> SUFFICES ASSUME NEW i \in Waiting("command")', NEW j \in Waiting("command")', i < j
                 PROVE  inbox'[i][2].id < inbox'[j][2].id
      OBVIOUS
    <3>1. i \in Waiting("command") /\ inbox'[i] = inbox[i]
      BY <2>4, <2>5
    <3>2. CASE j \in Waiting("command")
      BY <2>4, <2>5, <3>1, <3>2 DEF Ordered
    <3>3. CASE j = Len(inbox) + 1
      <4>1. inbox[i][2].id \in InInbox
        BY <3>1 DEF InInbox
      <4>2. QED
        BY <2>1, <2>4, <2>6, <3>1, <3>3, <4>1
    <3>4. QED
      BY <2>4, <3>2, <3>3
  <2>8. \A i \in Waiting("command")' : Logged(inbox'[i][2], log')
    BY <1>4, <2>1, <2>2, <2>4, <2>5 DEF Ordered
  <2>9. QED
    BY <1>1, <1>4, <2>3, <2>6, <2>7, <2>8 DEF Ordered, LastStartOwns
<1>7. QED
  BY <1>2, <1>5, <1>6

LEMMA TakeCommandKeepsOrder ==
  ASSUME OrderInv, TakeCommand
  PROVE  Ordered' /\ LastStartOwns'
<1> USE DEF OrderInv, OwnershipInv
<1> DEFINE c == Head(inbox)[2]
<1>1. /\ c.id \in InInbox /\ c \in Command /\ Logged(c, log)
      /\ \A j \in InInbox' : c.id < j
      /\ InInbox = InInbox' \cup {c.id} /\ InHead' = InHead \cup {c.id}
  BY CommandIds
<1>2. /\ inbox # <<>> /\ inbox' = Tail(inbox) /\ head' = Append(head, c)
      /\ UNCHANGED <<current, log>>
  BY DEF TakeCommand, history
<1> HIDE DEF c
<1>3. \A i \in Waiting("command")' : /\ i + 1 \in Waiting("command")
                                     /\ inbox'[i] = inbox[i + 1] /\ i \in Nat
  BY <1>2, InboxRead DEF Waiting
<1>4. /\ DOMAIN head = 1..Len(head) /\ Len(head) \in Nat
      /\ DOMAIN head' = 1..(Len(head) + 1)
      /\ \A i \in 1..Len(head) : head'[i] = head[i]
      /\ head'[Len(head) + 1] = c
  BY <1>1, <1>2, AppendProperties DEF TypeOK
<1>5. \A i, j \in DOMAIN head' : i < j => head'[i].id < head'[j].id
  <2> SUFFICES ASSUME NEW i \in DOMAIN head', NEW j \in DOMAIN head', i < j
               PROVE  head'[i].id < head'[j].id
    OBVIOUS
  <2>1. i \in DOMAIN head /\ head'[i] = head[i] /\ head[i].id \in InHead
    BY <1>4 DEF InHead
  <2>2. QED
    BY <1>1, <1>4, <2>1 DEF Ordered
<1>6. \A i \in DOMAIN head' : Logged(head'[i], log')
  BY <1>1, <1>2, <1>4 DEF Ordered
<1>7. \A i, j \in Waiting("command")' : i < j => inbox'[i][2].id < inbox'[j][2].id
  <2> SUFFICES ASSUME NEW i \in Waiting("command")', NEW j \in Waiting("command")', i < j
               PROVE  inbox'[i][2].id < inbox'[j][2].id
    OBVIOUS
  <2>1. i + 1 < j + 1
    BY <1>3
  <2>2. QED
    BY <1>3, <2>1 DEF Ordered
<1>8. \A i \in Waiting("command")' : Logged(inbox'[i][2], log')
  BY <1>2, <1>3 DEF Ordered
<1>9. \A i \in InHead', j \in InInbox' : i < j
  BY <1>1 DEF Ordered
<1>10. LastStartOwns'
  BY <1>1, <1>2 DEF LastStartOwns
<1>11. QED
  BY <1>2, <1>5, <1>6, <1>7, <1>8, <1>9, <1>10 DEF Ordered

LEMMA StatusKeepsOrder ==
  ASSUME OrderInv, TakeStatus
  PROVE  Ordered' /\ LastStartOwns'
<1> USE DEF OrderInv, OwnershipInv
<1>1. PICK ss, rs : Report(ss, rs)
  BY DEF TakeStatus, Begun, PlayEnded, RecordEnded, Stopped, ToneEnded, Unexpected
<1>2. UNCHANGED <<head, log>> /\ inbox # <<>> /\ inbox' = Tail(inbox) /\ InHead' = InHead
  BY <1>1 DEF Report, InHead
<1>3. InInbox' = InInbox
  BY <1>1, ReportIds
<1>4. current' \in {current, None}
  BY DEF TakeStatus, Begun, PlayEnded, RecordEnded, Stopped, ToneEnded, Unexpected, Release
<1>5. \A i \in Waiting("command")' : /\ i + 1 \in Waiting("command")
                                     /\ inbox'[i] = inbox[i + 1] /\ i \in Nat
  BY <1>2, InboxRead DEF Waiting
<1>6. \A i, j \in Waiting("command")' : i < j => inbox'[i][2].id < inbox'[j][2].id
  <2> SUFFICES ASSUME NEW i \in Waiting("command")', NEW j \in Waiting("command")', i < j
               PROVE  inbox'[i][2].id < inbox'[j][2].id
    OBVIOUS
  <2>1. i + 1 < j + 1
    BY <1>5
  <2>2. QED
    BY <1>5, <2>1 DEF Ordered
<1>7. QED
  BY <1>2, <1>3, <1>4, <1>5, <1>6 DEF Ordered, LastStartOwns

(* AMS drops commands of its list, and the one it starts was the newest     *)
(* start among those it keeps none of.                                      *)
LEMMA ExecuteKeepsOrder ==
  ASSUME OrderInv, Execute
  PROVE  Ordered' /\ LastStartOwns'
<1> USE DEF OrderInv, OwnershipInv
<1>1. UNCHANGED <<inbox, log>> /\ UNCHANGED <<Waiting("command"), InInbox>>
  BY DEF Execute, Postpone, LetRecorderGo, StartIdle, TakeOver, StopOnRequest, Pause, Resume,
         IgnoreAll, Decide, history, Waiting, InInbox
<1>2. CASE UNCHANGED <<head, current>>
  BY <1>1, <1>2 DEF Ordered, LastStartOwns, InHead
<1>3. CASE head' = <<>> /\ current' = current
  <2>1. InHead' = {}
    BY <1>3 DEF InHead
  <2>2. QED
    BY <1>1, <1>3, <2>1 DEF Ordered, LastStartOwns
<1>4. CASE TakeOver
  <2>1. PICK i \in DOMAIN head : head' = <<>> \/ head' = <<head[i]>>
    BY <1>4 DEF TakeOver, EmptyList
  <2>2. CASE head' = <<head[i]>>
    <3>1. DOMAIN head' = {1} /\ head'[1] = head[i]
      BY <2>2
    <3>2. InHead' = {head'[j].id : j \in DOMAIN head'}
      BY DEF InHead
    <3>3. InHead' = {head[i].id} /\ head[i].id \in InHead
      BY <3>1, <3>2 DEF InHead
    <3>4. current' = current
      BY <1>4 DEF TakeOver
    <3>5. QED
      BY <1>1, <3>1, <3>3, <3>4 DEF Ordered, LastStartOwns
  <2>3. QED
    BY <1>3, <1>4, <2>1, <2>2 DEF TakeOver
<1>5. CASE StartIdle
  <2>1. PICK i \in DOMAIN head : Start(head[i])
    BY <1>5 DEF StartIdle
  <2>2. head' = <<>> /\ InHead' = {} /\ current = None
    BY <1>5 DEF StartIdle, EmptyList, InHead
  <2>3. head[i] \in Command /\ Logged(head[i], log) /\ head[i].id \in InHead
    BY CommandsTyped DEF Ordered, InHead
  <2>4. current' \in {current, head[i], [head[i] EXCEPT !.tone = FALSE]}
    BY <2>1 DEF Start
  <2>5. CASE current' = current
    BY <1>1, <2>2, <2>5 DEF Ordered, LastStartOwns
  <2>6. CASE current' # current
    <3>1. Logged(current', log') /\ current'.id = head[i].id
      BY <1>1, <2>3, <2>4, <2>6 DEF Logged, Command
    <3>2. QED
      BY <1>1, <2>2, <2>3, <3>1 DEF Ordered, LastStartOwns
  <2>7. QED
    BY <2>5, <2>6
<1>6. QED
  BY <1>2, <1>3, <1>4, <1>5 DEF Execute, Postpone, LetRecorderGo, StopOnRequest, Pause,
    Resume, IgnoreAll, EmptyList, manager

(* The reports of the library and of the record thread do not change what   *)
(* waits of the commands.                                                   *)
LEMMA OthersAddReports ==
  ASSUME TypeOK, RecordThread \/ Library \/ BlockingFlips
  PROVE  /\ UNCHANGED <<head, log, told, current, state>>
         /\ InInbox' = InInbox /\ Waiting("command")' = Waiting("command")
         /\ \A i \in Waiting("command") : inbox'[i] = inbox[i]
<1>1. UNCHANGED <<head, log, told, current, state>>
  BY DEF RecordThread, RecorderBegin, RecorderOpen, RecorderTold, RecorderEnough,
    RecorderFails, RecorderClose, RecorderUnlock, RecorderStep, BlockingFlips, Library,
    PlayerObeys, PlayerFinishes, PlayerFails, MicObeys, MicFails, PlayerTurn, MicTurn, Emit,
    manager, history
<1>2. inbox' = inbox \/ \E s \in Statuses : inbox' = Append(inbox, <<"status", s>>)
  BY DEF RecordThread, RecorderBegin, RecorderOpen, RecorderTold, RecorderEnough,
    RecorderFails, RecorderClose, RecorderUnlock, SelfReportError, BlockingFlips, Library,
    PlayerObeys, PlayerFinishes, PlayerFails, MicObeys, MicFails, PlayerTurn, MicTurn, Emit,
    Statuses
<1>3. CASE inbox' = inbox
  BY <1>1, <1>3 DEF InInbox, Waiting
<1>4. CASE inbox' # inbox
  <2>1. PICK s \in Statuses : inbox' = Append(inbox, <<"status", s>>)
    BY <1>2, <1>4
  <2> DEFINE e == <<"status", s>>
  <2>2. e \in Event /\ e[1] # "command" /\ inbox' = Append(inbox, e)
    BY <2>1 DEF Event
  <2> HIDE DEF e
  <2>3. /\ InInbox' = InInbox \cup {} /\ Waiting("command")' = Waiting("command") \cup {}
        /\ \A i \in 1..Len(inbox) : inbox'[i] = inbox[i]
    BY <2>2, ArrivingIds, InboxAppend
  <2>4. Waiting("command") \subseteq 1..Len(inbox)
    BY InboxElements DEF Waiting
  <2>5. QED
    BY <1>1, <2>3, <2>4
<1>5. QED
  BY <1>3, <1>4

LEMMA OrderInductive == OrderInv /\ [Next]_vars => OrderInv'
<1> SUFFICES ASSUME OrderInv, [Next]_vars PROVE OrderInv'
  OBVIOUS
<1>1. OwnershipInv' /\ TypeOK
  BY OwnershipInductive DEF OrderInv, OwnershipInv
<1>2. ASSUME NEW r \in Requests, Ask(r) PROVE OrderInv'
  BY <1>1, <1>2, AskKeepsOrder DEF OrderInv
<1>3. CASE AMS
  BY <1>1, <1>3, TakeCommandKeepsOrder, StatusKeepsOrder, ExecuteKeepsOrder DEF AMS, OrderInv
<1>4. CASE RecordThread \/ Library \/ BlockingFlips
  <2>1. InHead' = InHead
    BY <1>1, <1>4, OthersAddReports DEF InHead
  <2>2. Ordered' /\ LastStartOwns'
    BY <1>1, <1>4, <2>1, OthersAddReports DEF OrderInv, Ordered, LastStartOwns
  <2>3. QED
    BY <1>1, <2>2 DEF OrderInv
<1>5. CASE UNCHANGED vars
  BY <1>1, <1>5 DEF vars, manager, history, OrderInv, Ordered, LastStartOwns, InHead, InInbox,
    Waiting
<1>6. QED
  BY <1>2, <1>3, <1>4, <1>5 DEF Next

LEMMA InitOrder == Init => OrderInv
<1> SUFFICES ASSUME Init PROVE OrderInv
  OBVIOUS
<1>1. InInbox = {} /\ InHead = {} /\ Waiting("command") = {} /\ DOMAIN head = {}
  BY DEF Init, InInbox, InHead, Waiting
<1>2. QED
  BY <1>1, InitType
     DEF Init, OrderInv, Ordered, LastStartOwns, OwnershipInv, Ownership, PlayStates, RecordStates

(* Nothing older than the app that owns the audio waits to take it, for any *)
(* clients and queues, also when the library blocks a start or a stop and   *)
(* when the microphone fails.                                               *)
THEOREM LastStartHolds == Spec => []LastStartOwns
<1>1. OrderInv => LastStartOwns
  BY DEF OrderInv
<1>2. QED
  BY <1>1, InitOrder, OrderInductive, PTL DEF Spec

-----------------------------------------------------------------------------
(* THE VERDICTS, while the library does not block: what has been told is    *)
(* exactly the starts that are neither in a list nor playing any more.      *)
StartsLogged == {i \in Accepted : log[i].msg \in StartMsgs}
Pending      == InInbox \cup InHead \cup Unstopped
Verdicts     == \A i \in Ids : told[i] = IF i \in StartsLogged \ Pending THEN 1 ELSE 0

VerdictInv == OrderInv /\ blocking = FALSE /\ Verdicts

(* What AMS has read of starts, and who owns the audio, in terms of the log. *)
LEMMA ListedStarts ==
  ASSUME OrderInv
  PROVE  /\ StartIds(head) = StartsLogged \cap InHead
         /\ \A i \in DOMAIN head : i \in Starts(head) <=> head[i].id \in StartsLogged
         /\ StartsLogged \subseteq Ids
         /\ Unstopped \subseteq StartsLogged /\ Unstopped \cap (InInbox \cup InHead) = {}
<1> USE DEF OrderInv, OwnershipInv
<1>1. \A i \in DOMAIN head : head[i].id \in Accepted /\ log[head[i].id].msg = head[i].msg
  BY DEF Ordered, Logged, Accepted
<1>2. \A i \in DOMAIN head : i \in Starts(head) <=> head[i].id \in StartsLogged
  BY <1>1 DEF Starts, StartsLogged
<1>3. StartIds(head) = StartsLogged \cap InHead
  BY <1>2 DEF StartIds, Starts, InHead
<1>4. StartsLogged \subseteq Ids
  BY CommandsTyped DEF StartsLogged, Accepted
<1>5. ASSUME current # None PROVE current.id \in StartsLogged
  <2>1. state \in PlayStates \cup RecordStates
    BY <1>5 DEF Ownership, TypeOK, States, PlayStates, RecordStates
  <2>2. current.msg \in StartMsgs
    BY <2>1 DEF Ownership, StartMsgs
  <2>3. QED
    BY <1>5, <2>2 DEF Ordered, Logged, StartsLogged, Accepted
<1>6. Unstopped \subseteq StartsLogged
  BY <1>5 DEF Unstopped
<1>7. ASSUME NEW j \in Unstopped, j \in InInbox \cup InHead PROVE FALSE
  <2>1. j = current.id /\ current # None /\ j \in Ids
    BY <1>4, <1>6, <1>7 DEF Unstopped
  <2>2. QED
    BY <1>7, <2>1 DEF LastStartOwns, Ids
<1>8. QED
  BY <1>2, <1>3, <1>4, <1>6, <1>7

(* Starts that wait for AMS to act upon them, and those that have their end. *)
Asked    == StartsLogged \cap (InInbox \cup InHead)
Answered == StartsLogged \ Pending

(* All that a step of AMS does to the starts: some that wait are told that  *)
(* they end, alone or with the owner; or the newest that was read gets the  *)
(* audio, and the older ones are told.                                      *)
Dropping(ids) == StartsLogged' = StartsLogged /\ ids \subseteq Asked /\ Asked' = Asked \ ids

Drop(ids) ==
  /\ Dropping(ids) /\ Unstopped' = Unstopped
  /\ Settle(ids) \/ (ids = {} /\ told' = told)

DropWithOwner(ids) ==
  /\ Dropping(ids) /\ Unstopped # {} /\ Unstopped' = {}
  /\ Settle(ids \cup Unstopped)

Promote(h) ==
  /\ StartsLogged' = StartsLogged /\ h \in Asked
  /\ Unstopped = {} /\ Unstopped' = {h}
  /\ Asked' = {s \in Asked : s > h} /\ Settle({s \in Asked : s < h})

Moves == \/ \E ids : Drop(ids) \/ DropWithOwner(ids)
         \/ \E h : Promote(h)

LEMMA MovesKeepVerdicts ==
  ASSUME VerdictInv, Moves
  PROVE  Verdicts'
<1> USE DEF VerdictInv
<1>1. /\ StartsLogged \subseteq Ids /\ Unstopped \subseteq StartsLogged
      /\ Unstopped \cap Asked = {}
  BY ListedStarts DEF Asked
<1>2. StartsLogged' = StartsLogged
  BY DEF Moves, Drop, DropWithOwner, Dropping, Promote
<1>3. /\ Answered = StartsLogged \ (Asked \cup Unstopped)
      /\ Answered' = StartsLogged \ (Asked' \cup Unstopped')
  BY <1>2 DEF Answered, Asked, Pending
<1>4. \A i \in Ids : told[i] = IF i \in Answered THEN 1 ELSE 0
  BY DEF Verdicts, Answered
<1>5. PICK ids :
        /\ \A i \in Ids : told'[i] = IF i \in ids THEN told[i] + 1 ELSE told[i]
        /\ ids \subseteq StartsLogged \ Answered /\ Answered' = Answered \cup ids
  <2>1. ASSUME NEW ids, Drop(ids)
        PROVE  /\ \A i \in Ids : told'[i] = IF i \in ids THEN told[i] + 1 ELSE told[i]
               /\ ids \subseteq StartsLogged \ Answered /\ Answered' = Answered \cup ids
    BY <1>1, <1>3, <2>1 DEF Drop, Dropping, Asked, Settle
  <2>2. ASSUME NEW ids, DropWithOwner(ids)
        PROVE  /\ \A i \in Ids : told'[i] = IF i \in ids \cup Unstopped THEN told[i] + 1 ELSE told[i]
               /\ ids \cup Unstopped \subseteq StartsLogged \ Answered
               /\ Answered' = Answered \cup (ids \cup Unstopped)
    BY <1>1, <1>3, <2>2 DEF DropWithOwner, Dropping, Asked, Settle
  <2>3. ASSUME NEW h, Promote(h)
        PROVE  \E ids : /\ \A i \in Ids : told'[i] = IF i \in ids THEN told[i] + 1 ELSE told[i]
                        /\ ids \subseteq StartsLogged \ Answered /\ Answered' = Answered \cup ids
    <3> DEFINE older == {s \in Asked : s < h}
    <3>1. \A s \in Asked : s \in Nat /\ h \in Nat
      BY <1>1, <2>3 DEF Promote, Asked, Ids
    <3>2. Asked' \cup {h} = Asked \ older
      BY <2>3, <3>1 DEF Promote
    <3>3. older \subseteq StartsLogged \ Answered /\ Answered' = Answered \cup older
      BY <1>1, <1>3, <2>3, <3>2 DEF Promote, Asked
    <3>4. \A i \in Ids : told'[i] = IF i \in older THEN told[i] + 1 ELSE told[i]
      BY <2>3 DEF Promote, Settle
    <3>5. QED
      BY <3>3, <3>4
  <2>4. QED
    BY <2>1, <2>2, <2>3 DEF Moves
<1>6. \A i \in Ids : told'[i] = IF i \in Answered' THEN 1 ELSE 0
  BY <1>4, <1>5
<1>7. QED
  BY <1>6 DEF Verdicts, Answered

(* A client's command is a start that waits, or nothing that is answered.   *)
LEMMA AskMoves ==
  ASSUME VerdictInv, NEW r \in Requests, Ask(r)
  PROVE  /\ UNCHANGED <<told, Unstopped, Answered>>
         /\ \/ UNCHANGED Asked
            \/ /\ Len(log) + 1 \in Ids /\ Asked' = Asked \cup {Len(log) + 1}
               /\ \A s \in StartsLogged : s < Len(log) + 1
<1> USE DEF VerdictInv, OrderInv, OwnershipInv
<1> DEFINE n == Len(log) + 1
<1>1. UNCHANGED <<head, current, state, told>> /\ InHead' = InHead /\ Unstopped' = Unstopped
  BY DEF Ask, manager, InHead, Unstopped
<1>2. /\ \A i \in Accepted : i \in DOMAIN log /\ log'[i] = log[i] /\ i # n
      /\ \/ Accepted' = Accepted \cup {n} /\ InInbox' = InInbox \cup {n}
         \/ Accepted' = Accepted /\ InInbox' = InInbox
  <2>1. r \in Request /\ r # None
    BY ManagerAssumption
  <2>2. CASE ~RoomForCommand
    <3>1. log' = Append(log, None) /\ inbox' = inbox
      BY <2>2 DEF Ask
    <3>2. InInbox' = InInbox
      BY <3>1 DEF InInbox, Waiting
    <3>3. QED
      BY <3>1, <3>2, LogGrows, CommandsTyped DEF Accepted
  <2>3. CASE RoomForCommand
    <3> DEFINE e == <<"command", Numbered(r)>>
    <3>1. /\ e \in Event /\ e[1] = "command" /\ e[2].id = n
          /\ inbox' = Append(inbox, e) /\ log' = Append(log, r)
      BY <2>3, NewCommand DEF Ask, Event, Numbered
    <3> HIDE DEF e
    <3>2. InInbox' = InInbox \cup {n}
      BY <3>1, ArrivingIds
    <3>3. QED
      BY <2>1, <3>1, <3>2, LogGrows, CommandsTyped DEF Accepted
  <2>4. QED
    BY <2>2, <2>3
<1>3. n \in Ids /\ \A s \in StartsLogged : s < n
  BY CommandsTyped, CommandAssumption DEF Ask, Ids, StartsLogged, Accepted
<1>4. /\ \A i \in InInbox \cup InHead \cup Unstopped : i # n
      /\ \A i : i # n => (i \in StartsLogged' <=> i \in StartsLogged)
      /\ n \notin StartsLogged
  <2>1. InInbox \cup InHead \subseteq Accepted
    BY DEF InInbox, InHead, Ordered, Logged, Accepted
  <2>2. QED
    BY <1>2, <1>3, <2>1, ListedStarts DEF StartsLogged
<1>5. Answered' = Answered
  <2>1. n \in StartsLogged' => n \in Pending'
    BY <1>2, <1>4 DEF Pending, StartsLogged
  <2>2. \A i : i # n => (i \in Pending' <=> i \in Pending)
    BY <1>1, <1>2 DEF Pending
  <2>3. QED
    BY <1>4, <2>1, <2>2 DEF Answered
<1>6. Asked' = Asked \/ Asked' = Asked \cup {n}
  <2>1. \A i : i # n => (i \in Asked' <=> i \in Asked)
    BY <1>1, <1>2, <1>4 DEF Asked
  <2>2. n \notin Asked
    BY <1>4 DEF Asked
  <2>3. CASE n \in Asked'
    BY <2>1, <2>2, <2>3
  <2>4. CASE n \notin Asked'
    BY <2>1, <2>2, <2>4
  <2>5. QED
    BY <2>3, <2>4
<1>7. QED
  BY <1>1, <1>3, <1>5, <1>6

LEMMA EventsMove ==
  ASSUME VerdictInv, TakeCommand \/ TakeStatus
  PROVE  Moves
<1> USE DEF VerdictInv, OrderInv, OwnershipInv
<1>1. StartsLogged' = StartsLogged
  BY DEF TakeCommand, TakeStatus, Begun, PlayEnded, RecordEnded, Stopped, ToneEnded,
         Unexpected, Report, history, StartsLogged, Accepted
<1>2. InInbox' \cup InHead' = InInbox \cup InHead
  <2>1. CASE TakeCommand
    BY <2>1, CommandIds
  <2>2. CASE TakeStatus
    <3>1. PICK ss, rs : Report(ss, rs)
      BY <2>2 DEF TakeStatus, Begun, PlayEnded, RecordEnded, Stopped, ToneEnded, Unexpected
    <3>2. InInbox' = InInbox /\ InHead' = InHead
      BY <3>1, ReportIds DEF Report, InHead
    <3>3. QED
      BY <3>2
  <2>3. QED
    BY <2>1, <2>2
<1>3. Dropping({})
  BY <1>1, <1>2 DEF Dropping, Asked
<1>4. CASE told' = told /\ Unstopped' = Unstopped
  BY <1>3, <1>4 DEF Drop, Moves
<1>5. CASE PlayEnded \/ RecordEnded
  <2>1. /\ Settle({current.id}) /\ current' = None
        /\ state \in {"PLAYING", "START_PLAY", "PAUSE_PLAY", "START_RECORD", "RECORDING"}
    BY <1>5 DEF PlayEnded, RecordEnded, Report, Release
  <2>2. Unstopped = {current.id} /\ Unstopped' = {}
    BY <2>1 DEF Unstopped, Ownership
  <2>3. {} \cup Unstopped = {current.id}
    BY <2>2
  <2>4. DropWithOwner({})
    BY <1>3, <2>1, <2>2, <2>3 DEF DropWithOwner
  <2>5. QED
    BY <2>4 DEF Moves
<1>6. CASE Stopped
  BY <1>4, <1>6 DEF Stopped, Report, Release, Unstopped
<1>7. CASE TakeCommand \/ Begun \/ Unexpected
  BY <1>4, <1>7 DEF TakeCommand, Begun, Unexpected, Report, Unstopped, history
<1>8. CASE ToneEnded
  BY <1>4, <1>8 DEF ToneEnded, Report, Play, Unstopped
<1>9. QED
  BY <1>5, <1>6, <1>7, <1>8 DEF TakeStatus

(* With no blocking a stop makes the owner one who has been told. *)
LEMMA StopUnblocked ==
  ASSUME VerdictInv, NEW ids, Stop(ids), current' = current, current # None
  PROVE  Settle(ids \cup Unstopped) /\ Unstopped' = {} /\ Unstopped # {}
  BY DEF VerdictInv, Stop, AfterStop, Unstopped

(* The newest start of the list is above the others, below the queue. *)
LEMMA LastStartIsNewest ==
  ASSUME OrderInv, NEW i \in DOMAIN head, IsLastStart(head, i)
  PROVE  /\ head[i].id \in StartIds(head)
         /\ \A s \in StartIds(head) : s = head[i].id \/ s < head[i].id
         /\ \A s \in InInbox : s > head[i].id
<1> USE DEF OrderInv, OwnershipInv
<1>1. head[i].id \in StartIds(head) /\ head[i].id \in InHead
  BY DEF IsLastStart, StartIds, InHead
<1>2. ASSUME NEW s \in StartIds(head) PROVE s = head[i].id \/ s < head[i].id
  <2>1. PICK j \in Starts(head) : s = head[j].id
    BY DEF StartIds
  <2>2. j \in DOMAIN head /\ j <= i /\ i \in Nat /\ j \in Nat
    BY <2>1 DEF IsLastStart, Starts, TypeOK
  <2>3. QED
    BY <2>1, <2>2 DEF Ordered
<1>3. \A s \in InInbox : s > head[i].id
  BY <1>1, CommandsTyped DEF Ordered, Ids
<1>4. QED
  BY <1>1, <1>2, <1>3

LEMMA ExecuteMoves ==
  ASSUME VerdictInv, Execute
  PROVE  Moves
<1> USE DEF VerdictInv, OrderInv, OwnershipInv
<1>1. UNCHANGED <<inbox, log>>
  BY DEF Execute, Postpone, LetRecorderGo, StartIdle, TakeOver, StopOnRequest, Pause, Resume,
         IgnoreAll, Decide, history
<1>2. StartsLogged' = StartsLogged /\ InInbox' = InInbox
  BY <1>1 DEF StartsLogged, Accepted, InInbox, Waiting
<1>3. StartIds(head) = StartsLogged \cap InHead /\ InHead \cap InInbox = {}
  <2>1. InHead \cap InInbox = {}
    BY CommandsTyped DEF Ordered, Ids
  <2>2. QED
    BY <2>1, ListedStarts
<1>4. ASSUME NEW ids \in SUBSET StartIds(head),
             StartsLogged \cap InHead' = (StartsLogged \cap InHead) \ ids
      PROVE  Dropping(ids)
  BY <1>2, <1>3, <1>4 DEF Dropping, Asked
<1>5. head' = <<>> => Dropping(StartIds(head))
  <2>1. head' = <<>> => InHead' = {}
    BY DEF InHead
  <2>2. QED
    BY <1>3, <1>4, <2>1
<1>6. CASE Postpone \/ LetRecorderGo
  <2>1. UNCHANGED <<told, head, state, current>>
    BY <1>6 DEF Postpone, LetRecorderGo, manager, history
  <2>2. Dropping({}) /\ Unstopped' = Unstopped
    BY <1>4, <2>1 DEF InHead, Unstopped
  <2>3. QED
    BY <2>1, <2>2 DEF Drop, Moves
<1>7. CASE Pause \/ Resume
  <2>1. told' = told /\ head' = <<>> /\ StartIds(head) = {} /\ Unstopped' = Unstopped
    BY <1>7 DEF Pause, Resume, Wants, EmptyList, AfterResume, Unstopped, StartIds
  <2>2. QED
    BY <1>5, <2>1 DEF Drop, Moves
<1>8. CASE IgnoreAll
  <2>1. Settle(StartIds(head)) /\ head' = <<>> /\ Unstopped' = Unstopped
    BY <1>8 DEF IgnoreAll, EmptyList, Unstopped
  <2>2. QED
    BY <1>5, <2>1 DEF Drop, Moves
<1>9. CASE StopOnRequest
  <2>1. Stop({}) /\ head' = <<>> /\ StartIds(head) = {} /\ current' = current /\ current # None
    BY <1>9 DEF StopOnRequest, EmptyList, StartIds
  <2>2. QED
    BY <1>5, <2>1, StopUnblocked DEF DropWithOwner, Moves
<1>10. CASE TakeOver
  <2>1. PICK i \in DOMAIN head :
          \/ head' = <<>> /\ Stop(StartIds(head))
          \/ head' = <<head[i]>> /\ Stop(Refused(i))
    BY <1>10 DEF TakeOver, EmptyList
  <2>2. current' = current /\ current # None
    BY <1>10 DEF TakeOver
  <2>3. CASE head' = <<>> /\ Stop(StartIds(head))
    BY <1>5, <2>2, <2>3, StopUnblocked DEF DropWithOwner, Moves
  <2>4. CASE head' = <<head[i]>> /\ Stop(Refused(i))
    <3>1. InHead' = {head[i].id}
      <4>1. DOMAIN head' = {1} /\ head'[1] = head[i]
        BY <2>4
      <4>2. InHead' = {head'[j].id : j \in DOMAIN head'}
        BY DEF InHead
      <4>3. QED
        BY <4>1, <4>2
    <3>2. head[i].id \in InHead
      BY DEF InHead
    <3>3. Dropping(Refused(i))
      BY <1>3, <1>4, <3>1, <3>2 DEF Refused
    <3>4. QED
      BY <2>2, <2>4, <3>3, StopUnblocked DEF DropWithOwner, Moves
  <2>5. QED
    BY <2>1, <2>3, <2>4
<1>11. CASE StartIdle
  <2>1. PICK i \in DOMAIN head : Start(head[i]) /\ Settle(Refused(i)) /\ IsLastStart(head, i)
    BY <1>11 DEF StartIdle
  <2>2. head' = <<>> /\ Unstopped = {}
    BY <1>11 DEF StartIdle, EmptyList, Unstopped
  <2>3. /\ current' \in {head[i], [head[i] EXCEPT !.tone = FALSE]}
        /\ state' \in {"START_PLAY", "START_RECORD"}
    BY <2>1 DEF Start, Play
  <2>4. head[i] \in Command /\ current'.id = head[i].id /\ current' # None
    <3>1. head[i] \in Command
      BY CommandsTyped
    <3>2. current' \in Command /\ current'.id = head[i].id
      BY <2>3, <3>1 DEF Command, Request
    <3>3. QED
      BY <3>1, <3>2, ManagerAssumption
  <2>5. Unstopped' = {head[i].id}
    BY <2>3, <2>4 DEF Unstopped
  <2>6. /\ head[i].id \in StartIds(head) /\ head[i].id \in Nat
        /\ \A s \in StartIds(head) : s = head[i].id \/ s < head[i].id
        /\ \A s \in InInbox : s > head[i].id
    BY <2>1, <2>4, LastStartIsNewest DEF Command, Ids
  <2>7. InInbox \subseteq Nat /\ StartIds(head) \subseteq Nat
    BY <1>3, CommandsTyped DEF Ids
  <2>8. Asked = StartIds(head) \cup (StartsLogged \cap InInbox) /\ Asked' = Asked \ StartIds(head)
    BY <1>3, <1>5, <2>2 DEF Asked, Dropping
  <2>9. {s \in Asked : s < head[i].id} = Refused(i)
    <3>1. ASSUME NEW s \in Asked, s < head[i].id PROVE s \in Refused(i)
      <4>1. s \in Nat
        BY <2>7, <2>8
      <4>2. ~(s > head[i].id) /\ s # head[i].id
        BY <2>6, <3>1, <4>1
      <4>3. s \in StartIds(head)
        BY <2>6, <2>8, <4>2
      <4>4. QED
        BY <4>2, <4>3 DEF Refused
    <3>2. ASSUME NEW s \in Refused(i) PROVE s \in Asked /\ s < head[i].id
      BY <2>6, <2>8, <3>2 DEF Refused
    <3>3. QED
      BY <3>1, <3>2
  <2>10. Asked' = {s \in Asked : s > head[i].id}
    <3>1. ASSUME NEW s \in Asked' PROVE s \in Asked /\ s > head[i].id
      BY <2>6, <2>8, <3>1
    <3>2. ASSUME NEW s \in Asked, s > head[i].id PROVE s \in Asked'
      BY <2>6, <2>7, <2>8, <3>2
    <3>3. QED
      BY <3>1, <3>2
  <2>11. Promote(head[i].id)
    BY <1>2, <2>1, <2>2, <2>5, <2>6, <2>8, <2>9, <2>10 DEF Promote
  <2>12. QED
    BY <2>11 DEF Moves
<1>12. QED
  BY <1>6, <1>7, <1>8, <1>9, <1>10, <1>11 DEF Execute

(* Every step but a client's moves the starts, if only by not at all. *)
LEMMA NextMoves ==
  ASSUME VerdictInv, [Next]_vars, \A r \in Requests : ~Ask(r)
  PROVE  Moves
<1>1. CASE AMS
  BY <1>1, EventsMove, ExecuteMoves DEF AMS
<1>2. CASE ~AMS
  <2>1. UNCHANGED <<head, log, told, current, state>> /\ InInbox' = InInbox
    <3>1. CASE UNCHANGED vars
      BY <3>1 DEF vars, manager, history, InInbox, Waiting
    <3>2. CASE RecordThread \/ Library \/ BlockingFlips
      BY <3>2, OthersAddReports DEF VerdictInv, OrderInv, OwnershipInv
    <3>3. QED
      BY <1>2, <3>1, <3>2 DEF Next
  <2>2. Dropping({}) /\ Unstopped' = Unstopped
    BY <2>1 DEF Dropping, Asked, StartsLogged, Accepted, InHead, Unstopped
  <2>3. QED
    BY <2>1, <2>2 DEF Drop, Moves
<1>3. QED
  BY <1>1, <1>2

(* Only the library itself raises _blocking. *)
LEMMA NeverBlocks ==
  ASSUME ~MayBlock, [Next]_vars
  PROVE  blocking' = blocking
  BY DEF vars, library, Next, Ask, AMS, TakeCommand, TakeStatus, Begun, PlayEnded, RecordEnded,
    Stopped, ToneEnded, Unexpected, Report, Execute, Postpone, LetRecorderGo, StartIdle,
    TakeOver, StopOnRequest, Pause, Resume, IgnoreAll, Decide, RecordThread, RecorderBegin,
    RecorderOpen, RecorderTold, RecorderEnough, RecorderFails, RecorderClose, RecorderUnlock,
    RecorderStep, Library, PlayerObeys, PlayerFinishes, PlayerFails, MicObeys, MicFails,
    PlayerTurn, MicTurn, BlockingFlips

LEMMA VerdictInductive ==
  ASSUME ~MayBlock
  PROVE  VerdictInv /\ [Next]_vars => VerdictInv'
<1> SUFFICES ASSUME VerdictInv, [Next]_vars PROVE VerdictInv'
  OBVIOUS
<1>1. OrderInv' /\ blocking' = FALSE
  BY OrderInductive, NeverBlocks DEF VerdictInv
<1>2. ASSUME NEW r \in Requests, Ask(r) PROVE Verdicts'
  BY <1>2, AskMoves DEF VerdictInv, Verdicts, Answered
<1>3. CASE \A r \in Requests : ~Ask(r)
  <2>1. Moves
    BY <1>3, NextMoves
  <2>2. QED
    BY <1>1, <2>1, MovesKeepVerdicts DEF VerdictInv
<1>4. QED
  BY <1>1, <1>2, <1>3 DEF VerdictInv

LEMMA InitVerdicts == Init => VerdictInv
<1> SUFFICES ASSUME Init PROVE VerdictInv
  OBVIOUS
<1>1. StartsLogged = {}
  BY DEF Init, StartsLogged, Accepted
<1>2. QED
  BY <1>1, InitOrder DEF Init, VerdictInv, Verdicts

(* While the library does not block, every start command that got into the  *)
(* queue is answered exactly once, when it stops waiting and playing and    *)
(* not before, even when the microphone fails and reports twice.            *)
THEOREM VerdictHolds ==
  ASSUME ~MayBlock
  PROVE  Spec => []OneVerdict
<1>1. VerdictInv => OneVerdict
  <2> SUFFICES ASSUME VerdictInv PROVE OneVerdict
    OBVIOUS
  <2>1. Accepted \subseteq Ids
    BY CommandsTyped DEF VerdictInv, OrderInv, OwnershipInv, Accepted
  <2>2. QED
    BY <2>1 DEF VerdictInv, Verdicts, OneVerdict, StartsLogged, Pending
<1>2. QED
  BY <1>1, InitVerdicts, VerdictInductive, PTL DEF Spec

-----------------------------------------------------------------------------
(* THE STOPS, while the library does not block.  A command AMS drops without *)
(* acting upon it, later than one it keeps, is of another app: so no stop   *)
(* that was dropped was meant for the app that is started afterwards.       *)
Processed == Accepted \ (InInbox \cup InHead)

Fifo   == \A i \in Accepted \ InInbox, j \in InInbox : i < j
Spared == \A i \in Processed, k \in DOMAIN head :
            i > head[k].id => log[i].app # head[k].app

StopInv == OrderInv /\ blocking = FALSE /\ Fifo /\ Spared /\ StopHonoured

LEMMA AskKeepsStops ==
  ASSUME StopInv, NEW r \in Requests, Ask(r)
  PROVE  Fifo' /\ Spared' /\ StopHonoured'
<1> USE DEF StopInv, OrderInv, OwnershipInv
<1>1. UNCHANGED <<head, current, state>> /\ InHead' = InHead
  BY DEF Ask, manager, InHead
<1>2. /\ \A i \in Accepted : i \in Nat /\ log'[i] = log[i] /\ i < Len(log) + 1
      /\ \/ Accepted' = Accepted \cup {Len(log) + 1} /\ InInbox' = InInbox \cup {Len(log) + 1}
         \/ Accepted' = Accepted /\ InInbox' = InInbox
  <2>1. \A i \in Accepted : i \in Nat /\ i \in DOMAIN log /\ i < Len(log) + 1
    BY CommandsTyped DEF Accepted
  <2>2. \A x \in Request \cup {None} : log' = Append(log, x) =>
          /\ \A i \in DOMAIN log : log'[i] = log[i]
          /\ Accepted' = Accepted \cup (IF x = None THEN {} ELSE {Len(log) + 1})
    BY LogGrows
  <2>3. r \in Request /\ r # None
    BY ManagerAssumption
  <2>4. CASE ~RoomForCommand
    <3>1. log' = Append(log, None) /\ inbox' = inbox
      BY <2>4 DEF Ask
    <3>2. InInbox' = InInbox
      BY <3>1 DEF InInbox, Waiting
    <3>3. QED
      BY <2>1, <2>2, <3>1, <3>2
  <2>5. CASE RoomForCommand
    <3> DEFINE e == <<"command", Numbered(r)>>
    <3>1. /\ e \in Event /\ e[1] = "command" /\ e[2].id = Len(log) + 1
          /\ inbox' = Append(inbox, e) /\ log' = Append(log, r)
      BY <2>5, NewCommand DEF Ask, Event, Numbered
    <3> HIDE DEF e
    <3>2. InInbox' = InInbox \cup {Len(log) + 1}
      BY <3>1, ArrivingIds
    <3>3. QED
      BY <2>1, <2>2, <2>3, <3>1, <3>2
  <2>6. QED
    BY <2>4, <2>5
<1>3. Processed' = Processed /\ \A i \in Processed : log'[i] = log[i]
  <2>1. \A i \in InHead : i < Len(log) + 1
    BY CommandsTyped DEF InHead, Ordered, Logged
  <2>2. QED
    BY <1>1, <1>2, <2>1 DEF Processed
<1>4. Fifo'
  <2>1. InInbox \subseteq Nat
    BY CommandsTyped DEF Ids
  <2>2. QED
    BY <1>2, <2>1 DEF Fifo
<1>5. Spared'
  BY <1>1, <1>3 DEF Spared
<1>6. StopHonoured'
  BY <1>1, <1>3 DEF StopHonoured, Processed
<1>7. QED
  BY <1>4, <1>5, <1>6

LEMMA TakeCommandKeepsStops ==
  ASSUME StopInv, TakeCommand
  PROVE  Fifo' /\ Spared' /\ StopHonoured'
<1> USE DEF StopInv, OrderInv, OwnershipInv
<1> DEFINE c == Head(inbox)[2]
<1>1. UNCHANGED <<log, state, current>> /\ Accepted' = Accepted /\ head' = Append(head, c)
  BY DEF TakeCommand, history, Accepted
<1>2. /\ c.id \in InInbox /\ c \in Command /\ \A j \in InInbox' : c.id < j
      /\ InInbox = InInbox' \cup {c.id} /\ InHead' = InHead \cup {c.id}
  BY CommandIds
<1> HIDE DEF c
<1>3. Processed' = Processed
  BY <1>1, <1>2 DEF Processed
<1>4. Fifo'
  BY <1>1, <1>2 DEF Fifo
<1>5. Spared'
  <2>1. /\ DOMAIN head = 1..Len(head) /\ Len(head) \in Nat
        /\ DOMAIN head' = 1..(Len(head) + 1)
        /\ \A i \in 1..Len(head) : head'[i] = head[i]
        /\ head'[Len(head) + 1] = c
    BY <1>1, <1>2, AppendProperties DEF TypeOK
  <2>2. \A i \in Processed : i < c.id /\ i \in Nat /\ c.id \in Nat
    BY <1>2, CommandsTyped DEF Fifo, Processed, Accepted, Command, Ids
  <2>3. QED
    BY <1>1, <1>3, <2>1, <2>2 DEF Spared
<1>6. StopHonoured'
  BY <1>1, <1>3 DEF StopHonoured, Processed
<1>7. QED
  BY <1>4, <1>5, <1>6

LEMMA StatusKeepsStops ==
  ASSUME StopInv, TakeStatus
  PROVE  Fifo' /\ Spared' /\ StopHonoured'
<1> USE DEF StopInv, OrderInv, OwnershipInv
<1>1. PICK ss, rs : Report(ss, rs)
  BY DEF TakeStatus, Begun, PlayEnded, RecordEnded, Stopped, ToneEnded, Unexpected
<1>2. /\ UNCHANGED <<head, log>> /\ Accepted' = Accepted
      /\ InInbox' = InInbox /\ InHead' = InHead
  BY <1>1, ReportIds DEF Report, InHead, Accepted
<1>3. Processed' = Processed
  BY <1>2 DEF Processed
<1>4. current' = None \/ (current' = current /\ (state' = state \/ state \notin {"STOP_PLAY", "STOP_RECORD"}))
  BY DEF TakeStatus, Begun, PlayEnded, RecordEnded, Stopped, ToneEnded, Unexpected, Release,
         Report
<1>5. StopHonoured'
  BY <1>2, <1>3, <1>4 DEF StopHonoured, Processed
<1>6. QED
  BY <1>2, <1>3, <1>5 DEF Fifo, Spared

(* With a command to decide upon and no stop asked of the owner, none of    *)
(* the list is a stop of the owner's kind.                                  *)
LEMMA NotAsked ==
  ASSUME OwnershipInv, Decide, current # None, ~StopAsked, NEW k \in DOMAIN head,
         head[k].app = current.app, head[k].msg \in StopMsgs
  PROVE  current.msg # StartOf(head[k].msg)
<1>1. state \in {"PLAYING", "PAUSE_PLAY", "RECORDING"}
  BY DEF OwnershipInv, Ownership, Decide, TypeOK, States, Delaying
<1>2. /\ state \in {"PLAYING", "PAUSE_PLAY"} => current.msg = "PLAY_START"
      /\ state = "RECORDING" => current.msg = "RECORD_START"
  BY DEF OwnershipInv, Ownership, PlayStates, RecordStates
<1>3. /\ state \in {"PLAYING", "PAUSE_PLAY"} => head[k].msg # "PLAY_STOP"
      /\ state = "RECORDING" => head[k].msg # "RECORD_STOP"
  BY DEF StopAsked, StopMsg, Asks
<1>4. QED
  BY <1>1, <1>2, <1>3 DEF StartOf, StopMsgs

(* What was dropped later than the start AMS acts upon is of other apps. *)
LEMMA DroppedAreOthers ==
  ASSUME StopInv, NEW i \in DOMAIN head, ~Superseded(head, i),
         NEW j \in Processed \cup InHead, j > head[i].id
  PROVE  log[j].app # head[i].app
<1> USE DEF StopInv, OrderInv, OwnershipInv
<1>1. CASE j \in Processed
  BY <1>1 DEF Spared
<1>2. CASE j \in InHead
  <2>1. PICK m \in DOMAIN head : j = head[m].id
    BY <1>2 DEF InHead
  <2>2. i \in Nat /\ m \in Nat /\ head[i].id \in Nat /\ head[m].id \in Nat
    <3>1. head \in Seq(Command)
      BY DEF TypeOK
    <3>2. head[i] \in Command /\ head[m] \in Command /\ i \in Nat /\ m \in Nat
      BY <3>1
    <3>3. QED
      BY <3>2 DEF Command, Ids
  <2>3. m > i
    BY <2>1, <2>2 DEF Ordered
  <2>4. head[m].app # head[i].app /\ log[j].app = head[m].app
    BY <2>1, <2>3 DEF Superseded, Ordered, Logged
  <2>5. QED
    BY <2>4
<1>3. QED
  BY <1>1, <1>2

LEMMA ExecuteKeepsStops ==
  ASSUME StopInv, Execute
  PROVE  Fifo' /\ Spared' /\ StopHonoured'
<1> USE DEF StopInv, OrderInv, OwnershipInv
<1>1. UNCHANGED <<inbox, log>>
  BY DEF Execute, Postpone, LetRecorderGo, StartIdle, TakeOver, StopOnRequest, Pause, Resume,
         IgnoreAll, Decide, history
<1>2. Accepted' = Accepted /\ InInbox' = InInbox
  BY <1>1 DEF Accepted, InInbox, Waiting
<1>3. Fifo'
  BY <1>2 DEF Fifo
<1>4. Processed' \subseteq Processed \cup InHead
  BY <1>2 DEF Processed
<1>5. CASE Postpone \/ LetRecorderGo
  <2>1. UNCHANGED <<head, state, current>> /\ InHead' = InHead
    BY <1>5 DEF Postpone, LetRecorderGo, manager, InHead
  <2>2. QED
    BY <1>1, <1>2, <1>3, <2>1 DEF Spared, StopHonoured, Processed
<1>6. CASE Pause \/ Resume \/ IgnoreAll
  <2>1. /\ Decide /\ head' = <<>> /\ current' = current
        /\ current # None => ~StopAsked
    BY <1>6 DEF Pause, Resume, IgnoreAll, Wants, EmptyList
  <2>2. state \notin {"STOP_PLAY", "STOP_RECORD"}
    BY <2>1 DEF Decide, Delaying
  <2>3. Spared'
    BY <2>1 DEF Spared
  <2>4. StopHonoured'
    <3> SUFFICES ASSUME NEW i \in Processed', log'[i].msg \in StopMsgs, current' # None,
                        current'.id < i, current'.app = log'[i].app,
                        current'.msg = StartOf(log'[i].msg)
                 PROVE  FALSE
      BY DEF StopHonoured, Processed
    <3>1. i \in InHead
      BY <1>1, <1>4, <2>1, <2>2 DEF StopHonoured, Processed
    <3>2. PICK k \in DOMAIN head : i = head[k].id
      BY <3>1 DEF InHead
    <3>3. head[k].app = current.app /\ head[k].msg = log[i].msg
      BY <1>1, <2>1, <3>2 DEF Ordered, Logged
    <3>4. QED
      BY <1>1, <2>1, <3>3, NotAsked
  <2>5. QED
    BY <1>3, <2>3, <2>4
<1>7. CASE TakeOver \/ StopOnRequest
  <2>1. state' \in {"STOP_PLAY", "STOP_RECORD"}
    BY <1>7 DEF TakeOver, StopOnRequest, Stop, AfterStop
  <2>2. StopHonoured'
    BY <2>1 DEF StopHonoured
  <2>3. CASE head' = <<>>
    BY <1>3, <2>2, <2>3 DEF Spared
  <2>4. CASE head' # <<>>
    <3>1. PICK i \in DOMAIN head : head' = <<head[i]>> /\ ~Superseded(head, i)
      BY <1>7, <2>4 DEF TakeOver, StopOnRequest, EmptyList
    <3>2. DOMAIN head' = {1} /\ head'[1] = head[i]
      BY <3>1
    <3>3. Spared'
      BY <1>1, <1>4, <3>1, <3>2, DroppedAreOthers DEF Spared
    <3>4. QED
      BY <1>3, <2>2, <3>3
  <2>5. QED
    BY <2>3, <2>4
<1>8. CASE StartIdle
  <2>1. PICK i \in DOMAIN head : Start(head[i]) /\ i \in Starts(head) /\ ~Superseded(head, i)
    BY <1>8 DEF StartIdle, IsLastStart
  <2>2. head[i] \in Command /\ head' = <<>>
    BY <1>8, CommandsTyped DEF StartIdle, EmptyList
  <2>3. current'.id = head[i].id /\ current'.app = head[i].app
    BY <2>1, <2>2 DEF Start, Command
  <2>4. Spared'
    BY <2>2 DEF Spared
  <2>5. StopHonoured'
    BY <1>1, <1>4, <2>1, <2>3, DroppedAreOthers DEF StopHonoured, Processed
  <2>6. QED
    BY <1>3, <2>4, <2>5
<1>9. QED
  BY <1>5, <1>6, <1>7, <1>8 DEF Execute

LEMMA StopInductive ==
  ASSUME ~MayBlock
  PROVE  StopInv /\ [Next]_vars => StopInv'
<1> SUFFICES ASSUME StopInv, [Next]_vars PROVE StopInv'
  OBVIOUS
<1>1. OrderInv' /\ TypeOK
  BY OrderInductive DEF StopInv, OrderInv, OwnershipInv
<1>2. blocking' = FALSE
  BY NeverBlocks DEF StopInv
<1>3. CASE AMS \/ \E r \in Requests : Ask(r)
  BY <1>1, <1>2, <1>3, AskKeepsStops, TakeCommandKeepsStops, StatusKeepsStops, ExecuteKeepsStops
     DEF AMS, StopInv
<1>4. CASE RecordThread \/ Library \/ BlockingFlips
  <2>1. UNCHANGED <<head, log, told, current, state>> /\ InInbox' = InInbox
    BY <1>1, <1>4, OthersAddReports
  <2>2. QED
    BY <1>1, <1>2, <2>1 DEF StopInv, Fifo, Spared, StopHonoured, Processed, Accepted, InHead
<1>5. CASE UNCHANGED vars
  BY <1>1, <1>2, <1>5 DEF vars, manager, history, StopInv, Fifo, Spared, StopHonoured, Processed,
    Accepted, InHead, InInbox, Waiting
<1>6. QED
  BY <1>3, <1>4, <1>5 DEF Next

(* While the library does not block, a stop AMS has read is never           *)
(* forgotten: neither while the playback is paused or starting, nor behind  *)
(* a start that waits for the audio.                                        *)
THEOREM StopHolds ==
  ASSUME ~MayBlock
  PROVE  Spec => []StopHonoured
<1>1. Init => StopInv
  <2> SUFFICES ASSUME Init PROVE StopInv
    OBVIOUS
  <2>1. Accepted = {} /\ InInbox = {}
    BY DEF Init, Accepted, InInbox, Waiting
  <2>2. QED
    BY <2>1, InitOrder DEF Init, StopInv, Fifo, Spared, StopHonoured, Processed
<1>2. StopInv => StopHonoured
  BY DEF StopInv
<1>3. QED
  BY <1>1, <1>2, StopInductive, PTL DEF Spec

-----------------------------------------------------------------------------
(* THE PROMISE.  Each move of the starts is a step of AudioFocus on those    *)
(* that wait, the owner and those that are answered.                        *)
Owner == IF Unstopped = {} THEN 0 ELSE current.id

Starting == INSTANCE AudioFocus WITH
  Requests <- Ids, waiting <- Asked, owner <- Owner, done <- Answered

OwnerUnstopped ==
  /\ Unstopped = {} \/ Unstopped = {Owner}
  /\ Unstopped = {} <=> Owner = 0
  /\ \A h : Unstopped = {h} => Owner = h

LEMMA OwnerIsUnstopped == OrderInv => OwnerUnstopped
<1> SUFFICES ASSUME OrderInv PROVE OwnerUnstopped
  OBVIOUS
<1>1. Unstopped = {} \/ (Unstopped = {current.id} /\ current.id \in Ids)
  BY ListedStarts DEF Unstopped
<1>2. QED
  BY <1>1 DEF OwnerUnstopped, Owner, Ids

LEMMA OwnerStaysUnstopped == OrderInv' => OwnerUnstopped'
  BY OwnerIsUnstopped, PTL

LEMMA MovesKeepPromise ==
  ASSUME VerdictInv, VerdictInv', Moves, Owner' = Owner \/ Unstopped' # Unstopped
  PROVE  Starting!Next \/ UNCHANGED <<Asked, Owner, Answered>>
<1>1. /\ Unstopped = {} \/ Unstopped = {Owner}
      /\ Unstopped = {} <=> Owner = 0
      /\ \A h : Unstopped = {h} => Owner = h
      /\ Unstopped' = {} \/ Unstopped' = {Owner'}
      /\ Unstopped' = {} <=> Owner' = 0
      /\ \A h : Unstopped' = {h} => Owner' = h
  BY OwnerStaysUnstopped, OwnerIsUnstopped DEF VerdictInv, OwnerUnstopped
<1>2. /\ StartsLogged \subseteq Ids /\ Unstopped \subseteq StartsLogged
      /\ Unstopped \cap Asked = {}
  BY ListedStarts DEF VerdictInv, Asked
<1>3. StartsLogged' = StartsLogged
  BY DEF Moves, Drop, DropWithOwner, Dropping, Promote
<1>4. /\ Answered = StartsLogged \ (Asked \cup Unstopped)
      /\ Answered' = StartsLogged \ (Asked' \cup Unstopped')
      /\ Asked \subseteq StartsLogged
  BY <1>3 DEF Answered, Asked, Pending
<1>5. ASSUME NEW ids, Drop(ids) PROVE Starting!Refuse(ids) /\ ids \in SUBSET Asked
  <2>1. ids \subseteq Asked /\ Asked' = Asked \ ids /\ Owner' = Owner
    BY <1>5 DEF Drop, Dropping
  <2>2. Answered' = Answered \cup ids
    BY <1>2, <1>4, <1>5, <2>1 DEF Drop
  <2>3. QED
    BY <2>1, <2>2 DEF Starting!Refuse
<1>6. ASSUME NEW ids, DropWithOwner(ids) PROVE Starting!Refuse(ids) /\ ids \in SUBSET Asked
  <2>1. /\ ids \subseteq Asked /\ Asked' = Asked \ ids
        /\ Unstopped = {Owner} /\ Owner # 0 /\ Owner' = 0 /\ Unstopped' = {}
    BY <1>1, <1>6 DEF DropWithOwner, Dropping
  <2>2. Answered' = Answered \cup ids \cup {Owner}
    BY <1>2, <1>4, <2>1
  <2>3. QED
    BY <2>1, <2>2 DEF Starting!Refuse
<1>7. ASSUME NEW h, Promote(h) PROVE Starting!Grant(h) /\ h \in Ids
  <2>1. /\ h \in Asked /\ Unstopped = {} /\ Owner = 0 /\ Owner' = h /\ Unstopped' = {h}
        /\ Asked' = {s \in Asked : s > h}
    BY <1>1, <1>7 DEF Promote
  <2>2. h \in Ids /\ \A s \in Asked : s \in Ids
    BY <1>2, <1>4, <2>1
  <2>3. \A s \in Asked : s = h \/ s < h \/ s > h
    BY <2>2 DEF Ids
  <2>4. \A s \in Asked : ~(s < h /\ s > h) /\ ~(s < h /\ s = h)
    BY <2>2 DEF Ids
  <2>5. Answered' = Answered \cup {s \in Asked : s < h}
    BY <1>4, <2>1, <2>3, <2>4
  <2>6. QED
    BY <2>1, <2>2, <2>5 DEF Starting!Grant
<1>8. QED
  BY <1>5, <1>6, <1>7 DEF Moves, Starting!Next

LEMMA StepKeepsPromise ==
  ASSUME VerdictInv, VerdictInv', [Next]_vars
  PROVE  Starting!Next \/ UNCHANGED <<Asked, Owner, Answered>>
<1>1. ASSUME NEW r \in Requests, Ask(r)
      PROVE  Starting!Next \/ UNCHANGED <<Asked, Owner, Answered>>
  <2>1. UNCHANGED <<Unstopped, Answered>> /\ current' = current
    BY <1>1, AskMoves DEF Ask, manager
  <2>2. Owner' = Owner
    BY <2>1 DEF Owner
  <2>3. CASE Asked' # Asked
    <3>1. /\ Len(log) + 1 \in Ids /\ Asked' = Asked \cup {Len(log) + 1}
          /\ \A s \in StartsLogged : s < Len(log) + 1
      BY <1>1, <2>3, AskMoves
    <3>2. Asked \cup Answered \cup {Owner} \subseteq StartsLogged \cup {0}
      BY OwnerIsUnstopped, ListedStarts DEF VerdictInv, OwnerUnstopped, Asked, Answered
    <3>3. 0 < Len(log) + 1
      BY <3>1 DEF Ids
    <3>4. Starting!Ask(Len(log) + 1)
      BY <2>1, <2>2, <3>1, <3>2, <3>3 DEF Starting!Ask
    <3>5. QED
      BY <3>1, <3>4 DEF Starting!Next
  <2>4. QED
    BY <2>1, <2>2, <2>3
<1>2. CASE \A r \in Requests : ~Ask(r)
  <2>1. Moves
    BY <1>2, NextMoves
  <2>2. OrderInv /\ OrderInv'
    BY DEF VerdictInv
  <2>3. Unstopped' = Unstopped => Owner' = Owner
    BY <2>2, OwnerIsUnstopped, OwnerStaysUnstopped DEF OwnerUnstopped
  <2>4. QED
    BY <2>1, <2>3, MovesKeepPromise
<1>3. QED
  BY <1>1, <1>2

(* The mapping of ImplementsFocus, in these terms. *)
Viewed ==
  /\ StartsAmong(InInbox \cup InHead) = Asked
  /\ {i \in Ids : told[i] > 0} = Answered

LEMMA FocusView == VerdictInv => Viewed
<1> SUFFICES ASSUME VerdictInv PROVE Viewed
  OBVIOUS
<1> USE DEF VerdictInv, OrderInv, OwnershipInv
<1>1. InInbox \cup InHead \subseteq Accepted
  BY DEF InInbox, InHead, Ordered, Logged, Accepted
<1>2. Answered \subseteq Ids
  BY ListedStarts DEF Answered
<1>3. \A i \in Ids : told[i] > 0 <=> i \in Answered
  BY DEF Verdicts, Answered
<1>4. QED
  BY <1>1, <1>2, <1>3 DEF Viewed, StartsAmong, Asked, StartsLogged

LEMMA FocusStaysViewed == VerdictInv' => Viewed'
  BY FocusView, PTL

(* While the library does not block, AMS keeps the promise of AudioFocus,   *)
(* whatever the record thread and the library do: starts wait, the newest   *)
(* that is granted leaves no older one waiting, and what has ended has      *)
(* ended for good.                                                          *)
THEOREM FocusKept ==
  ASSUME ~MayBlock
  PROVE  Spec => ImplementsFocus
<1> DEFINE W == StartsAmong(InInbox \cup InHead)
           O == IF Unstopped = {} THEN 0 ELSE current.id
           D == {i \in Ids : told[i] > 0}
<1>1. Init => Focus!Init
  <2> SUFFICES ASSUME Init PROVE Focus!Init
    OBVIOUS
  <2>1. InInbox = {} /\ InHead = {} /\ Unstopped = {} /\ \A i \in Ids : ~(told[i] > 0)
    BY DEF Init, InInbox, InHead, Waiting, Unstopped
  <2>2. QED
    BY <2>1 DEF Focus!Init, StartsAmong
<1>2. VerdictInv /\ VerdictInv' /\ [Next]_vars => [Focus!Next]_<<W, O, D>>
  <2> SUFFICES ASSUME VerdictInv, VerdictInv', [Next]_vars PROVE Focus!Next \/ UNCHANGED <<W, O, D>>
    OBVIOUS
  <2>1. W = Asked /\ D = Answered /\ O = Owner /\ W' = Asked' /\ D' = Answered' /\ O' = Owner'
    BY FocusView, FocusStaysViewed DEF Viewed, Owner
  <2>2. Starting!Next \/ UNCHANGED <<Asked, Owner, Answered>>
    BY StepKeepsPromise
  <2>3. QED
    BY <2>1, <2>2 DEF Focus!Next, Focus!Ask, Focus!Grant, Focus!Refuse,
      Starting!Next, Starting!Ask, Starting!Grant, Starting!Refuse
<1>3. QED
  BY <1>1, <1>2, InitVerdicts, VerdictInductive, PTL DEF Spec, ImplementsFocus, Focus!Spec, Focus!vars

-----------------------------------------------------------------------------
(* THE PLAYBACK.  The library's reports of a playback wait in order, so the  *)
(* one that AMS needs next is still there when the library is ahead,        *)
(* whatever stale reports wait before it.  A song that is paused while it   *)
(* plays does not end before it is resumed: it can only fail.               *)
Opening == {"PLAYING", "ERROR"}
Opens   == \E i \in Waiting("status") : inbox[i][2] \in Opening
Fails   == \E i \in Waiting("status") : inbox[i][2] = "ERROR"
OpensThenEnds ==
  \E i, j \in Waiting("status") :
    i <= j /\ inbox[i][2] \in Opening /\ inbox[j][2] \in Terminal

AliveInv ==
  /\ TypeOK
  /\ state = "START_PLAY" => player \in {"starting", "on", "off"}
  /\ state = "START_PLAY" /\ player = "on" => Opens
  /\ state = "START_PLAY" /\ player = "off" => OpensThenEnds
  /\ state = "PLAYING" /\ ~late_pause =>
       /\ player \in {"starting", "resuming", "on", "off"}
       /\ player = "off" => Ending
  /\ state = "PAUSE_PLAY" /\ ~late_pause =>
       /\ player \in {"pausing", "paused", "off"}
       /\ player = "off" => Fails
  /\ state = "STOP_PLAY" /\ ~late_pause =>
       /\ player \in {"stopping", "off"}
       /\ player = "off" => Ending

(* An arrival leaves the reports that wait where they are. *)
LEMMA ArrivalsKeepReports ==
  ASSUME TypeOK, NEW e \in Event, inbox' = Append(inbox, e)
  PROVE  /\ (Opens => Opens') /\ (OpensThenEnds => OpensThenEnds') /\ (Ending => Ending')
         /\ (Fails => Fails')
         /\ e[1] = "status" =>
              /\ e[2] \in Opening => Opens'
              /\ e[2] = "ERROR" => Fails'
              /\ e[2] \in Terminal => Ending'
              /\ e[2] \in Terminal /\ Opens => OpensThenEnds'
              /\ e[2] = "ERROR" => OpensThenEnds'
<1>1. /\ Waiting("status") \subseteq 1..Len(inbox) /\ Len(inbox) \in Nat
      /\ Waiting("status") \subseteq Waiting("status")'
      /\ e[1] = "status" => Len(inbox) + 1 \in Waiting("status")'
      /\ \A i \in Waiting("status") : inbox'[i] = inbox[i]
      /\ inbox'[Len(inbox) + 1] = e
  BY InboxAppend, InboxElements DEF Waiting
<1>2. (Opens => Opens') /\ (OpensThenEnds => OpensThenEnds') /\ (Ending => Ending') /\ (Fails => Fails')
  BY <1>1 DEF Opens, OpensThenEnds, Ending, Fails
<1>3. ASSUME e[1] = "status"
      PROVE  /\ e[2] \in Opening => Opens'
             /\ e[2] \in Terminal => Ending'
             /\ e[2] = "ERROR" => OpensThenEnds' /\ Fails'
  BY <1>1, <1>3 DEF Opens, OpensThenEnds, Ending, Fails, Opening, Terminal
<1>4. ASSUME e[1] = "status", e[2] \in Terminal, Opens PROVE OpensThenEnds'
  <2>1. PICK i \in Waiting("status") : inbox[i][2] \in Opening
    BY <1>4 DEF Opens
  <2>2. i <= Len(inbox) + 1
    BY <1>1
  <2>3. QED
    BY <1>1, <1>4, <2>1, <2>2 DEF OpensThenEnds
<1>5. QED
  BY <1>2, <1>3, <1>4

(* Reading the first event takes no other. *)
LEMMA ReadingKeepsReports ==
  ASSUME TypeOK, inbox # <<>>, inbox' = Tail(inbox)
  PROVE  /\ Head(inbox)[1] = "command" \/ Head(inbox)[2] \notin Opening =>
              (Opens => Opens') /\ (OpensThenEnds => OpensThenEnds')
         /\ Head(inbox)[1] = "command" \/ Head(inbox)[2] \notin Terminal =>
              (Ending => Ending') /\ (OpensThenEnds => Ending')
         /\ Head(inbox)[1] = "command" \/ Head(inbox)[2] # "ERROR" => (Fails => Fails')
<1>1. /\ Head(inbox) = inbox[1]
      /\ \A i \in Waiting("status") : i = 1 \/ (i - 1 \in Waiting("status")' /\ i - 1 \in DOMAIN inbox')
  BY InboxRead DEF Waiting
<1>2. \A i \in Waiting("status") : i \in Nat /\ i >= 1 /\ (i = 1 \/ inbox'[i - 1] = inbox[i])
  BY <1>1, InboxRead, InboxElements DEF Waiting
<1>3. 1 \in Waiting("status") => Head(inbox)[1] # "command"
  BY <1>1 DEF Waiting
<1>4. ASSUME Head(inbox)[1] = "command" \/ Head(inbox)[2] \notin Opening, Opens PROVE Opens'
  BY <1>1, <1>2, <1>3, <1>4 DEF Opens
<1>5. ASSUME Head(inbox)[1] = "command" \/ Head(inbox)[2] \notin Opening, OpensThenEnds
      PROVE  OpensThenEnds'
  <2>1. PICK i \in Waiting("status"), j \in Waiting("status") :
          i <= j /\ inbox[i][2] \in Opening /\ inbox[j][2] \in Terminal
    BY <1>5 DEF OpensThenEnds
  <2>2. i # 1 /\ j # 1
    BY <1>1, <1>2, <1>3, <1>5, <2>1
  <2>3. i - 1 \in Waiting("status")' /\ j - 1 \in Waiting("status")' /\ i - 1 <= j - 1
    BY <1>1, <1>2, <2>1, <2>2
  <2>4. inbox'[i - 1][2] \in Opening /\ inbox'[j - 1][2] \in Terminal
    BY <1>2, <2>1, <2>2
  <2>5. QED
    BY <2>3, <2>4 DEF OpensThenEnds
<1>6. ASSUME Head(inbox)[1] = "command" \/ Head(inbox)[2] \notin Terminal, Ending PROVE Ending'
  BY <1>1, <1>2, <1>3, <1>6 DEF Ending
<1>7. OpensThenEnds => Ending
  BY DEF OpensThenEnds, Ending
<1>8. ASSUME Head(inbox)[1] = "command" \/ Head(inbox)[2] # "ERROR", Fails PROVE Fails'
  BY <1>1, <1>2, <1>3, <1>8 DEF Fails
<1>9. QED
  BY <1>4, <1>5, <1>6, <1>7, <1>8

LEMMA StatusKeepsAlive ==
  ASSUME AliveInv, TakeStatus
  PROVE  AliveInv'
<1>1. TypeOK /\ TypeOK'
  BY TakeStatusType DEF AliveInv
<1>2. PICK ss, rs : Report(ss, rs)
  BY DEF TakeStatus, Begun, PlayEnded, RecordEnded, Stopped, ToneEnded, Unexpected
<1>3. inbox # <<>> /\ inbox' = Tail(inbox) /\ Head(inbox)[1] = "status"
  BY <1>2 DEF Report
<1>4. CASE Begun
  <2>1. /\ Head(inbox)[2] = "PLAYING" /\ player' = player /\ late_pause' = late_pause
        /\ \/ state = "START_PLAY" /\ state' = "PLAYING"
           \/ state' = "RECORDING"
    BY <1>4 DEF Begun, Report
  <2>2. OpensThenEnds => Ending'
    BY <1>1, <1>3, <2>1, ReadingKeepsReports DEF Terminal, Ends
  <2>3. QED
    BY <1>1, <2>1, <2>2 DEF AliveInv
<1>5. CASE Unexpected
  <2>1. /\ player' = player /\ state' = state /\ late_pause' = late_pause
        /\ state = "START_PLAY" => Head(inbox)[2] \notin Opening
        /\ state \in {"PLAYING", "STOP_PLAY"} => Head(inbox)[2] \notin Terminal
        /\ state = "PAUSE_PLAY" => Head(inbox)[2] # "ERROR"
    BY <1>5 DEF Unexpected, Report, Meaningful, Opening, Terminal, Ends
  <2>2. QED
    BY <1>1, <1>3, <2>1, ReadingKeepsReports DEF AliveInv
<1>6. CASE PlayEnded \/ RecordEnded \/ Stopped
  BY <1>1, <1>6 DEF AliveInv, PlayEnded, RecordEnded, Stopped, Release
<1>7. CASE ToneEnded
  <2>1. \/ state' = "START_PLAY" /\ player' = "starting"
        \/ state' = "IDLE"
    BY <1>7 DEF ToneEnded, Play, Release
  <2>2. QED
    BY <1>1, <2>1 DEF AliveInv
<1>8. QED
  BY <1>4, <1>5, <1>6, <1>7 DEF TakeStatus

LEMMA CommandsKeepAlive ==
  ASSUME AliveInv, TakeCommand \/ \E r \in Requests : Ask(r)
  PROVE  AliveInv'
<1>1. TypeOK /\ TypeOK'
  BY TakeCommandType, AskType DEF AliveInv
<1>2. UNCHANGED <<state, player, late_pause>>
  BY DEF TakeCommand, Ask, manager, library, history
<1>3. (Opens => Opens') /\ (OpensThenEnds => OpensThenEnds') /\ (Ending => Ending') /\ (Fails => Fails')
  <2>1. CASE inbox' = inbox
    BY <2>1 DEF Opens, OpensThenEnds, Ending, Fails, Waiting
  <2>2. CASE TakeCommand
    <3>1. inbox # <<>> /\ inbox' = Tail(inbox) /\ Head(inbox)[1] = "command"
      BY <2>2 DEF TakeCommand
    <3>2. QED
      BY <1>1, <3>1, ReadingKeepsReports
  <2>3. ASSUME NEW r \in Requests, Ask(r), inbox' # inbox
        PROVE  (Opens => Opens') /\ (OpensThenEnds => OpensThenEnds') /\ (Ending => Ending') /\ (Fails => Fails')
    <3> DEFINE e == <<"command", Numbered(r)>>
    <3>1. e \in Event /\ inbox' = Append(inbox, e)
      BY <1>1, <2>3, NewCommand DEF Ask, Event
    <3> HIDE DEF e
    <3>2. QED
      BY <1>1, <3>1, ArrivalsKeepReports
  <2>4. QED
    BY <2>1, <2>2, <2>3
<1>4. QED
  BY <1>1, <1>2, <1>3 DEF AliveInv

LEMMA ExecuteKeepsAlive ==
  ASSUME AliveInv, Execute
  PROVE  AliveInv'
<1>1. TypeOK /\ TypeOK'
  BY ExecuteType DEF AliveInv
<1>2. inbox' = inbox
  BY DEF Execute, Postpone, LetRecorderGo, StartIdle, TakeOver, StopOnRequest, Pause, Resume,
         IgnoreAll, Decide
<1>3. Opens' = Opens /\ OpensThenEnds' = OpensThenEnds /\ Ending' = Ending /\ Fails' = Fails
  BY <1>2 DEF Opens, OpensThenEnds, Ending, Fails, Waiting
<1>4. CASE Pause
  <2>1. /\ state = "PLAYING" /\ state' = "PAUSE_PLAY" /\ player' = PauseOf(player)
        /\ late_pause' = (late_pause \/ player # "on")
    BY <1>4 DEF Pause, Wants
  <2>2. ~late_pause' => ~late_pause /\ player' = "pausing"
    BY <2>1 DEF PauseOf
  <2>3. QED
    BY <1>1, <2>1, <2>2 DEF AliveInv
<1>5. CASE Resume
  <2>1. /\ state = "PAUSE_PLAY" /\ state' = "PLAYING" /\ player' = ResumeOf(player)
        /\ late_pause' = late_pause
    BY <1>5 DEF Resume, Wants, AfterResume
  <2>2. Fails => Ending
    BY DEF Fails, Ending, Terminal
  <2>3. QED
    BY <1>1, <1>3, <2>1, <2>2 DEF AliveInv, ResumeOf
<1>6. CASE Postpone \/ LetRecorderGo \/ IgnoreAll
  <2>1. UNCHANGED <<state, player, late_pause>>
    BY <1>6 DEF Postpone, LetRecorderGo, IgnoreAll, manager, library, history
  <2>2. QED
    BY <1>1, <1>3, <2>1 DEF AliveInv
<1>7. CASE StartIdle \/ TakeOver \/ StopOnRequest
  <2>1. \/ UNCHANGED <<state, player, late_pause>>
        \/ state' = "START_PLAY" /\ player' = "starting"
        \/ state' \in {"START_RECORD", "STOP_RECORD"}
        \/ /\ state \in {"PLAYING", "PAUSE_PLAY"} /\ state' = "STOP_PLAY"
           /\ player' = StopOf(player) /\ late_pause' = late_pause
    BY <1>7 DEF StartIdle, Start, Play, TakeOver, StopOnRequest, Stop, AfterStop
  <2>2. Fails => Ending
    BY DEF Fails, Ending, Terminal
  <2>3. QED
    BY <1>1, <1>3, <2>1, <2>2 DEF AliveInv, StopOf
<1>8. QED
  BY <1>4, <1>5, <1>6, <1>7 DEF Execute

LEMMA OthersKeepAlive ==
  ASSUME AliveInv, RecordThread \/ Library \/ BlockingFlips
  PROVE  AliveInv'
<1>1. TypeOK /\ TypeOK'
  BY NextType DEF AliveInv, Next
<1>2. UNCHANGED <<state, late_pause>>
  BY DEF RecordThread, RecorderBegin, RecorderOpen, RecorderTold, RecorderEnough, RecorderFails,
    RecorderClose, RecorderUnlock, RecorderStep, BlockingFlips, Library, PlayerObeys,
    PlayerFinishes, PlayerFails, MicObeys, MicFails, PlayerTurn, MicTurn, Emit, manager, history
<1>3. CASE inbox' = inbox
  <2>1. player' = player
    <3>1. ASSUME NEW s, Emit(s) PROVE inbox' # inbox
      BY <1>1, <3>1 DEF Emit, TypeOK
    <3>2. ~Library
      BY <1>3, <3>1 DEF Library, PlayerObeys, PlayerFinishes, PlayerFails, MicObeys, MicFails,
        PlayerTurn, MicTurn
    <3>3. QED
      BY <3>2 DEF RecordThread, RecorderBegin, RecorderOpen, RecorderTold, RecorderEnough,
        RecorderFails, RecorderClose, RecorderUnlock, RecorderStep, BlockingFlips
  <2>2. /\ Opens' = Opens /\ OpensThenEnds' = OpensThenEnds /\ Ending' = Ending
        /\ Fails' = Fails
    BY <1>3 DEF Opens, OpensThenEnds, Ending, Fails, Waiting
  <2>3. QED
    BY <1>1, <1>2, <2>1, <2>2 DEF AliveInv
<1>4. CASE inbox' # inbox
  <2>1. PICK s \in Statuses :
          /\ inbox' = Append(inbox, <<"status", s>>)
          /\ \/ player' = player
             \/ player \in {"starting", "resuming"} /\ s = "PLAYING" /\ player' = "on"
             \/ player = "pausing" /\ player' = "paused"
             \/ player = "stopping" /\ s = "STOP" /\ player' = "off"
             \/ player = "on" /\ s \in Terminal /\ player' = "off"
             \/ s = "ERROR" /\ player' = "off"
    BY <1>4 DEF RecordThread, RecorderBegin, RecorderOpen, RecorderTold, RecorderEnough,
      RecorderFails, RecorderClose, RecorderUnlock, RecorderStep, SelfReportError, BlockingFlips,
      Library, PlayerObeys, PlayerFinishes, PlayerFails, MicObeys, MicFails, PlayerTurn, MicTurn,
      Emit, Statuses, Terminal, Ends
  <2> DEFINE e == <<"status", s>>
  <2>2. e \in Event /\ e[1] = "status" /\ e[2] = s /\ inbox' = Append(inbox, e)
    BY <2>1 DEF Event
  <2> HIDE DEF e
  <2>3. /\ (Opens => Opens') /\ (OpensThenEnds => OpensThenEnds') /\ (Ending => Ending')
        /\ s \in Opening => Opens'
        /\ s \in Terminal => Ending'
        /\ s \in Terminal /\ Opens => OpensThenEnds'
        /\ (Fails => Fails')
        /\ s = "ERROR" => OpensThenEnds' /\ Fails'
    BY <1>1, <2>2, ArrivalsKeepReports
  <2>4. QED
    BY <1>1, <1>2, <2>1, <2>3 DEF AliveInv, Opening, Terminal, Ends
<1>5. QED
  BY <1>3, <1>4

LEMMA AliveInductive == AliveInv /\ [Next]_vars => AliveInv'
<1> SUFFICES ASSUME AliveInv, [Next]_vars PROVE AliveInv'
  OBVIOUS
<1>1. CASE UNCHANGED vars
  <2>1. TypeOK'
    BY NextType DEF AliveInv
  <2>2. UNCHANGED <<inbox, state, player, late_pause>>
    BY <1>1 DEF vars, manager, library, history
  <2>3. QED
    BY <2>1, <2>2 DEF AliveInv, Opens, OpensThenEnds, Ending, Fails, Waiting
<1>2. QED
  BY <1>1, CommandsKeepAlive, StatusKeepsAlive, ExecuteKeepsAlive, OthersKeepAlive DEF Next, AMS

(* A song AMS takes to be starting, playing, paused or stopping is at work   *)
(* in the library, or its last report waits for AMS, whatever the clients   *)
(* ask for, also when the library blocks and when a failed recording has    *)
(* left reports behind.  Only a pause that AMS passes on when the song is   *)
(* over, or not yet resumed, has the FINISHED dropped in PAUSE_PLAY (1148). *)
THEOREM PlaybackLives == Spec => []PlaybackAlive
<1>1. Init => AliveInv
  BY InitType DEF Init, AliveInv
<1>2. AliveInv => PlaybackAlive
  <2>1. OpensThenEnds => Ending
    BY DEF OpensThenEnds, Ending
  <2>2. Fails => Ending
    BY DEF Fails, Ending, Terminal
  <2>3. QED
    BY <2>1, <2>2 DEF AliveInv, PlaybackAlive, PlayStates, Ending, Terminal, Ends
<1>3. QED
  BY <1>1, <1>2, AliveInductive, PTL DEF Spec

-----------------------------------------------------------------------------
(* Hence what AudioFocus guarantees is true of AMS.                         *)
Promise == INSTANCE AudioFocusProofs WITH
  Requests <- Ids,
  waiting <- StartsAmong(InInbox \cup InHead),
  owner <- IF Unstopped = {} THEN 0 ELSE current.id,
  done <- {i \in Ids : told[i] > 0}

(* While the library does not block, nobody who waits asked before the one  *)
(* that has the audio, and a start whose callback was called is neither     *)
(* waiting nor playing ("last start app occupy audio control rights, other  *)
(* will ignore", AudioManagerService.c:1263).                               *)
THEOREM FocusPromises ==
  ASSUME ~MayBlock
  PROVE  Spec => []Focus!NoOvertaking /\ []Focus!EndedForGood
<1>1. Ids \subseteq Nat \ {0}
  BY DEF Ids
<1>2. Promise!Spec => []Promise!NoOvertaking
  BY <1>1, Promise!NeverOvertaken
<1>3. Promise!Spec => []Promise!EndedForGood
  BY <1>1, Promise!EndedStaysEnded
<1>4. Spec => Focus!Spec
  BY FocusKept DEF ImplementsFocus
<1>5. Focus!Spec => Promise!Spec
  BY PTL DEF Focus!Spec, Promise!Spec, Focus!vars, Promise!vars, Focus!Init, Promise!Init,
     Focus!Next, Promise!Next, Focus!Ask, Promise!Ask, Focus!Grant, Promise!Grant,
     Focus!Refuse, Promise!Refuse
<1>6. /\ Promise!NoOvertaking => Focus!NoOvertaking
      /\ Promise!EndedForGood => Focus!EndedForGood
  BY DEF Promise!NoOvertaking, Focus!NoOvertaking, Promise!EndedForGood, Focus!EndedForGood
<1>7. QED
  BY <1>2, <1>3, <1>4, <1>5, <1>6, PTL
=============================================================================
