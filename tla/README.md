# Verification of the SmartAlarm firmware

The repository holds two programs. `src/src/SmartAlarm` is the firmware of an
ESP32 story and alarm device on FreeRTOS; it is what this project is about. The
files at the root (`src/main/main.c`, `src/src/http_api.c`, `src/src/ssl-client.c`,
...) are a sequential sample HTTP client. The rest is vendored (`esp-idf`,
`sys/zlib`, `sys/dbvad`, `esp-codec-lib`), generated (`build`) or closed (the
player library, of which only headers are here).

Paths below are relative to `src/src/SmartAlarm`.

## 1. Inventory

| Component | State it keeps | Operations | Interacts with | What makes it correct |
|---|---|---|---|---|
| Audio manager service, `sys/audio_manager/AudioManagerService.c` | `g_audio_manager` (state, current, type, pending list), command and status queues, `g_rthread_run`, `g_rthread_stop`, music wake lock, amplifier | `play_start/stop/pause/resume`, `record_start/stop`, the service task, the record thread | every app (callbacks), the player library (reports), power manager | one owner, newest start wins, one verdict per start, no deadlock with the record thread, codec and power follow the owner |
| Power manager, `sys/power_manager/power_manager.c` | list of wake locks, `pm_queue`, timer, awake flag | `acquire_wake_lock`, `release_wake_lock`, the pm task, the tick | AMS, keys (owners); FreeRTOS timer task | a held lock keeps the device awake; an idle device sleeps |
| Key events, `sys/keyevent.c`, `bsp/tm1628.c`, `bsp/sc7a20.c` | `key_queue`, a machine and a mask per key, key wake lock | report, mask, unmask, the key task | apps (listeners), story push (masks), power manager | machine follows button, releases reach listeners, wake lock has a reason |
| Remote command, `sys/remote_command/*` | connection status word, socket, request queue | connect, login, receive, send, heartbeat | server, system manager, Wi-Fi events, download server (login), every app | CONNECT stands for an open socket, none leaks, a dead link is noticed, no task that sends is blocked for ever |
| Download server, `sys/download_server/download_server.c` | request and finish queues, receive timer, worker | ask, one download at a time, time-out, callback | WeChat, OTA, remote command; FreeRTOS timer task | everyone who asks is told, the end of his own download, with no worker left on the file |
| Upload server, `sys/upload_server/upload_server.c` | request queue | one upload at a time | WeChat | each request answered once |
| WeChat, `app/wechat.c` | lists of messages with a state each, timers | record, upload, download, play | AMS, keys, both servers, FreeRTOS timer task | a verdict or result is taken for its own voice or message, recordings end, nothing stays in a list |
| Story player and push, `app/story_player.c`, `app/story_push.c`; alarms, `sys/alarms.c` | playlists, alarm list | play next, alarm tick, key masks | AMS, keys, download | keys are unmasked in the end, no alarm missed |
| OTA, `app/ota.c`, with `esp_ota_ops.c` and the boot loader | step file, image files, two firmware slots, otadata | download, install, verify, switch, restart | download server, reset key, boot | bootable at every moment, the step file tells the truth, the firmware in force is always a complete image |
| DeepBrain, `app/DeepBrainService.c` | two queues, `is_db_working`, record timer | start, feed and end a recording, remind, answer, quit | AMS and its record thread (callbacks that block), keys, FreeRTOS timer task, network | no callback waits for ever for the task it feeds |
| Polling timer, `bsp/poll.c` | sorted list of entries, hardware timer | register, expire, unregister | LEDs, keys | expiry order and arithmetic |
| System manager, Wi-Fi provisioning, networking helpers, board drivers, boot | queues, registers | see the code | | mostly I/O |

What is hard to test here is nearly always an order of events between tasks:
a report of the player against a command of an app, a time-out against a late
answer, the end of a recording against a stop, a lock owner against the task
that looks at the locks. `PROJECT.json` lists each such hazard at its line with
the property that would notice, or the reason why there is none yet.

## 2. Modules

| Module | Models |
|---|---|
| `AudioCommands` | the commands, the reports and the searches in a list of commands |
| `AudioManager` | AMS, its clients, the record thread, and the player library (external) |
| `AudioFocus` | what AMS promises an app about its start commands, with no player, queue or thread |
| `PowerManager` | wake-lock owners, the pm task, and the FreeRTOS timer task (external) |
| `KeyEvent` | key scan and pat sensor, key queue, key task, masks |
| `DownloadServer` | apps that ask, manager task, worker, and the FreeRTOS timer task (external) |
| `OtaUpgrade` | boot loader, boot code, `ota_update_task`, reset key, flash and card across power cuts |
| `DualFirmware` | what an update with two firmware slots promises |
| `RemoteCommand` | sending and receiving task, Wi-Fi events, all tasks that send; sockets, network and server (external) |
| `WeChat` | `wechat_task`, its key and timers, the upload server; AMS and the download server (external, by what their modules show) |
| `DeepBrain` | the record task and the NLP task of the voice service, its key, timer and callbacks; AMS, the record thread and the voice detection (external, as in `AudioManager`) |
| `MC*` | finite instances for TLC |
| `*Proofs` | theorems and proofs about the module they are named after |

A name with a suffix after an underscore (`GiveRun_Forgotten`) is a
definition with a plausible slip in it. It stands before the correct one and is
used nowhere else; put in its place, it breaks the property that `PROJECT.json`
pairs with it. This shows that each property does depend on that code.

### AudioManager

*State.* `head`, `state`, `current`, `type` are the fields of
`g_audio_manager`. `inbox` is both queues in one: AMS waits on a queue set, which
delivers in order of arrival, so the order between a command and a report is
kept. `CommandCap` and `StatusCap` bound the two kinds separately, as the
code's two queues do. `run_mutex` and `stop_mutex` are `g_rthread_run` and
`g_rthread_stop`; `at = "join"` is AMS inside `xSemaphoreTake(g_rthread_stop)`.
`log`, `told` and `late_pause` are history, which no guard reads: which commands the clients issued, how often
the callback of each has been called with a final status, and whether AMS has paused the
present song when the library was not playing it (any more, or again).

*Actions.* `Ask` is any of the six client calls. `TakeCommand` and `TakeStatus`
(`update_audio_manager_state`, one disjunct per kind of outcome) read one event.
Each is followed by `Execute` (`execute_audio_command`), which is one action per
outcome: `Postpone`, `StartIdle`, `TakeOver`, `StopOnRequest`, `Pause`,
`Resume`, `IgnoreAll`, and `LetRecorderGo` for the only place where AMS blocks.
Reading and executing are separate steps because the library, the record
thread and the clients run meanwhile; the guards let nothing of AMS come between.
The emptying of the list at the end (`ignore_all_command`) is part of each action.

The record thread has one action for each piece between two blocking calls.
The player library is external: one report for every change of the playback, in
order, waiting while the status queue is full. A playback that finished or failed
answers neither a stop nor a pause.

*Abstracted.* Files, URIs, tones (only whether there is one), voice data, which
final status a callback gets (only that it gets one), volume commands. A callback
is an entry in `told`: the apps' own queues are not here.

*AudioFocus* keeps three variables: who waits, who owns, who is done. The
refinement mapping reads them off AMS: a start waits while it is in the inbox or
the list, owns while it is current and not being stopped, and is done when told.

### PowerManager

`acquire_wake_lock` is two actions, `Acquire` (sets `active`) and `Notify`
(posts the copy), `release_wake_lock` is `Release` and `Reset`, because nothing
protects the lock between the two statements. `search_wake_lock` is one `Look` per
lock, with `cursor` as its place. `xTimerStart`, `xTimerStop` and `xTimerReset`
only post to the timer task's queue (`timer_cmds`), which `ObeyCommand` empties; a
full queue loses the command after 100 ticks, as it loses a notification. `lost`
remembers such losses, and the properties say what holds but for them. Boot is
`PowerManagerInit`: locks may be held before it, as `init.c` starts AMS and keys
first. The queue and the timer exist from that step on together.

### KeyEvent

`ReportKey` is `report_keycode` and `keyaction_notfiy`: a source that reports only
changes, and a post that is dropped when the queue is full. `Mask` and `Unmask` are
the apps', at any time. `KeyTask` handles one message. `wake` is what the last call
for the shared key wake lock was. `heard` is the last event the listeners got.
Time enters only where the code looks at it: a pat within a second of the last
one is handled by the machine, any other at once.

### DownloadServer

The manager has one action between any two places where it blocks or shares
something: `Receive`, the ways to fail before a worker exists (`SetupFails`),
`StartTimer`, `CreateWorker`, `TakeFinish`, `StopTimer`, `DeleteWorker`,
`Answer`. The worker's `ReadHead` and `ReadBody` are one read each with the
reset of the timer and the write after it; what it finds it reports in
`SendFinish`. It may stop anywhere, because a read or a write may never return.
A report carries the number of the download it is about, which the code does not
have: that is how the properties tell a stale one. Failures are told apart only
by what the worker does next.

The timer is three variables: the commands not yet obeyed, whether it is off, on
or due, and what its callback is trying to post. `Elapse` is the passing of its
30 s. They do not pass while manager or timer task have something to do at once, so
a time-out cannot strike between two statements unless it was due before; they
do pass while the manager connects, calls an app back, or waits. A start that has
waited 30 s in the queue of a blocked timer task is `"late"` and fires at once, as
FreeRTOS computes expiry from the time of the call.

### OtaUpgrade and DualFirmware

*State.* What survives a cut: `sector` (the two sequence numbers of otadata), `slots`
(each a complete image or `Scrap`), `stepfile` and `files` on the card. What does
not: `info`, `running`, the download, a rewriting under way. `pc` is where the only
active task is: before the device is up that is the boot code, then
`ota_update_task`.

*Actions.* One for every piece of `doing_ota_upgrade` between two writes to flash or
card. A switch of the boot partition is two writes (`EraseSector`, `WriteEntry`),
and saving the step two more (`OpenStepFile` empties the file, `WriteStepFile` fills
it); a cut may come between any two. Every failure the code tests for is a choice
that costs a fault: at boot the result of `set_upgrade_file` is ignored, in
`ota_update_task` it is not. `Selected` and `BootSlot` are the boot loader's
choice, `Configured`, `Target`, `StaleSector` and `Numbering` those of
`esp_ota_ops.c`. The boot loader falls back to the other slot; `Bootable` says that
it never needs to.

*Not there.* A factory or a test partition and secure boot (this device has neither),
a corrupt NVS (`nv_init` never returns -1 here), `FACTORY_MODE_STARTUP` (nothing
writes it), the garbage collector (it only looks under `/sdcard/wechat`). The
comparison of the card's image with the flash stops at the first zero byte
(`strncmp`), so it may pass on a wrong image: `AlreadyWriteInFlash` lets it.

*DualFirmware* has two variables, the firmware in force and the other slot. The
refinement reads them off the slots by the configured one.

### RemoteCommand

`status` is `s_remote_cmd_status`, written by the sender, the receiver and the Wi-Fi
event handler with no lock. Each write is in an action with the tests that the code
makes before it, and no more: a status that was read in one action may be another in
the next. `send` and `recv` are the places where the two tasks block or share
something.

Sockets are numbers, and a new one is the lowest that is free, as lwIP does it: that is how a stale
descriptor comes to name a new connection. `link` tells a working one from one that
has died silently, which is noticed by an answer that does not come (`Select` after
a heartbeat) or by TCP giving up on what it sent (`GiveUp`). Closing a socket wakes
its reader.

Time enters in three places. `Login` and `Connect` last longer than the
event handler, which only writes and posts (`event = "none"`). The receiver's 5 s after an
error (`Elapse`) do not pass while the sender has something to do at once. All other
waits last any time. The three looks at the status at the head of the sender's loop
(`Check`, remote_command.c:443-459) are three steps.

`assemble_remote_json` asks once whether the server is connected and then waits without limit for
room in the sender's queue (send_remote_cmd.c:65), on the task that calls it. `Call` is the question, `waiters` the tasks that
wait, in the order they came, and `Enqueue` lets one in. These tasks are `Clients`: `system_task`, for greeting, heartbeat and status
(`Tick`; `connected_server` decides only which kind and is a free choice), and `Apps` (`Notify`): `wechat_task`
(wechat.c:404, from 604), `story_push_task` (story_push.c:761-815), `story_player_task` (story_player.c:1116, from 1532 and 1542) and, by the callback of a
pushed song (story_player.c:1131-1139), AMS. The receiver waits there too, to acknowledge a message (`recv = "ack"`); its
priority is 8 and it goes first. The clients have 5, but for AMS with 4, which goes behind those; that a wait of AMS ends nevertheless needs that the
others do not come again and again: each sends once for an event of a minute or of the user, and the sender takes a message in milliseconds.
So one order, that of arrival, stands for all of them.
`FactoryReset` is the server's answer -2 to a login: the device restarts, which ends every wait.

### WeChat

One action per command of `wechat_task`, with the posts it makes to its own queue. Only
`RECORD_START` is two (`RecordStart`, `RecordCall`): the action is in the list for up to
ten seconds, while the tone plays, before `record_start` is called, and `recording` is read by
the key task and the timer meanwhile. `recording`, `uploads`, `downloads` and `plays` are
the four workers' lists, with the state of each action; the head is what the code
calls `current`.

`wechat_notify` gives up after a while, so a post to a full queue is lost (`Post`).
Timers are asked and obey later (`Ask`, `Obey`). `length` stands for `record_time` by
what the code asks of it: below a second, below fifteen, or more. It is one variable
for all recordings, as in the code.

AMS is used by its promises: one verdict for each start, STOPPED only after a stop.
These are `OneVerdict` and `ImplementsFocus` of `AudioManager`. The download server answers
each request once (`EveryRequestAnswered`). The upload server is modelled itself, by its queue and
its single consumer (`Uploaded`). No verdict or result says whose it is: it is taken for the
head of its list. The four properties `...IsOwn` say that this is right, and the last of
them (`UploadAnswerIsOwn`) is false.

### DeepBrain

One action per message of `_task_record_raw_read`, with the posts to AMS it makes (`commands`).
The places where it waits are apart: `CallRecord` after the calls to the cloud that precede `record_start`, `HandOn` after
those that fetch a result, and `ToneOver`, the end of the wait in `play_tone_sync`. That wait
(`Wait`) ends with the callback or after its ten seconds (`Forget`), from where on AMS holds a
tone whose caller is gone (`"stale tone"`). AMS, the record thread, the timer task and the key task are in
`ams = "post"`, `thread = "post"` or `"send"`, `ticker` and `key` while they wait for room in the queue.

AMS is here by what `AudioManager` shows of it: the last start of what it has read owns the audio, older ones are
ignored, a recording is stopped when its thread has ended (`ams = "join"`). It may take any number of the commands that
are there in one go, as it does when they came while it waited. The record thread has the branch of voice recognition, with
`vad` for `vad_enable`.

Seconds (`Elapse`, `Forget`) pass only while no task has anything to do at once (`Calm`): a message is handled in
milliseconds. The record task's calls to the cloud have time-outs of seconds (2.5 s to send, 100 ms 50 times and 3 s to read,
dcl_asr_api.c), so at most one limit of `record_timer` falls into one; those of the NLP task last any time.
`stage` is how many of the three limits of `record_timer` have passed.

## 3. Runs

| Run | Question | Instance |
|---|---|---|
| `playback` | Does AMS keep ownership, power, verdicts and its promise `AudioFocus` when apps start, stop, pause and resume in any order? | 2 apps, one start with a tone, 4 commands, queue 3 |
| `record` | The same with recordings, where AMS and the record thread wait for each other; is every command served? | 2 recorders (one a listener), 2 players, 3 commands, queue 2 |
| `faults` | What still holds when the library may turn calls away (`_blocking`) and the microphone fails, with a player that pauses and resumes? | as `record` with pauses and resumes, safety only |
| `power` | Is a held lock heard and served, an awake device timed, and a quiet one put to sleep? | 2 locks, both queues 2 |
| `keys` | Do machine, listeners and wake lock follow the buttons through masks and losses? | 2 keys and the pat sensor, queue 3 |
| `download` | Is everyone answered, with no worker left, and with the own result until a time-out strikes? | 3 requests, all queues 2, 1 read before the last |
| `ota` | Can the device always boot, does the step file tell the truth, is the firmware exchanged in one go, and does the device come up again? | 2 versions, 2 pushes, 2 cuts, 5 faults |
| `remote` | Does CONNECT stand for an open socket, does none leak, and does the device connect and hear again, and does every task that sends get on? | 2 sockets, 2 apps beside `system_task` and the receiver, queue 1, 1 incident |
| `wechat_send` | Is a verdict taken for its own recording, does a recording end, do voices leave the list? | 3 voices, 2 presses, queue 50, 1 retry |
| `wechat_receive` | The same for messages that are downloaded and played | 3 messages, 2 presses, queue 50, 1 retry |
| `deepbrain` | Does everyone who waits for room in the voice service's queue get on? | queues 2, 2 events: presses, speeches, other playbacks, reads that fail |
| `wechat_upload` | the disagreement of section 6 | 2 voices |

Type invariants are proved (section 4) and so in no run. That of `DeepBrain` is not; TLC finds it true when it is named in the
instance.

*Bounds.* `MaxCommands` is the only bound of the audio manager that the code does not have. What AMS does
with a list depends on the last start in it, on whether its app has anything
after it, and on what the current app asks for: an owner, a contender, a
stop or pause and one more cover each combination. `CommandCap` is smaller than
`MaxCommands`, so that full queues happen. `StatusCap` has the
code's value, 5. Both queues of the power manager are 2, so
that each can be full with a command that contradicts the next. Three requests let
a stale report meet the next request and leave one behind for the one after it, with
a full request queue; 2 timer commands are a stop and a reset behind it, with
none left for the next start.

Two pushes with two versions use both slots and both sectors of otadata; two cuts let
the second strike while the device recovers from the first, and five faults are more than
`MAX_RETRY` in a row. One incident of the network is one loss of the Wi-Fi, one failed login,
connect or write, one dead link, or one command of the server, and recovering from it passes
through all of the sender's places. `MaxSockets` must exceed `MaxIncidents`, because each Wi-Fi event
that overwrites the status of a connection costs a socket for good (`struck`): with fewer,
`Reconnects` is false for that reason alone. Two apps, `system_task` and the receiver are
more than a queue of one message holds, so all of them are seen waiting at once, and syncs are lost; with a queue of two and one app the same properties
hold. The code has five clients and `RECEVE_REMOTE_CMD_SIZE` places: a client only waits, so a third app would do what the second does. Three voices or messages are the head, the one that
waits, and the one that comes while a failed head goes to the end. `RetryLimit` is 5 in the code; 1 reaches both
branches. `QueueSize` of WeChat is the code's: it does not fill up in these instances, and
liveness would fail if it did, since posts of the task to itself are lost then. The safety theorems hold with any length.

The queues of the voice service have five places in the code and two here, so that they are full when one task waits and
another comes. The first of the two events is the press that starts the
conversation or what another app plays before it; the second is a quit or a second press, a speech, a playback of another app,
or a read that fails. (Three events are 3.4 million states, in which `TypeOK` holds.) The circle that `Released` is about needs a full queue, a waiting thread and AMS behind it.

All commands of the audio and download instances are finite in number, so these runs really stop when
the clients have asked everything, as do those of WeChat. A device that is
up and has no image pushed (`ota`), and one with no incident left (`remote`), goes on or rests. A device to which nobody speaks rests (`deepbrain`). These do not check deadlock. `record` has
`EveryCommandServed` instead, which a deadlock of AMS and the record thread
violates, and `ota`, `remote` and WeChat have their liveness properties. `power` and `keys` check deadlock.

*Fairness.* FreeRTOS runs every ready task again and again, so the steps of AMS,
record thread, pm task, timer task, sender, receiver, Wi-Fi event task and `wechat_task` are weakly fair. Of the library only its
answers to a call (`PlayerObeys`, `MicObeys`) are. Nothing is assumed of clients:
they need never ask, release or stop, and a song need not end. Owners that
are inside `acquire_wake_lock` or `release_wake_lock` do leave it. The download
worker, at the lowest priority and in calls that may never return, is not fair:
that its manager is answered rests on the timer alone. Files are finite (the worker
stops at the size in the header), hence `MaxChunks`, without which a worker could
reset the timer for ever.

OTA: the device goes on as long as it has power (`WF(Device)`); pushes, downloads, keys and cuts owe nothing. Remote
command: the tasks go on, the Wi-Fi comes back (`GotIp` is in `EventTask`), the heartbeat timer ticks, the server answers on a link that
works and TCP gives up on one that does not. Who waits for room is served in turn, hence weak fairness of `Enqueue` is
enough. The receiver's 5 s (`Elapse`) need strong fairness: the sender
waits again and again but not for ever, and a timer that runs while it waits does run out. WeChat: the task, both timers, an AMS that was asked to stop and
both servers go on; nobody need press a key or finish a song. DeepBrain: the same of its tasks, of AMS and of the
short tones. Who waits for room in a queue that is emptied and filled again and again gets in
(strong fairness): FreeRTOS wakes waiting tasks by priority and time, the record thread fills it once in 200 ms and the
reader needs 10 ms for a message. Nobody need speak, press the key or finish an answer.

## 4. Proofs

TLAPS checks, for every value of the constants:

| Theorem | Says | Argument |
|---|---|---|
| `AudioManagerProofs!TypeCorrect` | `Spec => []TypeOK` | inductive as it stands, one lemma per group of actions |
| `AudioManagerProofs!OwnershipHolds` | `Spec => []Ownership` | inductive together with `TypeOK` (what AMS takes out of its list is a command) and with the fact that AMS waits for the record thread only while it is recording (`OwnershipInv`) |
| `AudioManagerProofs!PowerHolds` | `Spec => []PowerFollowsPlayback` when `~MayBlock` | from `OwnershipHolds`; with blocking it is false (line 1096) |
| `AudioManagerProofs!LastStartHolds` | `Spec => []LastStartOwns` | `OrderInv`: commands are numbered as they are made, and inbox and list of AMS (`Ordered`) hold them in that order, the list before the inbox; a command enters the list at its end and a grant empties it up to the newest start |
| `AudioManagerProofs!VerdictHolds` | `Spec => []OneVerdict` when `~MayBlock` | `VerdictInv`: the starts told are exactly those that neither wait nor play (`Verdicts`). Every action moves starts in one of four ways: a start arrives, or `Drop`, `DropWithOwner`, `Promote` (`Moves`) |
| `AudioManagerProofs!StopHolds` | `Spec => []StopHonoured` when `~MayBlock` | `StopInv`: commands are read in the order they are made (`Fifo`), and what AMS has dealt with is of another app than whatever older command still stands in its list (`Spared`), so a stop that is gone has met every earlier start of its app |
| `AudioManagerProofs!FocusKept`, `FocusPromises` | `Spec => Focus!Spec` when `~MayBlock`: AMS implements `AudioFocus`, and keeps the two promises proved of it | each of the four moves of `VerdictHolds` is an `Ask`, a `Refuse` or a `Grant`; the promises are taken over from `AudioFocusProofs` through its instance |
| `AudioManagerProofs!CodecOwned`, `HandshakeHolds` | `CodecHasOwner` and `RecordHandshake` when `~MicFaults` | `HandshakeInv` (no hypothesis): AMS waits for the record thread only with a command that makes it stop. `CodecInv`: a report that a work is over is the last in the inbox and finds player, microphone and thread at rest, so AMS can be idle only when nothing is under way; a recording passes from the queue to the thread to the microphone and leaves nothing behind |
| `AudioManagerProofs!RecorderAccounted` | `Spec => []WorkAccounted`, with microphone faults: a recording the record thread works for or has queued is the current one, or its app has been told its end | `AccountInv`: AMS lets a recording go only where it calls the callback, or has called it on the way to `STOP_RECORD` |
| `AudioManagerProofs!PlaybackLives` | `Spec => []PlaybackAlive`, for any clients and faults | `AliveInv`: in `START_PLAY` and `PLAYING`, when the library is ahead of AMS, the report that opens the playback, and behind it one that ends it, wait in that order, whatever stale reports a failed recording left before them; a song that was playing when it was paused can end only with an ERROR, which `PAUSE_PLAY` understands |
| `AudioFocusProofs!NeverOvertaken`, `EndedStaysEnded` | the two promises of `AudioFocus`, for requests that are positive numbers | inductive: requests are numbered in the order they are made, and a grant ends what is older |
| `PowerManagerProofs!TypeCorrect` | `Spec => []TypeOK` | inductive as it stands |
| `PowerManagerProofs!HeardHolds` | `Spec => []HolderIsHeard` | `HeardInv` adds that a held lock is active, and that a search under way has passed it only if its notification is on its way |
| `PowerManagerProofs!TimedHolds` | `Spec => []AwakeIsTimed` | `TimedInv` adds that the device is marked asleep before its timer is stopped, so that no stop can follow the start of a wake-up, and that no owner is inside a reset before boot |
| `KeyEventProofs!TypeCorrect`, `FollowsButton`, `ReleasesTold`, `WakeReasoned` | the type invariant and the three invariants of the run | `IInv`: what the queue says last of a key is what its source reported last (unless that was lost), so a machine that has handled everything is where the button is; a machine leaves WAIT_RELEASE only with a release that is told or masked |
| `DownloadServerProofs!TypeCorrect` | `Spec => []TypeOK` | `TypeInv` adds where a report or a request must be there |
| `DownloadServerProofs!FileRests` | `Spec => []FileAtRest` | inductive as it stands: only a worker that exists steps |
| `DownloadServerProofs!WaitHasTimeout` | `Spec => []WaitIsTimed` | `TimedInv` starts one place earlier, at `create`: the timer is started before the worker is created, and no stop comes between that and the wait |
| `DownloadServerProofs!OwnResultHolds` | `Spec => []OwnUntilTimeout` | `OwnInv`: while no timer has expired the worker is the only reporter, reports once, and its report is in the queue only while the manager waits |
| `OtaUpgradeProofs!TypeCorrect`, `AlwaysBootable`, `AlwaysBeside`, `RefinesDual` | the type invariant, `Bootable`, `InstallsBeside`, and `Spec => Dual!Spec`: OTA implements `DualFirmware` | `Safe`: a device that is not off runs from the configured slot until it has rewritten otadata, and a rewriting under way (`Switching`) has chosen the older sector and a number that names a complete image; so neither the erasure nor a cut changes the slot in force |
| `OtaUpgradeProofs!CheckedHolds` | `Spec => []CheckedIsThere` | `HeldInv`: a record past the copy, in memory or on the card, names an image that a slot holds; a slot is erased only under a record that is not, while the card says the same or nothing, because `doing_ota_upgrade` acts on what it has just read and a failed save leaves that or an empty file |
| `RemoteCommandProofs!TypeCorrect`, `StatusHolds`, `SocketsKept` | the type invariant, `ConnectedIsOpen` and `NoneLeaks` | only the sender opens and closes sockets: `IInv` gives, for each of its places, whether the socket is open (`Accounted`, `ClosedInTime`); what the other two tasks write, DISCONNECT and LOGIN, never makes a connection |
| `WeChatProofs!TypeCorrect`, `RecordAnswers`, `PlayAnswers`, `DownloadAnswers` | the type invariant and three of the four `...IsOwn` | each is inductive with the type invariant: an action asks only when its head is in the state that says nothing is asked (`Free`, `Ready`, `Idle`), and a verdict moves from AMS or server to the queue, never into both |

They rest on the named assumptions on the constants only, which TLC evaluates in the
runs; `AudioFocus` has none, and its theorems state theirs (requests are positive numbers).

Most theorems on `AudioManager` have a hypothesis on its constants besides, and need it: TLC finds the
property violated on an instance that lacks it (`MCAudioFaults.cfg` with its library that blocks and its microphone that
fails; for `PowerFollowsPlayback`, `MCAudioPlayback.cfg` with `MayBlock`, since it takes a tone).

* `~MayBlock` (the library never raises `_blocking`), for `PowerFollowsPlayback`, `OneVerdict`, `StopHonoured` and `ImplementsFocus`:
  while it is raised, a start is dropped without a verdict and a stop without effect.
* `~MicFaults` (the microphone does not fail on its own), for `CodecHasOwner` and `RecordHandshake`: after a failed read the
  record thread reports ERROR before it has closed the capture, so AMS is idle while the thread and
  the library are not, and the report of the capture that is closed later comes on top of it.

`LastStartHolds`, `RecorderAccounted` and `PlaybackLives` have none. What goes wrong in the code where their subject is concerned is in
their statements: `PlaybackAlive` names the one order of events that loses a report (`late_pause`, section 6: story_player.c:584 and 1432 can bring it about), and the
theorem says that nothing else does; `RecorderAccounted` allows the thread a command that AMS has freed (section 6), and says that its app no longer waits.

The instances of the runs satisfy these hypotheses; the theorems reach further, since those on verdicts and stops allow a
microphone that fails, and those on the codec a library that blocks.

Every safety invariant of a passing run but one, and both refinements, are proved. Only model-checked: `RecorderHasOwner`, which is
false when the microphone fails; the
liveness properties (`EveryCommandServed`, `Released`, `EveryRequestAnswered`, `ComesUp`, `HolderIsServed`,
`SleepsInTheEnd`, `Reconnects`, `Heard`, `Unblocked`, `MessagesLeave`, `RecordingEnds`, `VoicesLeave`), which are out
of the prover's reach, and `DeepBrain`, whose one property is one of them.

## 5. Not modelled

Besides the components marked so in `PROJECT.json`:

* Audio: volume; `play_tone_sync` and
`play_tone_and_restart`; allocation failures (a command is then dropped,
AudioManagerService.c:1455). The post to `record_queue` and the assignment of `current` (1022, 1023) are one step of `Start`: the thread that
the post wakes takes its command from the message, and looks at `current` only for voice recognition, after the capture has begun. The error path of that post (1026-1029) is
left out: the queue never holds a second recording (`RecordHandshake`), so there is always room. That a callback of a song which AMS calls may wait in
`assemble_remote_json` is in `RemoteCommand`, not here: it only delays AMS, as `Unblocked` says.
* `power_manager_uninit`, `keyevent_dispatch_uninit`, `wechat_uninit`,
`AudioManagerDeactive` (nobody calls them on a running device); changes to the list of
wake locks after boot; the chain of key listeners. Key codes out of range are
rejected before anything happens and are left out.
* Download server:
`download_task_init` and `download_task_uninit`, HTTP parsing, sizes. A worker that
returned from its task function stays until it is deleted; what the hardware
does with it in between is not modelled.
* Remote command: a wait of AMS behind the other clients by its priority (section 2); `sync_to_recevie_queue`, which only ends the receiver's pauses early, and so
only orders what may come in any order here; the register of callbacks; packets and JSON.
* WeChat: JSON, paths, the LED, the tones and `PLAY_PREVIOUS`, which have no callback.
* DeepBrain: the session with the cloud and its result, JSON, authentication and the choice of tones. They decide what
is answered, not what happens next. What a child may notice, and no comment of the code contradicts: a `START_TO_RECORD` posted by a
callback just behind `DEEPBRAIN_QUIT` starts the conversation again (DeepBrainService.c:111); two presses in quick succession start two recordings, of which the second
disturbs the first, which clears `is_db_working` (185, 239); a tone that fails (284) ends neither the conversation nor starts the
next recording; a disturbed conversation leaves its session open to the next (445).
* OTA: the version request, the default case of `doing_ota_upgrade`, which no step file
reaches, and what NVS holds.
* `bsp/poll.c`: its expiry arithmetic is wrong at a millisecond boundary (line 144) and the removal of
its only entry reads a null pointer (line 224), but the periods in use are multiples of
10 s with `msec` 0 and nothing calls `unregister_poll_func`: no state of this program meets either.

Most of the files under `src` are not this program's: `esp-idf` with its components, examples and
tools, `sys/zlib`, `sys/dbvad`, music in an array (`userconfig/array_music.c`) and the
build output. They are modelled only where the firmware rests on their behaviour in a way that could go wrong (the slot selection), or,
as external actions, by what the callers use. That is why the share of all lines in the repository
that the models cover is small, and stays so.

## 6. Disagreements found

With a run:

* `wechat_upload`: wechat.c:697 says "here must serial finish upload", but UPLOAD_START
  (662) also accepts a head that is being uploaded. A second recording that ends meanwhile
  sends the first voice again, or, while it is itself shorter than a second, ends it as "file size error"; the second of
  the two results is then taken for another voice, which is freed without being sent.

Without a run of their own; each is seen by checking the definition named as an invariant or
property of the instance named:

* `PlaybackAlive` without its `~late_pause` on `MCAudioPlayback.cfg` or `MCAudioFaults.cfg`: AudioManagerService.c:1060 says "assign state only after receive player callback", but a
  pause sets `PAUSE_PLAY` at once (843-846). A song that ends just before it leaves AMS paused, and after a resume "playing", for
  ever: its FINISHED is "unexpect" in that state (1148). If the library answers a stop only for a playback that is alive, as the model takes it,
  a stop or a take-over then waits in `STOP_PLAY` for good, and every later command behind it (1253).
* `RecorderHasOwner` on `MCAudioFaults.cfg`: AMS waits for the record thread on a stop ("wait record thread quit",
  AudioManagerService.c:940), but not on an ERROR (1198-1202); it frees the command the thread still hands to `notify_app_status` (691).
* `OwnFinish` on `MCDownload.cfg`: nothing empties the finish queue between two downloads. A
  time-out due while the worker reports, or the other way round, is told to the
  next app, whose download is deleted half-way (download_server.c:294; download_server.h:21 promises the callback of one's own download).
* `TimerTaskReleased` on `MCDownload.cfg`: the time-out callback waits for room in that queue without limit
  (download_server.c:58; timers.h:349 forbids it). After a stop that was undone by the worker's last reset, a second time-out
  with no download under way stops the timer task, hence every software timer,
  until some app asks for a download.
* `SuccessIsTrue` on `MCOta.cfg`: a cut between the change of the boot partition (ota.c:437) and the saving of the step (449) has the
  new firmware do the same step once more: it switches back to the old one, and the next boot logs "upgrade is succese" (389)
  and deletes the image. The device stays bootable, which is what `Bootable` and `ImplementsDual` say.
* `LeftoversDropped` on `MCRemote.cfg`: init.c:143 says that when the server is connected again all leftover data is discarded, but the
  loop that does so (remote_command.c:485-491) only runs while `req_buff` holds data: with an empty one, or from the first sync on, the old
  messages stay queued and are sent on the new connection.

Outdated comments without consequence:
AudioManagerService.c:1257 ("only 3 state can reach here") forgets `PAUSE_PLAY`,
and the worker's `return` at download_server.c:179 is against task.h:298.

## 7. Plan

Modelled next, most important first, each a module, its instance and its proofs:

1. `ToneSync`: `play_tone_sync` and `play_tone_and_restart` against AMS, whose
   callback outlives the caller's queue; completes the audio manager.
2. `StoryPlayer`, `StoryPush` with alarms and the key masks of `KeyEvent`.
3. The provisioning queue, which its own task posts to, and the session of `DeepBrain`.

Runs are few on purpose, one per question: a new module's instance takes the place of
a disagreement that is settled.

To prove next: for `DeepBrain`, what a post to its queue may rely on while the reader waits for AMS, the safety half of `Released`;
the promises that `ToneSync` and the story player make, with their modules.
