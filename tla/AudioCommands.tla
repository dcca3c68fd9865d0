---------------------------- MODULE AudioCommands ----------------------------
(***************************************************************************)
(* The vocabulary the audio manager shares with its clients: the commands  *)
(* of AudioManagerMsg, the reports of the player library, and what the     *)
(* searches of AudioManagerService.c find in a list of pending commands.   *)
(*                                                                         *)
(* A suffixed name (Ends_StopOnly) is the definition after it              *)
(* with a slip in it, kept to show which property would notice.            *)
(***************************************************************************)
EXTENDS Naturals, Sequences, FiniteSets

CONSTANTS
  Recorders,  (* AUDIO_APP_WECHAT and AUDIO_APP_VOICE_RECOGNITION as used    *)
  Listeners,  (* the recorder apps fed while they record (voice recognition) *)
  Players,    (* the AudioAppTypes that play                                 *)
  MaxCommands (* bound: commands the clients issue in one behaviour          *)

ASSUME CommandAssumption ==
  /\ Listeners \subseteq Recorders
  /\ MaxCommands \in Nat

Apps == Recorders \cup Players

StartMsgs == {"PLAY_START", "RECORD_START"}
StopMsgs  == {"PLAY_STOP", "RECORD_STOP"}
Msgs      == StartMsgs \cup StopMsgs \cup {"PLAY_PAUSE", "PLAY_RESUME"}

(* What a client asks for; `tone` is play_param_t.tone being set. *)
Request == [app : Apps, msg : Msgs, tone : BOOLEAN]

Ids     == 1..MaxCommands
Command == [id : Ids, app : Apps, msg : Msgs, tone : BOOLEAN]

(* AudioStatus, as the player library reports it. *)
Statuses == {"PLAYING", "PAUSED", "FINISHED", "STOP", "ERROR"}
Ends_StopOnly == {"STOP"}
Ends     == {"FINISHED", "STOP"}

-----------------------------------------------------------------------------
(* search_last_start_cmd: the start that will occupy the audio. *)
Starts(list) == {i \in DOMAIN list : list[i].msg \in StartMsgs}
IsLastStart_First(list, i) == i \in Starts(list) /\ \A j \in Starts(list) : i <= j
IsLastStart(list, i) == i \in Starts(list) /\ \A j \in Starts(list) : j <= i

(* search_cmd_by_app after that start: the same app thought again. *)
Superseded(list, i) == \E j \in DOMAIN list : j > i /\ list[j].app = list[i].app

(* search_app_cmd_by_msg: the app asks for one of msgs. *)
Asks(list, app, msgs) ==
  \E i \in DOMAIN list : list[i].app = app /\ list[i].msg \in msgs

(* The start commands of a list, whose callbacks ignore_all_command calls. *)
StartIds(list) == {list[i].id : i \in Starts(list)}
=============================================================================
