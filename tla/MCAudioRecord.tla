---------------------------- MODULE MCAudioRecord ----------------------------
(* One app that records and plays its messages (wechat), one that is fed   *)
(* while it records (voice recognition) and one that only plays.           *)
EXTENDS AudioManager
CONSTANTS wechat, voice, story
Wish(app, msg) == [app |-> app, msg |-> msg, tone |-> FALSE]
MCRequests ==
  {Wish(wechat, "RECORD_START"), Wish(wechat, "RECORD_STOP"), Wish(wechat, "PLAY_START"),
   Wish(voice, "RECORD_START"), Wish(voice, "RECORD_STOP"),
   Wish(story, "PLAY_START"), Wish(story, "PLAY_STOP")}
(* The same, and a player that pauses and resumes. *)
MCPausingRequests ==
  MCRequests \cup {Wish(story, "PLAY_PAUSE"), Wish(story, "PLAY_RESUME")}
=============================================================================
