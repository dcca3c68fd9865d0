--------------------------- MODULE MCAudioPlayback ---------------------------
(* Two apps that play, pause and stop, one of them with a tone before. *)
EXTENDS AudioManager
CONSTANTS story, alarm
MCRequests ==
  [app : {story}, msg : {"PLAY_START", "PLAY_STOP", "PLAY_PAUSE", "PLAY_RESUME"}, tone : {FALSE}]
  \cup [app : {alarm}, msg : {"PLAY_START"}, tone : {TRUE}]
  \cup [app : {alarm}, msg : {"PLAY_STOP"}, tone : {FALSE}]
=============================================================================
