------------------------------- MODULE MCRemote -------------------------------
(* Two sockets, for a connection that replaces another one which is still   *)
(* open; two apps beside system_task and the receiver, and a queue of one   *)
(* message, so that all of them wait for it and syncs are lost.             *)
(* Sockets must outnumber the incidents: each one may cost a socket for     *)
(* good (see struck).                                                       *)
EXTENDS RemoteCommand
CONSTANTS wechat_task, story_push_task
=============================================================================
