------------------------------- MODULE MCPower --------------------------------
(* The two locks of the program: the key lock is registered after the music *)
(* lock, so it comes first in the list.                                     *)
EXTENDS PowerManager
CONSTANTS key_lock, music_lock
MCLocks == {key_lock, music_lock}
MCLockList == <<key_lock, music_lock>>
=============================================================================
