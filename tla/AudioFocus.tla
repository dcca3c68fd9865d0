------------------------------ MODULE AudioFocus ------------------------------
(***************************************************************************)
(* What the audio manager promises the apps, whatever the player, the      *)
(* queues and the record thread do meanwhile: every start command waits,   *)
(* perhaps owns the audio for a while, and is done; one owner at a time;   *)
(* the newest request that is granted leaves no older one waiting.         *)
(* Requests are numbered in the order they were made.                      *)
(***************************************************************************)
EXTENDS Naturals

CONSTANT Requests (* their numbers, from 1 on *)

VARIABLES
  waiting, (* requests made and not answered                     *)
  owner,   (* the request that has the audio, 0 if nobody has it *)
  done     (* requests whose callback has ended them             *)

vars == <<waiting, owner, done>>

TypeOK ==
  /\ waiting \subseteq Requests
  /\ owner \in Requests \cup {0}
  /\ done \subseteq Requests

Init == waiting = {} /\ owner = 0 /\ done = {}

(* A new request is newer than all there were; it may take numbers before   *)
(* it that never became start requests.                                     *)
Ask(r) ==
  /\ \A s \in waiting \cup done \cup {owner} : s < r
  /\ waiting' = waiting \cup {r}
  /\ UNCHANGED <<owner, done>>

(* The newest request AMS acts upon gets the audio and ends the older ones. *)
Grant(r) ==
  /\ owner = 0 /\ r \in waiting
  /\ owner' = r
  /\ waiting' = {s \in waiting : s > r}
  /\ done' = done \cup {s \in waiting : s < r}

(* Some of the waiting are refused, the owner possibly ended with them. *)
Refuse(refused) ==
  /\ waiting' = waiting \ refused
  /\ \/ done' = done \cup refused /\ UNCHANGED owner
     \/ owner # 0 /\ owner' = 0 /\ done' = done \cup refused \cup {owner}

Next ==
  \/ \E r \in Requests : Ask(r) \/ Grant(r)
  \/ \E refused \in SUBSET waiting : Refuse(refused)

Spec == Init /\ [][Next]_vars

-----------------------------------------------------------------------------
(* "last start app occupy audio control rights, other will ignore": whoever *)
(* still waits asked after the owner did.                                   *)
NoOvertaking == owner # 0 => \A r \in waiting : r > owner

(* A request that was ended neither waits nor owns the audio again, so an   *)
(* app whose callback was called need not expect another call for it.       *)
EndedForGood == waiting \cap done = {} /\ owner \notin waiting \cup done
=============================================================================
