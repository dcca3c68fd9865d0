------------------------------- MODULE KeyEvent -------------------------------
(***************************************************************************)
(* sys/keyevent.c and its key sources: the key scan of bsp/tm1628.c        *)
(* (report_keycode), the pat sensor (bsp/sc7a20.c), key_queue, the press   *)
(* and release machine of key_task, the masks other tasks set and clear    *)
(* while it runs, and the one wake lock all keys share.                    *)
(*                                                                         *)
(* A suffixed name (Room_OffByOne) is the definition after it              *)
(* with a slip in it, kept to show which property would notice.            *)
(***************************************************************************)
EXTENDS Naturals, Sequences

CONSTANTS
  Keys,     (* the keys that are pressed and released                        *)
  Pat,      (* KEY_CODE_PAT, which only ever reports presses                 *)
  MaskSets, (* the key_code_maps that apps mask and unmask                   *)
  QueueCap  (* the length of key_queue                                       *)

Codes == Keys \cup {Pat}

ASSUME KeyAssumption ==
  /\ Pat \notin Keys
  /\ MaskSets \subseteq SUBSET Codes
  /\ QueueCap \in Nat \ {0}

VARIABLES
  key_state, (* the source's last report of each key: is it pressed?         *)
  key_queue,
  state,     (* keyaction_t.state                                            *)
  is_mask,   (* keyaction_t.is_mask: the codes that are masked               *)
  wake,      (* the last call for key_wake_lock was an acquire               *)
  heard,     (* history: the last event the listeners got of each code       *)
  dropped,   (* history: keys whose last report found no room in key_queue   *)
  eaten      (* history: keys whose release was masked after a heard press   *)

task == <<state, wake, heard, eaten>>
vars == <<key_state, key_queue, task, is_mask, dropped>>

Message == [code : Codes, press : {"PRESS", "RELEASE"}]

Init ==
  /\ key_state = [k \in Keys |-> "RELEASE"] /\ key_queue = <<>>
  /\ state = [c \in Codes |-> "WAIT_PRESS"] /\ is_mask = {}
  /\ wake = FALSE /\ heard = [c \in Codes |-> "none"]
  /\ dropped = {} /\ eaten = {}

-----------------------------------------------------------------------------
(* THE SOURCES.  keyaction_notfiy waits 100 ticks for room and gives up.    *)

Room == Len(key_queue) < QueueCap

(* The scan remembers what it reported even when the report was lost. *)
ReportKey(k, press) ==
  /\ key_state[k] # press
  /\ key_state' = [key_state EXCEPT ![k] = press]
  /\ \/ /\ Room
        /\ key_queue' = Append(key_queue, [code |-> k, press |-> press])
        /\ dropped' = dropped \ {k}
     \/ /\ ~Room
        /\ dropped' = dropped \cup {k}
        /\ UNCHANGED key_queue
  /\ UNCHANGED <<task, is_mask>>

ReportPat ==
  /\ Room
  /\ key_queue' = Append(key_queue, [code |-> Pat, press |-> "PRESS"])
  /\ UNCHANGED <<key_state, task, is_mask, dropped>>

(* The apps, on their own tasks; a mask leaves the machines alone. *)
Mask_Resets(codes) ==
  /\ is_mask' = is_mask \cup codes
  /\ state' = [c \in Codes |-> IF c \in codes THEN "WAIT_PRESS" ELSE state[c]]
  /\ UNCHANGED <<key_state, key_queue, wake, heard, eaten, dropped>>
Mask(codes) ==
  /\ is_mask' = is_mask \cup codes
  /\ UNCHANGED <<key_state, key_queue, task, dropped>>

Unmask(codes) ==
  /\ is_mask' = is_mask \ codes
  /\ UNCHANGED <<key_state, key_queue, task, dropped>>

-----------------------------------------------------------------------------
(* KEY_TASK *)

Take(m) ==
  /\ key_queue # <<>> /\ m = Head(key_queue) /\ key_queue' = Tail(key_queue)
  /\ UNCHANGED <<key_state, is_mask, dropped>>

(* notify_keyevent: acquire on a press, release on a release, whatever the  *)
(* other keys do; unless the code is masked.                                *)
Notify_LocksReleases(c, event) ==
  \/ /\ c \notin is_mask
     /\ wake' = TRUE /\ heard' = [heard EXCEPT ![c] = event] /\ eaten' = eaten \ {c}
  \/ /\ c \in is_mask
     /\ eaten' = IF event = "RELEASE" THEN eaten \cup {c} ELSE eaten
     /\ UNCHANGED <<wake, heard>>
Notify(c, event) ==
  \/ /\ c \notin is_mask
     /\ wake' = (event = "PRESS")
     /\ heard' = [heard EXCEPT ![c] = event]
     /\ eaten' = eaten \ {c}
  \/ /\ c \in is_mask
     /\ eaten' = IF event = "RELEASE" THEN eaten \cup {c} ELSE eaten
     /\ UNCHANGED <<wake, heard>>

(* More than a second after the last pat, or the clock was set back:        *)
(* "ignore global key map state machine".                                   *)
FreshPat ==
  /\ \E m \in Message : m.code = Pat /\ Take(m)
  /\ Notify(Pat, "PRESS")
  /\ UNCHANGED state

Enters_OnlyUnmasked(c, to) ==
  state' = IF c \in is_mask THEN state ELSE [state EXCEPT ![c] = to]
Enters(c, to) == state' = [state EXCEPT ![c] = to]

Press(c) ==
  /\ Take([code |-> c, press |-> "PRESS"])
  /\ state[c] = "WAIT_PRESS" /\ Enters(c, "WAIT_RELEASE")
  /\ Notify(c, "PRESS")

Release(c) ==
  /\ Take([code |-> c, press |-> "RELEASE"])
  /\ state[c] = "WAIT_RELEASE" /\ Enters(c, "WAIT_PRESS")
  /\ Notify(c, "RELEASE")

(* "ignore release msg", "ignore press msg" *)
Ignore ==
  /\ \E m \in Message :
       /\ Take(m)
       /\ state[m.code] = IF m.press = "PRESS" THEN "WAIT_RELEASE" ELSE "WAIT_PRESS"
  /\ UNCHANGED task

KeyTask == FreshPat \/ Ignore \/ \E c \in Codes : Press(c) \/ Release(c)

Next ==
  \/ \E k \in Keys, press \in {"PRESS", "RELEASE"} : ReportKey(k, press)
  \/ ReportPat \/ KeyTask
  \/ \E codes \in MaskSets : Mask(codes) \/ Unmask(codes)

Spec == Init /\ [][Next]_vars

-----------------------------------------------------------------------------
TypeOK ==
  /\ key_state \in [Keys -> {"PRESS", "RELEASE"}]
  /\ key_queue \in Seq(Message) /\ Len(key_queue) <= QueueCap
  /\ state \in [Codes -> {"WAIT_PRESS", "WAIT_RELEASE"}]
  /\ is_mask \subseteq Codes /\ wake \in BOOLEAN
  /\ heard \in [Codes -> {"none", "PRESS", "RELEASE"}]
  /\ dropped \subseteq Keys /\ eaten \subseteq Codes

Queued(c) == \E i \in DOMAIN key_queue : key_queue[i].code = c

(* Masks, unmasks, other keys and earlier losses notwithstanding, the       *)
(* machine of a key whose reports are handled is where its button is: a key *)
(* is never stuck, and never dead after it was masked or a report was lost. *)
MachineFollowsButton ==
  \A k \in Keys \ dropped :
    Queued(k) \/ (state[k] = "WAIT_RELEASE" <=> key_state[k] = "PRESS")

(* Listeners that take a key to be held are told of its release, unless the *)
(* release was lost in a full queue or masked meanwhile.                    *)
ReleaseIsTold ==
  \A k \in Keys \ (dropped \cup eaten) :
    heard[k] = "PRESS" => key_state[k] = "PRESS" \/ Queued(k)

(* The key wake lock is not left behind: it is held for a key that is down, *)
(* or whose release is on its way, was lost or masked, or for a pat, which  *)
(* has no release.                                                          *)
WakeHasReason ==
  wake => \E c \in Codes : heard[c] = "PRESS" /\
            (c = Pat \/ c \in dropped \cup eaten \/ Queued(c) \/ key_state[c] = "PRESS")
=============================================================================
