--------------------------- MODULE KeyEventProofs ---------------------------
(***************************************************************************)
(* The invariants of KeyEvent, for any set of keys, any masks and any      *)
(* length of the key queue.  The queue decides: what it says last of a key *)
(* is what the source reported last, so a machine that has handled all of  *)
(* it is where the button is.                                              *)
(***************************************************************************)
EXTENDS KeyEvent, TLAPS

(* The last message about c in the queue is at i. *)
LastAt(c, i) ==
  /\ i \in DOMAIN key_queue /\ key_queue[i].code = c
  /\ \A j \in DOMAIN key_queue : j > i => key_queue[j].code # c

QueueIsRight ==
  \A k \in Keys \ dropped : \A i \in DOMAIN key_queue :
    LastAt(k, i) => key_queue[i].press = key_state[k]

(* A machine leaves WAIT_RELEASE only with a release that is told or eaten. *)
HeardIsDown ==
  \A k \in Keys \ eaten : heard[k] = "PRESS" => state[k] = "WAIT_RELEASE"

HeldIsHeard == wake => \E c \in Codes : heard[c] = "PRESS"

IInv == TypeOK /\ QueueIsRight /\ MachineFollowsButton /\ HeardIsDown /\ HeldIsHeard

(* What a queue is after a message was put in.                              *)
LEMMA Appended ==
  ASSUME NEW q \in Seq(Message), NEW m \in Message
  PROVE  /\ Append(q, m) \in Seq(Message) /\ Len(Append(q, m)) = Len(q) + 1
         /\ DOMAIN Append(q, m) = DOMAIN q \cup {Len(q) + 1}
         /\ Append(q, m)[Len(q) + 1] = m
         /\ \A i \in DOMAIN q : i <= Len(q) /\ Append(q, m)[i] = q[i]
<1>1. /\ Append(q, m) \in Seq(Message) /\ Len(Append(q, m)) = Len(q) + 1
      /\ Append(q, m)[Len(q) + 1] = m
      /\ \A i \in 1..Len(q) : Append(q, m)[i] = q[i]
  OBVIOUS
<1>2. DOMAIN q = 1..Len(q) /\ DOMAIN Append(q, m) = 1..(Len(q) + 1) /\ Len(q) \in Nat
  BY <1>1
<1> QED BY <1>1, <1>2

(* What it is after one was taken out.                                      *)
LEMMA Taken ==
  ASSUME NEW q \in Seq(Message), q # <<>>
  PROVE  /\ Head(q) \in Message /\ Head(q) = q[1] /\ 1 \in DOMAIN q
         /\ Tail(q) \in Seq(Message) /\ Len(Tail(q)) = Len(q) - 1
         /\ \A i \in DOMAIN Tail(q) : i + 1 \in DOMAIN q /\ Tail(q)[i] = q[i + 1]
         /\ \A i \in DOMAIN q : i \in Nat /\ (i > 1 => i - 1 \in DOMAIN Tail(q))
<1>1. Len(q) \in Nat /\ Len(q) > 0 /\ DOMAIN q = 1..Len(q)
  OBVIOUS
<1>2. Head(q) = q[1] /\ Tail(q) \in Seq(Message) /\ Len(Tail(q)) = Len(q) - 1
      /\ \A i \in 1..(Len(q) - 1) : Tail(q)[i] = q[i + 1]
  BY <1>1
<1>3. DOMAIN Tail(q) = 1..(Len(q) - 1)
  BY <1>1, <1>2
<1> QED BY <1>1, <1>2, <1>3

LEMMA Initially == Init => IInv
<1> SUFFICES ASSUME Init PROVE IInv
  OBVIOUS
<1>1. TypeOK
  <2>1. key_queue \in Seq(Message) /\ Len(key_queue) <= QueueCap
    BY KeyAssumption DEF Init
  <2> QED BY <2>1 DEF Init, TypeOK
<1>2. QueueIsRight /\ MachineFollowsButton /\ HeardIsDown /\ HeldIsHeard
  BY DEF Init, QueueIsRight, MachineFollowsButton, Queued, HeardIsDown, HeldIsHeard, Codes
<1> QED BY <1>1, <1>2 DEF IInv

(* A key source reports; only the queue and what is known of k change.      *)
LEMMA Reported ==
  ASSUME IInv, NEW k \in Keys, NEW press \in {"PRESS", "RELEASE"}, ReportKey(k, press)
  PROVE  IInv'
<1> DEFINE m == [code |-> k, press |-> press]
<1>0. TypeOK /\ m \in Message /\ k \in Codes
  BY DEF IInv, Message, Codes
<1>1. HeardIsDown' /\ HeldIsHeard'
  BY DEF IInv, ReportKey, task, HeardIsDown, HeldIsHeard
<1>2. CASE Room
  <2> DEFINE n == Len(key_queue) + 1
  <2>1. key_queue' = Append(key_queue, m) /\ dropped' = dropped \ {k}
        /\ key_state' = [key_state EXCEPT ![k] = press] /\ UNCHANGED <<task, is_mask>>
    BY <1>2 DEF ReportKey
  <2>2. /\ key_queue' \in Seq(Message) /\ Len(key_queue') = n
        /\ DOMAIN key_queue' = DOMAIN key_queue \cup {n} /\ key_queue'[n] = m
        /\ \A i \in DOMAIN key_queue : i < n /\ key_queue'[i] = key_queue[i]
    <3>1. Len(key_queue) \in Nat /\ \A i \in DOMAIN key_queue : i \in Nat
      BY <1>0 DEF TypeOK
    <3> QED BY <2>1, <1>0, <3>1, Appended DEF TypeOK
  <2>3. TypeOK'
    <3>1. key_state' \in [Keys -> {"PRESS", "RELEASE"}] /\ dropped' \subseteq Keys
      BY <1>0, <2>1 DEF TypeOK
    <3>2. Len(key_queue') <= QueueCap
      BY <1>0, <1>2, <2>2, KeyAssumption DEF TypeOK, Room
    <3> QED BY <1>0, <2>1, <2>2, <3>1, <3>2 DEF TypeOK, task
  <2>4. QueueIsRight'
    <3> SUFFICES ASSUME NEW l \in Keys \ dropped', NEW i \in DOMAIN key_queue', LastAt(l, i)'
                 PROVE  key_queue'[i].press = key_state'[l]
      BY DEF QueueIsRight
    <3>1. CASE i = n
      BY <3>1, <2>1, <2>2, <1>0 DEF LastAt, TypeOK
    <3>2. CASE i # n
      <4>1. i \in DOMAIN key_queue /\ i < n /\ key_queue'[i] = key_queue[i]
        BY <3>2, <2>2
      <4>2. l # k
        BY <4>1, <2>2 DEF LastAt
      <4>3. LastAt(l, i) /\ l \in Keys \ dropped
        BY <4>1, <4>2, <2>1, <2>2 DEF LastAt
      <4> QED BY <4>1, <4>2, <4>3, <2>1, <1>0 DEF IInv, QueueIsRight, TypeOK
    <3> QED BY <3>1, <3>2
  <2>5. MachineFollowsButton'
    <3> SUFFICES ASSUME NEW l \in Keys \ dropped', ~Queued(l)'
                 PROVE  state'[l] = "WAIT_RELEASE" <=> key_state'[l] = "PRESS"
      BY DEF MachineFollowsButton
    <3>1. l # k /\ ~Queued(l)
      BY <2>2 DEF Queued
    <3> QED BY <3>1, <2>1, <1>0 DEF IInv, MachineFollowsButton, TypeOK, task
  <2> QED BY <1>1, <2>3, <2>4, <2>5 DEF IInv
<1>3. CASE ~Room
  <2>1. UNCHANGED <<key_queue, task, is_mask>> /\ dropped' = dropped \cup {k}
        /\ key_state' = [key_state EXCEPT ![k] = press]
    BY <1>3 DEF ReportKey
  <2>2. \A l \in Keys \ dropped' : l \in Keys \ dropped /\ key_state'[l] = key_state[l]
    BY <2>1, <1>0 DEF TypeOK
  <2>3. TypeOK'
    BY <2>1, <1>0 DEF TypeOK, task
  <2>4. QueueIsRight'
    BY <2>1, <2>2 DEF IInv, QueueIsRight, LastAt
  <2>5. MachineFollowsButton'
    BY <2>1, <2>2 DEF IInv, MachineFollowsButton, Queued, task
  <2> QED BY <1>1, <2>3, <2>4, <2>5 DEF IInv
<1> QED BY <1>2, <1>3

(* A pat is no message about a key.                                         *)
LEMMA Patted ==
  ASSUME IInv, ReportPat
  PROVE  IInv'
<1> DEFINE m == [code |-> Pat, press |-> "PRESS"]
           n == Len(key_queue) + 1
<1>0. TypeOK /\ m \in Message /\ Pat \notin Keys
  BY KeyAssumption DEF IInv, Message, Codes
<1>1. key_queue' = Append(key_queue, m) /\ UNCHANGED <<key_state, task, is_mask, dropped>>
  BY DEF ReportPat
<1>2. /\ key_queue' \in Seq(Message) /\ Len(key_queue') = n
      /\ DOMAIN key_queue' = DOMAIN key_queue \cup {n} /\ key_queue'[n] = m
      /\ \A i \in DOMAIN key_queue : key_queue'[i] = key_queue[i]
  BY <1>0, <1>1, Appended DEF TypeOK
<1>3. TypeOK'
  <2>1. Len(key_queue') <= QueueCap
    BY <1>0, <1>2, KeyAssumption DEF TypeOK, Room, ReportPat
  <2> QED BY <1>0, <1>1, <1>2, <2>1 DEF TypeOK, task
<1>4. QueueIsRight'
  <2> SUFFICES ASSUME NEW k \in Keys \ dropped, NEW i \in DOMAIN key_queue', LastAt(k, i)'
               PROVE  key_queue'[i].press = key_state[k]
    BY <1>1 DEF QueueIsRight
  <2>1. i \in DOMAIN key_queue /\ LastAt(k, i)
    BY <1>0, <1>2 DEF LastAt
  <2> QED BY <2>1, <1>2 DEF IInv, QueueIsRight
<1>5. MachineFollowsButton'
  <2>1. \A k \in Keys : Queued(k) => Queued(k)'
    BY <1>2 DEF Queued
  <2> QED BY <2>1, <1>1 DEF IInv, MachineFollowsButton, task
<1>6. HeardIsDown' /\ HeldIsHeard'
  BY <1>1 DEF IInv, HeardIsDown, HeldIsHeard, task
<1> QED BY <1>3, <1>4, <1>5, <1>6 DEF IInv

(* Taking a message leaves what the queue says last of each key, except     *)
(* that it may be the last about its own, which then says where the button  *)
(* is.                                                                      *)
LEMMA Took ==
  ASSUME IInv, NEW m, Take(m)
  PROVE  /\ m \in Message /\ m.code \in Codes /\ m.press \in {"PRESS", "RELEASE"}
         /\ key_queue' \in Seq(Message) /\ Len(key_queue') <= QueueCap
         /\ UNCHANGED <<key_state, is_mask, dropped>>
         /\ QueueIsRight'
         /\ \A k \in Keys \ dropped : ~Queued(k)' /\ k # m.code => ~Queued(k)
         /\ \A k \in Keys \ dropped : ~Queued(k)' /\ k = m.code => m.press = key_state[k]
<1>0. TypeOK /\ key_queue # <<>> /\ m = Head(key_queue) /\ key_queue' = Tail(key_queue)
      /\ UNCHANGED <<key_state, is_mask, dropped>>
  BY DEF IInv, Take
<1>1. /\ m \in Message /\ m = key_queue[1] /\ 1 \in DOMAIN key_queue
      /\ key_queue' \in Seq(Message) /\ Len(key_queue') = Len(key_queue) - 1
      /\ \A i \in DOMAIN key_queue' : i + 1 \in DOMAIN key_queue /\ key_queue'[i] = key_queue[i + 1]
      /\ \A i \in DOMAIN key_queue : i \in Nat /\ (i > 1 => i - 1 \in DOMAIN key_queue')
  BY <1>0, Taken DEF TypeOK
<1>2. m.code \in Codes /\ m.press \in {"PRESS", "RELEASE"}
  BY <1>1 DEF Message
<1>3. Len(key_queue') <= QueueCap
  BY <1>0, <1>1, KeyAssumption DEF TypeOK
<1>4. \A i \in DOMAIN key_queue' : i \in Nat /\ i >= 1
  BY <1>1
<1>5. QueueIsRight'
  <2> SUFFICES ASSUME NEW k \in Keys \ dropped, NEW i \in DOMAIN key_queue', LastAt(k, i)'
               PROVE  key_queue'[i].press = key_state[k]
    BY <1>0 DEF QueueIsRight
  <2>1. i + 1 \in DOMAIN key_queue /\ key_queue'[i] = key_queue[i + 1] /\ i \in Nat /\ i >= 1
    BY <1>1, <1>4
  <2>2. ASSUME NEW j \in DOMAIN key_queue, j > i + 1 PROVE key_queue[j].code # k
    <3>1. j \in Nat /\ j - 1 \in DOMAIN key_queue' /\ j - 1 > i /\ (j - 1) + 1 = j
      BY <1>1, <2>1, <2>2
    <3>2. key_queue'[j - 1] = key_queue[j]
      BY <1>1, <3>1
    <3> QED BY <3>1, <3>2 DEF LastAt
  <2>3. LastAt(k, i + 1)
    BY <2>1, <2>2 DEF LastAt
  <2> QED BY <2>1, <2>3 DEF IInv, QueueIsRight
<1>6. ASSUME NEW k \in Keys \ dropped, ~Queued(k)'
      PROVE  \A i \in DOMAIN key_queue : i > 1 => key_queue[i].code # k
  <2> SUFFICES ASSUME NEW i \in DOMAIN key_queue, i > 1 PROVE key_queue[i].code # k
    OBVIOUS
  <2>1. i \in Nat /\ i - 1 \in DOMAIN key_queue' /\ (i - 1) + 1 = i
    BY <1>1
  <2>2. key_queue'[i - 1] = key_queue[i]
    BY <1>1, <2>1
  <2> QED BY <1>6, <2>1, <2>2 DEF Queued
<1>7. ASSUME NEW k \in Keys \ dropped, ~Queued(k)', k # m.code PROVE ~Queued(k)
  <2> SUFFICES ASSUME NEW i \in DOMAIN key_queue PROVE key_queue[i].code # k
    BY DEF Queued
  <2>1. i = 1 \/ i > 1
    <3>1. i \in 1..Len(key_queue)
      BY <1>0 DEF TypeOK
    <3> QED BY <3>1
  <2> QED BY <1>1, <1>6, <1>7, <2>1
<1>8. ASSUME NEW k \in Keys \ dropped, ~Queued(k)', k = m.code PROVE m.press = key_state[k]
  <2>1. LastAt(k, 1)
    BY <1>1, <1>6, <1>8 DEF LastAt
  <2> QED BY <1>1, <2>1 DEF IInv, QueueIsRight
<1> QED BY <1>0, <1>1, <1>2, <1>3, <1>5, <1>7, <1>8

(* key_task handles one message. *)
LEMMA Handled ==
  ASSUME IInv, KeyTask
  PROVE  IInv'
<1>0. TypeOK /\ Pat \notin Keys /\ Pat \in Codes
  BY KeyAssumption DEF IInv, Codes
<1>1. ASSUME NEW m \in Message, Take(m), m.code = Pat, Notify(Pat, "PRESS"), UNCHANGED state
      PROVE  IInv'
  <2>1. TypeOK'
    <3>1. heard' \in [Codes -> {"none", "PRESS", "RELEASE"}]
      BY <1>0, <1>1 DEF TypeOK, Notify
    <3>2. eaten' \subseteq Codes /\ wake' \in BOOLEAN
      BY <1>0, <1>1 DEF TypeOK, Notify
    <3> QED
      BY <1>0, <1>1, Took, <3>1, <3>2 DEF TypeOK
  <2>2. MachineFollowsButton'
    BY <1>0, <1>1, Took DEF IInv, MachineFollowsButton
  <2>3. \A k \in Keys : heard'[k] = heard[k] /\ (k \in eaten <=> k \in eaten')
    BY <1>0, <1>1 DEF Notify, TypeOK, Codes
  <2>4. HeardIsDown'
    BY <2>3, <1>1 DEF IInv, HeardIsDown
  <2>5. HeldIsHeard'
    BY <1>0, <1>1 DEF IInv, HeldIsHeard, Notify, TypeOK, Codes
  <2> QED BY <1>1, Took, <2>1, <2>2, <2>4, <2>5 DEF IInv
<1>2. ASSUME NEW c \in Codes, Press(c) PROVE IInv'
  <2> DEFINE m == [code |-> c, press |-> "PRESS"]
  <2>0. Take(m) /\ state' = [state EXCEPT ![c] = "WAIT_RELEASE"] /\ Notify(c, "PRESS")
    BY <1>2 DEF Press, Enters
  <2>1. TypeOK'
    BY <1>0, <2>0, Took DEF TypeOK, Notify
  <2>2. MachineFollowsButton'
    BY <1>0, <2>0, Took DEF IInv, MachineFollowsButton, TypeOK
  <2>3. HeardIsDown'
    BY <1>0, <2>0 DEF IInv, HeardIsDown, Notify, TypeOK, Codes
  <2>4. HeldIsHeard'
    BY <1>0, <2>0 DEF IInv, HeldIsHeard, Notify, TypeOK
  <2> QED BY <2>0, Took, <2>1, <2>2, <2>3, <2>4 DEF IInv
<1>3. ASSUME NEW c \in Codes, Release(c) PROVE IInv'
  <2> DEFINE m == [code |-> c, press |-> "RELEASE"]
  <2>0. Take(m) /\ state' = [state EXCEPT ![c] = "WAIT_PRESS"] /\ Notify(c, "RELEASE")
    BY <1>3 DEF Release, Enters
  <2>1. TypeOK'
    BY <1>0, <2>0, Took DEF TypeOK, Notify
  <2>2. MachineFollowsButton'
    BY <1>0, <2>0, Took DEF IInv, MachineFollowsButton, TypeOK
  <2>3. HeardIsDown'
    BY <1>0, <2>0 DEF IInv, HeardIsDown, Notify, TypeOK, Codes
  <2>4. HeldIsHeard'
    BY <1>0, <2>0 DEF IInv, HeldIsHeard, Notify, TypeOK
  <2> QED BY <2>0, Took, <2>1, <2>2, <2>3, <2>4 DEF IInv
<1>4. ASSUME NEW m \in Message, Take(m), UNCHANGED task,
             state[m.code] = IF m.press = "PRESS" THEN "WAIT_RELEASE" ELSE "WAIT_PRESS"
      PROVE  IInv'
  <2>1. TypeOK'
    BY <1>0, <1>4, Took DEF TypeOK, task
  <2>2. MachineFollowsButton'
    BY <1>0, <1>4, Took DEF IInv, MachineFollowsButton, task, TypeOK
  <2>3. HeardIsDown' /\ HeldIsHeard'
    BY <1>4 DEF IInv, HeardIsDown, HeldIsHeard, task
  <2> QED BY <1>4, Took, <2>1, <2>2, <2>3 DEF IInv
<1> QED BY <1>1, <1>2, <1>3, <1>4 DEF KeyTask, FreshPat, Ignore

LEMMA Inductive == IInv /\ [Next]_vars => IInv'
<1> SUFFICES ASSUME IInv, [Next]_vars PROVE IInv'
  OBVIOUS
<1>1. CASE UNCHANGED vars
  BY <1>1 DEF IInv, vars, task, TypeOK, QueueIsRight, LastAt, MachineFollowsButton, Queued,
              HeardIsDown, HeldIsHeard
<1>2. ASSUME NEW codes \in MaskSets, Mask(codes) \/ Unmask(codes) PROVE IInv'
  <2>1. TypeOK'
    BY <1>2, KeyAssumption DEF IInv, TypeOK, Mask, Unmask, task
  <2> QED BY <1>2, <2>1 DEF IInv, Mask, Unmask, task, QueueIsRight, LastAt, MachineFollowsButton,
                            Queued, HeardIsDown, HeldIsHeard
<1> QED BY <1>1, <1>2, Reported, Patted, Handled DEF Next

(* Every behaviour of the keys is well typed. *)
THEOREM TypeCorrect == Spec => []TypeOK
<1>1. IInv => TypeOK
  BY DEF IInv
<1> QED BY <1>1, Initially, Inductive, PTL DEF Spec

(* For any number of keys and any masks, the machine of a key whose reports *)
(* are handled is where its button is (key_task).                           *)
THEOREM FollowsButton == Spec => []MachineFollowsButton
<1>1. IInv => MachineFollowsButton
  BY DEF IInv
<1> QED BY <1>1, Initially, Inductive, PTL DEF Spec

LEMMA Told == IInv => ReleaseIsTold
<1> SUFFICES ASSUME IInv, NEW k \in Keys \ (dropped \cup eaten), heard[k] = "PRESS"
             PROVE  key_state[k] = "PRESS" \/ Queued(k)
  BY DEF ReleaseIsTold
<1>1. state[k] = "WAIT_RELEASE"
  BY DEF IInv, HeardIsDown
<1> QED BY <1>1 DEF IInv, MachineFollowsButton

(* For any number of keys and any masks, listeners are told of a release    *)
(* that was neither lost in a full queue nor masked (key_event_notify).     *)
THEOREM ReleasesTold == Spec => []ReleaseIsTold
BY Told, Initially, Inductive, PTL DEF Spec

(* For any number of keys and any masks, the shared wake lock is held for a *)
(* key that is down or whose release is on its way, lost or masked, or for  *)
(* a pat (key_event_notify).                                                *)
THEOREM WakeReasoned == Spec => []WakeHasReason
<1>1. IInv => WakeHasReason
  <2> SUFFICES ASSUME IInv, wake PROVE WakeHasReason
    BY DEF WakeHasReason
  <2>1. PICK c \in Codes : heard[c] = "PRESS"
    BY DEF IInv, HeldIsHeard
  <2>2. c = Pat \/ c \in dropped \cup eaten \/ Queued(c) \/ key_state[c] = "PRESS"
    BY Told, <2>1 DEF ReleaseIsTold, Codes
  <2> QED BY <2>1, <2>2 DEF WakeHasReason
<1> QED BY <1>1, Initially, Inductive, PTL DEF Spec
=============================================================================
