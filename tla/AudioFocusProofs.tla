--------------------------- MODULE AudioFocusProofs ---------------------------
(***************************************************************************)
(* What AudioFocus promises, for any set of requests.                      *)
(***************************************************************************)
EXTENDS AudioFocus, TLAPS

(* A request is made with a number above all that wait, own or are done, so *)
(* each step keeps the waiting ones above the owner and off the done ones.  *)
FocusInv == TypeOK /\ NoOvertaking /\ EndedForGood

(* Init and every action establish the inductive invariant. *)
LEMMA FocusInductive ==
  ASSUME Requests \subseteq Nat \ {0}
  PROVE  /\ Init => FocusInv
         /\ FocusInv /\ [Next]_vars => FocusInv'
<1>1. Init => FocusInv
  BY DEF Init, FocusInv, TypeOK, NoOvertaking, EndedForGood
<1>2. FocusInv /\ [Next]_vars => FocusInv'
  <2> SUFFICES ASSUME FocusInv, [Next]_vars PROVE FocusInv'
    OBVIOUS
  <2> USE DEF FocusInv, TypeOK, NoOvertaking, EndedForGood
  <2>1. ASSUME NEW r \in Requests, Ask(r) PROVE FocusInv'
    BY <2>1 DEF Ask
  <2>2. ASSUME NEW r \in Requests, Grant(r) PROVE FocusInv'
    <3> USE <2>2 DEF Grant
    <3>0. r \in Nat /\ \A s \in waiting : s \in Nat
      OBVIOUS
    <3>1. TypeOK'
      OBVIOUS
    <3>2. NoOvertaking'
      BY <3>0
    <3>3. (waiting \cap done = {})'
      <4> SUFFICES ASSUME NEW s \in waiting' PROVE s \notin done'
        OBVIOUS
      <4>1. s \in waiting /\ s \in Nat /\ s > r /\ s \notin done
        BY <3>0
      <4>2. ~(s < r)
        BY <3>0, <4>1
      <4> QED
        BY <4>1, <4>2
    <3>4. (owner \notin waiting \cup done)'
      BY <3>0
    <3> QED
      BY <3>1, <3>2, <3>3, <3>4
  <2>3. ASSUME NEW refused \in SUBSET waiting, Refuse(refused) PROVE FocusInv'
    BY <2>3 DEF Refuse
  <2>4. CASE UNCHANGED vars
    BY <2>4 DEF vars
  <2> QED
    BY <2>1, <2>2, <2>3, <2>4 DEF Next
<1> QED
  BY <1>1, <1>2

(* Nothing that waits is older than the owner of the audio. *)
THEOREM NeverOvertaken ==
  ASSUME Requests \subseteq Nat \ {0}
  PROVE  Spec => []NoOvertaking
<1>1. FocusInv => NoOvertaking
  BY DEF FocusInv
<1> QED
  BY <1>1, FocusInductive, PTL DEF Spec

(* An ended request never comes back. *)
THEOREM EndedStaysEnded ==
  ASSUME Requests \subseteq Nat \ {0}
  PROVE  Spec => []EndedForGood
<1>1. FocusInv => EndedForGood
  BY DEF FocusInv
<1> QED
  BY <1>1, FocusInductive, PTL DEF Spec
=============================================================================
