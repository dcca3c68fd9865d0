----------------------------- MODULE DualFirmware -----------------------------
(***************************************************************************)
(* What an update with two firmware slots promises, power cuts included:   *)
(* the firmware the device would boot is never touched; it changes only by *)
(* an exchange with a spare that is complete.  OtaUpgrade implements this. *)
(***************************************************************************)
CONSTANTS
  Firmware,  (* the complete images there are                              *)
  Scrap      (* what a slot holds that is not a complete image             *)

VARIABLES
  active,    (* the firmware the next boot runs                            *)
  spare      (* the other slot                                             *)

Init == active \in Firmware /\ spare \in Firmware \cup {Scrap}

(* The spare slot is erased, or a cut leaves it half written. *)
Discard == spare' = Scrap /\ UNCHANGED active

Fill == spare' \in Firmware /\ UNCHANGED active

Exchange == spare # Scrap /\ active' = spare /\ spare' = active

Next == Discard \/ Fill \/ Exchange

Spec == Init /\ [][Next]_<<active, spare>>
=============================================================================
