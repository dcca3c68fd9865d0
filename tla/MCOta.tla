-------------------------------- MODULE MCOta --------------------------------
(* Two versions, a few pushes, cuts and faults: updates in a row use both   *)
(* slots and both sectors, and there are faults enough for every retry.     *)
EXTENDS OtaUpgrade
=============================================================================
