----------------------------- MODULE MCDeepBrain -----------------------------
(* DeepBrain with its bounds, given in the .cfg.                             *)
EXTENDS DeepBrain
=============================================================================
