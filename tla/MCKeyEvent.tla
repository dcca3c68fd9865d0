------------------------------ MODULE MCKeyEvent ------------------------------
(* Two keys and the pat sensor; the alarm masks one key, the led the pats.  *)
EXTENDS KeyEvent
CONSTANTS wechat, alarm
MCKeys == {wechat, alarm}
MCMaskSets == {{wechat}, {Pat}}
=============================================================================
