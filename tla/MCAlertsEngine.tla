---------------------------- MODULE MCAlertsEngine ----------------------------
(***************************************************************************)
(* Instances of AlertsEngine for TLC: two drives with thresholds of their  *)
(* own, so that the same reading is err for one and warn for the other,    *)
(* before a source without thresholds that may raise at any time.  The     *)
(* drives raise while an alarm of theirs is held by the margin alone.      *)
(***************************************************************************)
EXTENDS AlertsEngine, TLC

MCOrder == <<"drives", "units">>
MCWarn == [hdd |-> 2, ssd |-> 3]
MCErr  == [hdd |-> 3, ssd |-> 5]
=============================================================================
