--------------------------- MODULE MCBatteryLink ----------------------------
(* BatteryLink with a short ladder.                                         *)
EXTENDS BatteryLink
=============================================================================
