------------------------------- MODULE MCPace -------------------------------
(* Instances of Pace for TLC: time in units of PACE_HOLD_MS and             *)
(* PACE_IDLE_MS, which are one unit each.                                   *)
EXTENDS Pace

CONSTANTS cdn, img
ThreeGroups == 1..3
=============================================================================
