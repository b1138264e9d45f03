------------------------------- MODULE MCGate -------------------------------
(* Instances of Gate for TLC.  Level 0 is an unhurried source, level 1 one  *)
(* that has refused us: underGate (downloader.ts:341) then asks for width 1 *)
(* and for a gap.                                                           *)
EXTENDS Gate

CONSTANTS o1, o2, o3, o4, k1

OneLane  == [o \in Ops |-> k1]

PaceLevels  == {0, 1}
WiderWidths == [l \in PaceLevels |-> IF l = 0 THEN 3 ELSE 1]
SomeGaps    == [l \in PaceLevels |-> IF l = 0 THEN 0 ELSE 2]
=============================================================================
