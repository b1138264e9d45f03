----------------------------- MODULE MCSessions -----------------------------
(* Instances of Sessions: one browser with a few requests under way.         *)
EXTENDS Sessions

CONSTANTS c1, c2
=============================================================================
