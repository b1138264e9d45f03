------------------------------ MODULE MCSweep -------------------------------
(* Three sources: a and b behind the Cloudflare solver, c not; pages of a   *)
(* and c may turn out to come from one server.  d is switched off.         *)
EXTENDS Sweep
CONSTANTS a, b, c, d, s1, s2, s3
MCSources == {a, b, c, d}
MCAskable == {a, b, c}
MCKinds == [s \in MCSources |-> IF s \in {a, b} THEN {"solver"} ELSE {}]
MCKeyAt == [s \in MCSources |-> s]
MCCanJoin == {a, c}
MCRows == <<s1, s2, s3>>
MCRoute == [id \in Range(MCRows) |->
               CASE id = s1 -> <<d, a, c>>
                 [] id = s2 -> <<a, c>>
                 [] OTHER -> <<b>>]
MCCanCool == {a, c}
MCCanHold == {s2}
=============================================================================
