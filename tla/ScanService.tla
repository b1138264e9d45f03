---------------------------- MODULE ScanService ----------------------------
(***************************************************************************)
(* What bff/src/lib/library.ts promises about scans, with none of the     *)
(* promises it is built from: whoever asks for a scan is answered only     *)
(* once a walk of the disk that began after the asking has ended, and a    *)
(* walk and a held piece of work (a renumber, Rescan everything's Apply)   *)
(* never overlap.                                                          *)
(***************************************************************************)
CONSTANT Callers

VARIABLES
    want,    \* want[c]: idle, asked, or covered by a walk begun since
    work     \* what has the library's files to itself: none, walk or fn

vars == <<want, work>>

Init == want = [c \in Callers |-> "idle"] /\ work = "none"

Ask(c) ==
    /\ want[c] = "idle"
    /\ want' = [want EXCEPT ![c] = "asked"]
    /\ UNCHANGED work

\* The walk reads the disk as it is from here on: it answers everybody waiting.
BeginWalk ==
    /\ work = "none"
    /\ work' = "walk"
    /\ want' = [c \in Callers |-> IF want[c] = "asked" THEN "covered" ELSE want[c]]

\* The walk ends, answers some of those it covered, and may hand over to a held function.
EndWalk ==
    /\ work = "walk"
    /\ work' \in {"none", "fn"}
    /\ \A c \in Callers : want'[c] = want[c] \/ (want[c] = "covered" /\ want'[c] = "idle")
    /\ want' = [c \in Callers |-> want'[c]]

BeginFn == work = "none" /\ work' = "fn" /\ UNCHANGED want
EndFn   == work = "fn" /\ work' = "none" /\ UNCHANGED want

Next == (\E c \in Callers : Ask(c)) \/ BeginWalk \/ EndWalk \/ BeginFn \/ EndFn

Spec == Init /\ [][Next]_vars
=============================================================================
