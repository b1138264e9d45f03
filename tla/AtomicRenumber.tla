--------------------------- MODULE AtomicRenumber ---------------------------
(***************************************************************************)
(* What a renumber of a series promises (bff/src/lib/numbering.ts): the    *)
(* files and the rows of a series change numbers together, once, by the    *)
(* plan that was confirmed, or stay as they were.  Nothing is said of the  *)
(* files while the change is under way, but that it ends in one of the two.*)
(* Failures may break the promise; nothing is said once it is broken.      *)
(***************************************************************************)
EXTENDS Naturals

CONSTANTS Books, Places, Maps

\* What a number is read as while nothing is said of it; no chapter has it.
Unsaid == 0

VARIABLES
    number,   \* number[b]: what the row of b says
    file,     \* file[b]: the number the file of b is named for, unsaid on the move
    target,   \* target[b]: the number b is being moved to, unsaid when it is not
    broken    \* the promise is broken

vars == <<number, file, target, broken>>

Nobody == [b \in Books |-> Unsaid]

Init ==
    /\ number \in [Books -> Places]
    /\ file = number
    /\ target = Nobody
    /\ broken = FALSE

\* A confirmed plan is written down, and the files are on the move.
Start ==
    /\ target = Nobody
    /\ \E m \in Maps : target' = [b \in Books |-> m[number[b]]]
    /\ file' = Nobody
    /\ UNCHANGED number

\* The files have their new names, and the rows with them.
Finish ==
    /\ target # Nobody
    /\ number' = target /\ file' = target
    /\ target' = Nobody

\* The files have their old names again, and the rows never moved.
GiveUp ==
    /\ target # Nobody
    /\ file' = number
    /\ target' = Nobody
    /\ UNCHANGED number

\* The promise breaks, and stays broken.
Break == broken' = TRUE

Next ==
    \/ ~broken /\ (Start \/ Finish \/ GiveUp) /\ UNCHANGED broken
    \/ Break

Spec == Init /\ [][Next]_vars
=============================================================================
