------------------------------ MODULE ScanHold ------------------------------
(***************************************************************************)
(* The scans of the library and the work that holds them off:              *)
(* persistScan, scanOnce and withScansHeld of bff/src/lib/library.ts.      *)
(*                                                                         *)
(* The module keeps three variables the code shares between its callers:   *)
(* `scanning` (here scan, with how far that scan is), `again` (the one     *)
(* follow-up everybody who asks during a scan shares) and `hold`.  What a  *)
(* scan does to the rows is not modelled, only when it walks.              *)
(*                                                                         *)
(* Promise callbacks run before the event loop takes the next event, so    *)
(* whatever waits on the disk, a timer or a request (Walk, Settle,         *)
(* Release, a new call) happens only when no callback is due.  The order   *)
(* among callbacks that are due together is left open.                     *)
(***************************************************************************)
EXTENDS Naturals, Sequences

CONSTANTS
    Callers,   \* callers of persistScan
    Holders    \* callers of withScansHeld

VARIABLES
    scan,      \* none | held: waits for the hold | resumed: the hold was let
               \* go | opening: not at the disk yet | walking
    again,     \* the follow-up: none | armed: waits for the scan | due
    caller,    \* caller[c]: idle | scan: answered by scan | again: by the follow-up
    walks,     \* history: walks begun since caller c asked, until it is answered
    hold,      \* hold # null
    holder,    \* holder[h]: idle | queued | waiting: for the scan | running: its fn
    queue      \* the holders that wait for the hold, in the order they will be woken

scanVars == <<scan, again, caller, walks, hold, holder, queue>>

InFlight == scan \in {"resumed", "opening", "walking"}

ScanTypeOK ==
    /\ scan \in {"none", "held", "resumed", "opening", "walking"}
    /\ again \in {"none", "armed", "due"}
    /\ caller \in [Callers -> {"idle", "scan", "again"}]
    /\ walks \in [Callers -> 0 .. 2]
    /\ hold \in BOOLEAN
    /\ holder \in [Holders -> {"idle", "queued", "waiting", "running"}]
    /\ queue \in Seq(Holders)

ScanInit ==
    /\ scan = "none" /\ again = "none"
    /\ caller = [c \in Callers |-> "idle"]
    /\ walks = [c \in Callers |-> 0]
    /\ hold = FALSE
    /\ holder = [h \in Holders |-> "idle"]
    /\ queue = <<>>

\* No callback is due: the event loop may take an event.
NoCallbackDue ==
    /\ scan # "resumed"
    /\ again # "due"
    /\ ~(~hold /\ queue # <<>>)

-----------------------------------------------------------------------------
(* persistScan *)

\* Where scanOnce starts: behind the hold it finds, or on its way to the disk.
StartedAnyway == "opening"                                          \* mutant
Started == IF hold THEN "held" ELSE "opening"

\* What a call that finds a scan joins.
Joined == "again"

\* A call with no scan starts one; a call during a scan shares the follow-up.
\* A caller whose own scan has just ended may ask again before the follow-up runs.
PersistScan(c) ==
    /\ NoCallbackDue \/ again = "due"
    /\ caller[c] = "idle"
    /\ \/ /\ scan = "none"
          /\ scan' = Started
          /\ caller' = [caller EXCEPT ![c] = "scan"]
          /\ UNCHANGED again
       \/ /\ scan # "none"
          /\ caller' = [caller EXCEPT ![c] = Joined]
          /\ again' = IF again = "none" THEN "armed" ELSE again
          /\ UNCHANGED scan
    /\ UNCHANGED <<walks, hold, holder, queue>>

\* The follow-up takes a scan that started meanwhile, or starts its own.
Adopts == scan # "none"

\* The follow-up's own turn, once the scan it waited for has ended.
FollowUp ==
    /\ again = "due"
    /\ IF scan = "none" \/ Adopts
       THEN /\ scan' = IF scan = "none" THEN Started ELSE scan
            /\ caller' = [c \in Callers |-> IF caller[c] = "again" THEN "scan" ELSE caller[c]]
            /\ again' = "none"
       ELSE again' = "armed" /\ UNCHANGED <<scan, caller>>
    /\ UNCHANGED <<walks, hold, holder, queue>>

-----------------------------------------------------------------------------
(* scanOnce *)

\* A scan waits for the hold it found, once: it does not look for another.
AfterHoldAgain == IF hold THEN "held" ELSE "opening"                \* mutant
AfterHold == "opening"

Resume ==
    /\ scan = "resumed"
    /\ scan' = AfterHold
    /\ UNCHANGED <<again, caller, walks, hold, holder, queue>>

\* The walk of the roots begins: what is on disk by now is seen.
Walk ==
    /\ NoCallbackDue
    /\ scan = "opening"
    /\ scan' = "walking"
    /\ walks' = [c \in Callers |-> IF caller[c] = "idle" THEN 0 ELSE walks[c] + 1]
    /\ UNCHANGED <<again, caller, hold, holder, queue>>

\* The scan ends, well or not: its callers are answered, the follow-up is due,
\* and the holder that waited for it goes on.
Settle ==
    /\ NoCallbackDue
    /\ scan = "walking"
    /\ scan' = "none"
    /\ again' = IF again = "armed" THEN "due" ELSE again
    /\ caller' = [c \in Callers |-> IF caller[c] = "scan" THEN "idle" ELSE caller[c]]
    /\ walks' = [c \in Callers |-> IF caller[c] = "scan" THEN 0 ELSE walks[c]]
    /\ holder' = [h \in Holders |-> IF holder[h] = "waiting" THEN "running" ELSE holder[h]]
    /\ UNCHANGED <<hold, queue>>

-----------------------------------------------------------------------------
(* withScansHeld *)

\* What a holder does once the hold is its own: it takes the scan of that very turn.
EnteredAtOnce == "running"                                          \* mutant
Entered == IF scan = "none" THEN "running" ELSE "waiting"

\* The wait is a loop: whoever is woken looks at the hold again.
Free == ~hold

Hold(h) ==
    /\ NoCallbackDue
    /\ holder[h] = "idle"
    /\ \/ /\ Free
          /\ hold' = TRUE
          /\ holder' = [holder EXCEPT ![h] = Entered]
          /\ UNCHANGED queue
       \/ /\ ~Free
          /\ holder' = [holder EXCEPT ![h] = "queued"]
          /\ queue' = Append(queue, h)
          /\ UNCHANGED hold
    /\ UNCHANGED <<scan, again, caller, walks>>

\* The first of those woken finds no hold and takes it; the others wait again, in order.
Take ==
    /\ Free /\ queue # <<>>
    /\ hold' = TRUE
    /\ holder' = [holder EXCEPT ![Head(queue)] = Entered]
    /\ queue' = Tail(queue)
    /\ UNCHANGED <<scan, again, caller, walks>>

\* fn settles: the hold goes, the scan that waits for it and the next holder are woken.
Release(h) ==
    /\ NoCallbackDue
    /\ holder[h] = "running"
    /\ holder' = [holder EXCEPT ![h] = "idle"]
    /\ hold' = FALSE
    /\ scan' = IF scan = "held" THEN "resumed" ELSE scan
    /\ UNCHANGED <<again, caller, walks, queue>>

-----------------------------------------------------------------------------
ScanNext ==
    \/ \E c \in Callers : PersistScan(c)
    \/ \E h \in Holders : Hold(h) \/ Release(h)
    \/ FollowUp \/ Resume \/ Walk \/ Settle \/ Take

ScanSpec == ScanInit /\ [][ScanNext]_scanVars

\* Callbacks run, the disk answers and what is held ends; nobody has to call.
ScanLiveSpec ==
    /\ ScanSpec
    /\ WF_scanVars(FollowUp) /\ WF_scanVars(Resume) /\ WF_scanVars(Walk)
    /\ WF_scanVars(Settle) /\ WF_scanVars(Take)
    /\ \A h \in Holders : WF_scanVars(Release(h))

-----------------------------------------------------------------------------
(* Properties *)

\* While a held function runs no scan is past its wait, so a renumber's renames and
\* rows are never read in between (withScansHeld, library.ts:901).
HoldExcludesScan == \A h \in Holders : holder[h] = "running" => ~InFlight

\* Two functions never hold at once, and the hold is set exactly while one has it
\* (the while loop, library.ts:913).
OneHolder ==
    /\ \A g, h \in Holders : {holder[g], holder[h]} \subseteq {"waiting", "running"} => g = h
    /\ hold <=> \E h \in Holders : holder[h] \in {"waiting", "running"}

\* The scan a holder waits for never waits for that holder: two holders queued behind
\* one scan do not wait for each other through it (library.ts:907).
NoCircularWait == \A h \in Holders : holder[h] = "waiting" => InFlight

\* A caller is answered by a walk that began after it asked (persistScan, library.ts:865).
AnsweredByALaterWalk ==
    [][\A c \in Callers : caller[c] # "idle" /\ caller'[c] = "idle" => walks[c] >= 1]_scanVars

\* Nobody waits for a third scan: the one that was starting, and one more (library.ts:878).
NeverAThird == \A c \in Callers : walks[c] <= 2

\* The whole of it: the promises keep what ScanService promises.
Service == INSTANCE ScanService WITH
    want <- [c \in Callers |-> IF caller[c] = "idle" THEN "idle"
                               ELSE IF walks[c] = 0 THEN "asked" ELSE "covered"],
    work <- IF scan = "walking" THEN "walk"
            ELSE IF \E h \in Holders : holder[h] = "running" THEN "fn" ELSE "none"
Serves == Service!Spec

\* Every request for a scan is answered and everybody who asks for the hold gets it:
\* scans that wait for holders and holders that wait for scans come to an end.
NobodyWaitsForGood ==
    /\ \A c \in Callers : caller[c] # "idle" ~> caller[c] = "idle"
    /\ \A h \in Holders : holder[h] # "idle" ~> holder[h] = "running"
=============================================================================
