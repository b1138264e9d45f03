--------------------------- MODULE LibraryProofs ----------------------------
(***************************************************************************)
(* Who walks the library and who has it to himself (ScanHold), and what    *)
(* Fetch again leaves on the disk that is walked (Refetch).                *)
(*                                                                         *)
(* ScanHold: scans and held work never overlap, never wait for each other  *)
(* in a circle, and answer every request with a later walk, for any number *)
(* of callers and holders.                                                 *)
(*                                                                         *)
(* Refetch, for any number of chapters, downloads and crashes: a chapter   *)
(* without a file of its own lacks it for a reason that mends itself: the  *)
(* route or the job is between setting it aside and settling it, or the    *)
(* reaper has yet to look at it (AwayForCause), or a failure of this life  *)
(* keeps it away until the next boot.  While it is away, or until the hook *)
(* has settled it, the copy that was there is known                        *)
(* (OldIsKnown).  The hook and the reaper drop or pass over an old copy    *)
(* only where a file is (LandedIsThere, and the names the reaper read).    *)
(***************************************************************************)
EXTENDS ScanHold, Refetch, TLAPS

(* ScanHold *)

\* Whoever waits for the hold is in the queue, and nobody else.
QueueOfWaiters == \A i \in 1 .. Len(queue) : holder[queue[i]] = "queued"
QueueOnce == \A i, j \in 1 .. Len(queue) : queue[i] = queue[j] => i = j

\* A scan held off waits for a function that runs.
HeldByAFunction == scan = "held" => \E h \in Holders : holder[h] = "running"

\* The follow-up is armed while there is a scan to follow, and due before the next walks.
ArmedBehindAScan ==
    /\ again = "armed" => scan # "none"
    /\ again = "due" => scan # "walking"

\* How many walks a caller can have seen begin, by what answers it.
CallerCounts ==
    \A c \in Callers :
        /\ caller[c] = "idle" => walks[c] = 0
        /\ caller[c] = "again" => again # "none" /\ walks[c] <= 1
        /\ caller[c] = "scan" => scan # "none"
        /\ caller[c] = "scan" /\ scan # "walking" => walks[c] <= 1
        /\ caller[c] = "scan" /\ scan = "walking" => walks[c] \in {1, 2}
        /\ caller[c] = "again" /\ again = "armed" /\ scan # "walking" => walks[c] = 0

ScanInv ==
    /\ ScanTypeOK
    /\ OneHolder /\ HoldExcludesScan /\ NoCircularWait
    /\ QueueOfWaiters /\ QueueOnce
    /\ HeldByAFunction
    /\ ArmedBehindAScan
    /\ CallerCounts

-----------------------------------------------------------------------------
\* The state the module starts in keeps the strengthened invariant.
LEMMA ScanInitInv == ScanInit => ScanInv
<1> SUFFICES ASSUME ScanInit PROVE ScanInv
  OBVIOUS
<1>1. queue \in Seq(Holders) /\ QueueOfWaiters /\ QueueOnce
  BY DEF ScanInit, QueueOfWaiters, QueueOnce
<1>2. ScanTypeOK
  <2>1. walks \in [Callers -> 0 .. 2]
    BY DEF ScanInit
  <2> QED BY <1>1, <2>1 DEF ScanInit, ScanTypeOK
<1>3. OneHolder /\ HoldExcludesScan /\ NoCircularWait /\ HeldByAFunction
  BY DEF ScanInit, OneHolder, HoldExcludesScan, NoCircularWait, HeldByAFunction
<1>4. ArmedBehindAScan /\ CallerCounts
  BY DEF ScanInit, ArmedBehindAScan, CallerCounts
<1> QED BY <1>1, <1>2, <1>3, <1>4 DEF ScanInv

\* A call joins the follow-up of the scan it finds, or starts a scan behind the hold.
LEMMA PersistScanStep ==
  ASSUME ScanInv, NEW c \in Callers, PersistScan(c)
  PROVE  ScanInv'
<1> USE DEF ScanInv, PersistScan
<1>1. CASE scan = "none"
  BY <1>1 DEF Started, ScanTypeOK, OneHolder, HoldExcludesScan, NoCircularWait, QueueOfWaiters,
              QueueOnce, HeldByAFunction, ArmedBehindAScan, CallerCounts, InFlight
<1>2. CASE scan # "none"
  <2>1. /\ scan' = scan /\ caller' = [caller EXCEPT ![c] = "again"]
        /\ again' = IF again = "none" THEN "armed" ELSE again
        /\ UNCHANGED <<walks, hold, holder, queue>>
    BY <1>2 DEF Joined
  <2>2. CallerCounts'
    BY <1>2, <2>1 DEF ScanTypeOK, CallerCounts
  <2> QED
    BY <1>2, <2>1, <2>2 DEF ScanTypeOK, OneHolder, HoldExcludesScan, NoCircularWait, QueueOfWaiters,
              QueueOnce, HeldByAFunction, ArmedBehindAScan, InFlight
<1> QED BY <1>1, <1>2

\* The follow-up: who shared it is answered by the scan it takes or starts.
LEMMA FollowUpStep == ScanInv /\ FollowUp => ScanInv'
<1> SUFFICES ASSUME ScanInv, FollowUp PROVE ScanInv'
  OBVIOUS
<1>1. /\ again = "due" /\ again' = "none"
      /\ scan' = IF scan = "none" THEN Started ELSE scan
      /\ caller' = [c \in Callers |-> IF caller[c] = "again" THEN "scan" ELSE caller[c]]
      /\ UNCHANGED <<walks, hold, holder, queue>>
  BY DEF FollowUp, Adopts
<1>2. ScanTypeOK' /\ OneHolder' /\ QueueOfWaiters' /\ QueueOnce' /\ ArmedBehindAScan'
  BY <1>1 DEF ScanInv, ScanTypeOK, OneHolder, QueueOfWaiters, QueueOnce, ArmedBehindAScan, Started
<1>3. HoldExcludesScan' /\ NoCircularWait' /\ HeldByAFunction'
  BY <1>1 DEF ScanInv, ScanTypeOK, OneHolder, HoldExcludesScan, NoCircularWait, HeldByAFunction, Started, InFlight
<1>4. CallerCounts'
  BY <1>1 DEF ScanInv, ScanTypeOK, CallerCounts, ArmedBehindAScan, Started
<1> QED BY <1>2, <1>3, <1>4 DEF ScanInv

\* A scan that was held off goes to the disk.
LEMMA ResumeStep == ScanInv /\ Resume => ScanInv'
  BY DEF ScanInv, Resume, AfterHold, ScanTypeOK, OneHolder, HoldExcludesScan, NoCircularWait, QueueOfWaiters,
         QueueOnce, HeldByAFunction, ArmedBehindAScan, CallerCounts, InFlight

\* The walk begins: everybody who waits has seen one more begin.
LEMMA WalkStep == ScanInv /\ Walk => ScanInv'
<1> SUFFICES ASSUME ScanInv, Walk PROVE ScanInv'
  OBVIOUS
<1> USE DEF ScanInv, Walk, NoCallbackDue
<1>1. \A c \in Callers : caller[c] # "idle" => walks[c] <= 1
  BY DEF ScanTypeOK, CallerCounts
<1>2. ScanTypeOK'
  BY <1>1 DEF ScanTypeOK
<1>3. CallerCounts'
  BY <1>1 DEF ScanTypeOK, CallerCounts, NoCallbackDue
<1> QED
  BY <1>2, <1>3 DEF OneHolder, HoldExcludesScan, NoCircularWait, QueueOfWaiters,
         QueueOnce, HeldByAFunction, ArmedBehindAScan, InFlight

\* The scan ends: the holder that waited for it is the only one that can go on.
LEMMA SettleStep == ScanInv /\ Settle => ScanInv'
<1> SUFFICES ASSUME ScanInv, Settle PROVE ScanInv'
  OBVIOUS
<1> USE DEF ScanInv, Settle
<1>1. ScanTypeOK' /\ ArmedBehindAScan'
  BY DEF ScanTypeOK, ArmedBehindAScan
<1>2. OneHolder'
  BY DEF ScanTypeOK, OneHolder
<1>3. HoldExcludesScan' /\ NoCircularWait' /\ HeldByAFunction'
  BY DEF ScanTypeOK, HoldExcludesScan, NoCircularWait, HeldByAFunction, InFlight
<1>4. QueueOfWaiters' /\ QueueOnce'
  <2>1. ASSUME NEW i \in 1 .. Len(queue) PROVE queue[i] \in Holders /\ holder'[queue[i]] = "queued"
    BY <2>1 DEF ScanTypeOK, QueueOfWaiters
  <2> QED BY <2>1 DEF QueueOfWaiters, QueueOnce
<1>5. CallerCounts'
  BY DEF ScanTypeOK, CallerCounts, ArmedBehindAScan
<1> QED BY <1>1, <1>2, <1>3, <1>4, <1>5

\* A holder takes the free hold with the scan it finds, or queues behind the others.
LEMMA HoldStep ==
  ASSUME ScanInv, NEW h \in Holders, Hold(h)
  PROVE  ScanInv'
<1> USE DEF ScanInv, Hold, Free
<1>0. CallerCounts' /\ ArmedBehindAScan'
  BY DEF CallerCounts, ArmedBehindAScan
<1>1. CASE ~hold
  <2>1. /\ hold' = TRUE /\ queue' = queue /\ scan' = scan
        /\ holder' = [holder EXCEPT ![h] = Entered]
        /\ scan \notin {"held", "resumed"}
    BY <1>1 DEF OneHolder, HeldByAFunction, ScanTypeOK, NoCallbackDue
  <2>2. ScanTypeOK' /\ OneHolder'
    BY <1>1, <2>1 DEF ScanTypeOK, OneHolder, Entered
  <2>3. HoldExcludesScan' /\ NoCircularWait' /\ HeldByAFunction'
    BY <1>1, <2>1 DEF ScanTypeOK, OneHolder, HoldExcludesScan, NoCircularWait, HeldByAFunction, InFlight, Entered
  <2>4. QueueOfWaiters' /\ QueueOnce'
    BY <2>1 DEF ScanTypeOK, QueueOfWaiters, QueueOnce
  <2> QED BY <1>0, <2>2, <2>3, <2>4
<1>2. CASE hold
  <2>1. /\ hold' = hold /\ queue' = Append(queue, h) /\ scan' = scan
        /\ holder' = [holder EXCEPT ![h] = "queued"] /\ holder[h] = "idle"
    BY <1>2
  <2>2. ScanTypeOK' /\ OneHolder'
    BY <1>2, <2>1 DEF ScanTypeOK, OneHolder
  <2>3. HoldExcludesScan' /\ NoCircularWait' /\ HeldByAFunction'
    BY <1>2, <2>1 DEF ScanTypeOK, HoldExcludesScan, NoCircularWait, HeldByAFunction, InFlight
  <2>4. /\ Len(queue') = Len(queue) + 1
        /\ \A i \in 1 .. Len(queue') : queue'[i] = IF i = Len(queue) + 1 THEN h ELSE queue[i]
        /\ \A i \in 1 .. Len(queue) : queue[i] \in Holders /\ queue[i] # h
    BY <2>1 DEF ScanTypeOK, QueueOfWaiters
  <2>5. QueueOfWaiters' /\ QueueOnce'
    BY <2>1, <2>4 DEF ScanTypeOK, QueueOfWaiters, QueueOnce
  <2> QED BY <1>0, <2>2, <2>3, <2>5
<1> QED BY <1>1, <1>2 DEF ScanTypeOK

\* The first in the queue takes the hold with the scan it finds.
LEMMA TakeStep == ScanInv /\ Take => ScanInv'
<1> SUFFICES ASSUME ScanInv, Take PROVE ScanInv'
  OBVIOUS
<1> USE DEF ScanInv, Take, Free
<1> DEFINE h == Head(queue)
<1>1. /\ h \in Holders /\ holder[h] = "queued" /\ h = queue[1] /\ Len(queue) \in Nat \ {0}
      /\ holder' = [holder EXCEPT ![h] = Entered]
      /\ ~hold /\ hold' = TRUE /\ queue' = Tail(queue)
      /\ UNCHANGED <<scan, again, caller, walks>>
  BY DEF ScanTypeOK, QueueOfWaiters
<1>2. /\ queue' \in Seq(Holders) /\ Len(queue') = Len(queue) - 1
      /\ \A i \in 1 .. Len(queue') : queue'[i] = queue[i + 1] /\ i + 1 \in 1 .. Len(queue)
  BY <1>1 DEF ScanTypeOK
<1> HIDE DEF h
<1>3. scan # "held"
  BY <1>1 DEF OneHolder, HeldByAFunction
<1>4. ScanTypeOK' /\ OneHolder'
  BY <1>1, <1>2 DEF ScanTypeOK, OneHolder, Entered
<1>5. HoldExcludesScan' /\ NoCircularWait' /\ HeldByAFunction'
  BY <1>1, <1>3 DEF ScanTypeOK, OneHolder, HoldExcludesScan, NoCircularWait, HeldByAFunction, InFlight, Entered
<1>6. \A i \in 1 .. Len(queue') : queue'[i] # h /\ queue'[i] \in Holders /\ holder[queue'[i]] = "queued"
  BY <1>1, <1>2 DEF ScanTypeOK, QueueOfWaiters, QueueOnce
<1>7. QueueOfWaiters'
  BY <1>1, <1>6 DEF ScanTypeOK, QueueOfWaiters
<1>8. QueueOnce'
  BY <1>1, <1>2 DEF QueueOnce
<1>9. CallerCounts' /\ ArmedBehindAScan'
  BY <1>1 DEF CallerCounts, ArmedBehindAScan
<1> QED BY <1>4, <1>5, <1>7, <1>8, <1>9

\* fn ends: nobody has the hold, and the scan it held off is let go.
LEMMA ReleaseStep ==
  ASSUME ScanInv, NEW h \in Holders, Release(h)
  PROVE  ScanInv'
<1> USE DEF ScanInv, Release
<1>1. ScanTypeOK' /\ OneHolder'
  BY DEF ScanTypeOK, OneHolder
<1>2. \A g \in Holders : holder'[g] \notin {"waiting", "running"}
  BY DEF ScanTypeOK, OneHolder
<1>3. HoldExcludesScan' /\ NoCircularWait' /\ HeldByAFunction'
  BY <1>2 DEF ScanTypeOK, HoldExcludesScan, NoCircularWait, HeldByAFunction
<1>4. QueueOfWaiters' /\ QueueOnce'
  BY DEF ScanTypeOK, QueueOfWaiters, QueueOnce
<1>5. CallerCounts' /\ ArmedBehindAScan'
  BY DEF ScanTypeOK, CallerCounts, ArmedBehindAScan
<1> QED BY <1>1, <1>3, <1>4, <1>5

\* Every step keeps the strengthened invariant.
LEMMA ScanNextInv == ScanInv /\ [ScanNext]_scanVars => ScanInv'
<1> SUFFICES ASSUME ScanInv, [ScanNext]_scanVars PROVE ScanInv'
  OBVIOUS
<1>1. CASE UNCHANGED scanVars
  BY <1>1 DEF scanVars, ScanInv, ScanTypeOK, OneHolder, HoldExcludesScan, NoCircularWait, QueueOfWaiters,
         QueueOnce, HeldByAFunction, ArmedBehindAScan, CallerCounts, InFlight
<1>2. ASSUME NEW c \in Callers, PersistScan(c) PROVE ScanInv'
  BY <1>2, PersistScanStep
<1>3. ASSUME NEW h \in Holders, Hold(h) PROVE ScanInv'
  BY <1>3, HoldStep
<1>4. ASSUME NEW h \in Holders, Release(h) PROVE ScanInv'
  BY <1>4, ReleaseStep
<1> QED
  BY <1>1, <1>2, <1>3, <1>4, FollowUpStep, ResumeStep, WalkStep, SettleStep, TakeStep DEF ScanNext

\* The strengthened invariant holds in every state.
THEOREM ScanInvariance == ScanSpec => []ScanInv
  BY ScanInitInv, ScanNextInv, PTL DEF ScanSpec

\* While a renumber or Rescan everything's Apply runs, no scan is past its wait: what
\* withScansHeld is for, for any number of callers and holders.
THEOREM HoldsExcludeScans == ScanSpec => []HoldExcludesScan
<1>1. ScanInv => HoldExcludesScan
  BY DEF ScanInv
<1> QED BY <1>1, ScanInvariance, PTL

\* One function holds at a time, and the hold is set exactly while one does.
THEOREM OneHolds == ScanSpec => []OneHolder
<1>1. ScanInv => OneHolder
  BY DEF ScanInv
<1> QED BY <1>1, ScanInvariance, PTL

\* A holder's scan never waits for that holder: no circle through the hold.
THEOREM NobodyWaitsInACircle == ScanSpec => []NoCircularWait
<1>1. ScanInv => NoCircularWait
  BY DEF ScanInv
<1> QED BY <1>1, ScanInvariance, PTL

\* No caller waits through more than two walks.
THEOREM AtMostTwoWalks == ScanSpec => []NeverAThird
<1>1. ScanInv => NeverAThird
  BY DEF ScanInv, ScanTypeOK, NeverAThird
<1> QED BY <1>1, ScanInvariance, PTL

\* Whoever asked is answered by a walk that began after it asked.
THEOREM AnsweredLater == ScanSpec => AnsweredByALaterWalk
<1>1. ScanInv /\ [ScanNext]_scanVars
        => [\A c \in Callers : caller[c] # "idle" /\ caller'[c] = "idle" => walks[c] >= 1]_scanVars
  <2> SUFFICES ASSUME ScanInv, ScanNext, NEW c \in Callers, caller[c] # "idle", caller'[c] = "idle"
               PROVE  walks[c] >= 1
    BY DEF scanVars
  <2>1. ASSUME NEW d \in Callers, PersistScan(d) PROVE FALSE
    BY <2>1 DEF ScanInv, ScanTypeOK, PersistScan, Joined
  <2>2. CASE Settle
    BY <2>2 DEF ScanInv, ScanTypeOK, Settle, CallerCounts
  <2>3. CASE FollowUp
    BY <2>3 DEF ScanInv, ScanTypeOK, FollowUp, Adopts
  <2>4. CASE Walk \/ Resume \/ Take \/ \E h \in Holders : Hold(h) \/ Release(h)
    BY <2>4 DEF Walk, Resume, Take, Hold, Release
  <2> QED BY <2>1, <2>2, <2>3, <2>4 DEF ScanNext
<1> QED BY <1>1, ScanInvariance, PTL DEF ScanSpec, AnsweredByALaterWalk

-----------------------------------------------------------------------------
(* The promises implement ScanService.  Want and Work are its variables as *)
(* the refinement mapping of ScanHold reads them.                          *)

Want == [c \in Callers |-> IF caller[c] = "idle" THEN "idle"
                           ELSE IF walks[c] = 0 THEN "asked" ELSE "covered"]
Work == IF scan = "walking" THEN "walk"
        ELSE IF \E h \in Holders : holder[h] = "running" THEN "fn" ELSE "none"

\* A step that answers nobody, begins no walk and changes no function is a stutter,
\* and one that only adds requests is a request.
LEMMA StepMaps == ScanInv /\ ScanInv' /\ [ScanNext]_scanVars => [Service!Next]_(Service!vars)
<1> SUFFICES ASSUME ScanInv, ScanInv', [ScanNext]_scanVars PROVE [Service!Next]_<<Want, Work>>
  BY DEF Service!vars, Want, Work
<1>1. ASSUME NEW c \in Callers, PersistScan(c) PROVE Service!Ask(c)
  <2>1. /\ caller[c] = "idle" /\ walks' = walks /\ holder' = holder /\ walks[c] = 0
        /\ \E a \in {"scan", "again"} : caller' = [caller EXCEPT ![c] = a]
        /\ (scan' = "walking") = (scan = "walking")
    BY <1>1 DEF PersistScan, Joined, Started, ScanInv, CallerCounts
  <2>2. Work' = Work
    BY <2>1 DEF Work
  <2>3. Want[c] = "idle" /\ Want' = [Want EXCEPT ![c] = "asked"]
    BY <2>1 DEF Want, ScanInv, ScanTypeOK
  <2> QED BY <2>2, <2>3 DEF Service!Ask, Want, Work
<1>2. ASSUME NEW h \in Holders, Hold(h) PROVE Service!BeginFn \/ UNCHANGED <<Want, Work>>
  <2>1. Want' = Want /\ scan' = scan
    BY <1>2 DEF Hold, Want
  <2>2. CASE holder' = [holder EXCEPT ![h] = "running"] /\ ~hold /\ scan = "none"
    BY <2>1, <2>2 DEF Service!BeginFn, Want, Work, ScanInv, ScanTypeOK, OneHolder
  <2>3. CASE \E w \in {"waiting", "queued"} : holder' = [holder EXCEPT ![h] = w]
    <3>1. \A g \in Holders : holder'[g] = "running" <=> holder[g] = "running"
      BY <1>2, <2>3 DEF Hold, ScanInv, ScanTypeOK
    <3> QED BY <2>1, <3>1 DEF Work
  <2> QED BY <1>2, <2>2, <2>3 DEF Hold, Free, Entered
<1>3. ASSUME NEW h \in Holders, Release(h) PROVE Service!EndFn
  <2>1. Want' = Want
    BY <1>3 DEF Release, Want
  <2>2. scan # "walking" /\ scan' # "walking" /\ \A g \in Holders : holder'[g] # "running"
    BY <1>3 DEF Release, ScanInv, ScanTypeOK, OneHolder, HoldExcludesScan, InFlight
  <2>3. holder[h] = "running"
    BY <1>3 DEF Release
  <2> QED BY <2>1, <2>2, <2>3 DEF Service!EndFn, Want, Work
<1>4. CASE FollowUp
  <2>1. /\ \A c \in Callers : caller'[c] = "idle" <=> caller[c] = "idle"
        /\ walks' = walks /\ holder' = holder /\ (scan' = "walking" <=> scan = "walking")
    BY <1>4 DEF FollowUp, Adopts, Started, ScanInv, ScanTypeOK
  <2> QED BY <2>1 DEF Want, Work
<1>5. CASE Resume
  BY <1>5 DEF Resume, AfterHold, Want, Work
<1>6. ASSUME Walk PROVE Service!BeginWalk
  <2>1. Work = "none" /\ Work' = "walk"
    BY <1>6 DEF Walk, Work, ScanInv, HoldExcludesScan, InFlight
  <2>2. Want' = [c \in Callers |-> IF Want[c] = "asked" THEN "covered" ELSE Want[c]]
    BY <1>6 DEF Walk, Want, ScanInv, ScanTypeOK
  <2> QED BY <2>1, <2>2 DEF Service!BeginWalk, Want, Work
<1>7. ASSUME Settle PROVE Service!EndWalk
  <2>1. Work = "walk" /\ Work' \in {"none", "fn"}
    BY <1>7 DEF Settle, Work
  <2>2. \A c \in Callers : Want'[c] = Want[c] \/ (Want[c] = "covered" /\ Want'[c] = "idle")
    BY <1>7 DEF Settle, Want, ScanInv, ScanTypeOK, CallerCounts
  <2>3. Want' = [c \in Callers |-> Want'[c]]
    BY DEF Want
  <2> QED BY <2>1, <2>2, <2>3 DEF Service!EndWalk, Want, Work
<1>8. ASSUME Take PROVE Service!BeginFn \/ UNCHANGED <<Want, Work>>
  <2> DEFINE h == Head(queue)
  <2>1. Want' = Want /\ scan' = scan /\ ~hold /\ holder' = [holder EXCEPT ![h] = Entered]
    BY <1>8 DEF Take, Free, Want
  <2>2. h \in Holders /\ holder[h] # "running" /\ holder \in [Holders -> {"idle", "queued", "waiting", "running"}]
    BY <1>8 DEF Take, ScanInv, ScanTypeOK, QueueOfWaiters
  <2> HIDE DEF h
  <2>3. CASE scan = "none"
    <3>1. Work = "none"
      BY <2>1, <2>3 DEF Work, ScanInv, OneHolder
    <3>2. Work' = "fn"
      BY <2>1, <2>2, <2>3 DEF Work, Entered
    <3> QED BY <2>1, <3>1, <3>2 DEF Service!BeginFn, Want, Work
  <2>4. CASE scan # "none"
    <3>1. \A g \in Holders : holder'[g] = "running" <=> holder[g] = "running"
      BY <2>1, <2>2, <2>4 DEF Entered
    <3> QED BY <2>1, <3>1 DEF Work
  <2> QED BY <2>3, <2>4
<1>9. CASE UNCHANGED scanVars
  BY <1>9 DEF scanVars, Want, Work
<1> QED
  BY <1>1, <1>2, <1>3, <1>4, <1>5, <1>6, <1>7, <1>8, <1>9 DEF ScanNext, Service!Next

\* persistScan and withScansHeld keep what ScanService promises, for any callers and holders.
THEOREM ImplementsService == ScanSpec => Serves
<1>1. ScanInit => Service!Init
  BY DEF ScanInit, Service!Init
<1> QED BY <1>1, StepMaps, ScanInvariance, PTL DEF ScanSpec, Serves, Service!Spec

-----------------------------------------------------------------------------
(* Refetch *)

\* Between being set aside and being settled.
Fetching == {"waiting", "asking", "fetching", "writing", "failed"}

\* A job that is over is with no chapter, one at its last scan has settled its own.
NothingGiven ==
    /\ job = "none" => \A c \in Chapters : at[c] = "out"
    /\ job = "scanning" => \A c \in Chapters : at[c] \in {"out", "settled", "kept"}

LandedIsThere == \A c \in Chapters : at[c] = "landed" => file[c] # 0

ToBeReaped(c) == reaper = "start" \/ (reaper = "walk" /\ c \in baks /\ c \notin names)
AwayForCause ==
    \A c \in Chapters : file[c] = 0 =>
        died \/ c \in stuck \/ ToBeReaped(c) \/ at[c] \in Fetching \cup {"aside"}

OldIsKnown ==
    \A c \in Chapters :
        /\ at[c] \in Fetching \cup {"aside"} => was[c] # 0
        /\ at[c] \in Fetching \cup {"aside"} =>
             file[c] = was[c] \/ (file[c] = 0 /\ bak[c] = was[c]) \/ c \in restored
        /\ at[c] \in {"back", "kept"} =>
             file[c] = was[c] \/ c \in restored \/ (c \in stuck /\ bak[c] = was[c])

IInv == TypeOK /\ NoCopyLost /\ NothingGiven /\ LandedIsThere /\ AwayForCause /\ OldIsKnown

\* Every step keeps the types.
LEMMA TypeStep ==
    ASSUME TypeOK, Next
    PROVE  TypeOK'
PROOF
<1> USE BoundsAssumption DEF TypeOK, Copies, At, disk, scanner, reap, past, Goes
<1>1. ASSUME NEW todo \in SUBSET Chapters, NEW read \in SUBSET Chapters, Refetch(todo, read) PROVE TypeOK'
  BY <1>1 DEF Refetch
<1>2. ASSUME NEW c \in Chapters, SetAside(c) PROVE TypeOK'
  BY <1>2 DEF SetAside
<1>3. ASSUME NEW c \in Chapters, Mark(c) PROVE TypeOK'
  BY <1>3 DEF Mark
<1>4. ASSUME NEW c \in Chapters, MarkFails(c) PROVE TypeOK'
  BY <1>4 DEF MarkFails, Forgets
<1>5. ASSUME NEW c \in Chapters, Begin(c) PROVE TypeOK'
  BY <1>5 DEF Begin
<1>6. ASSUME NEW c \in Chapters, Ask(c) PROVE TypeOK'
  BY <1>6 DEF Ask
<1>7. ASSUME NEW c \in Chapters, NotFetched(c) PROVE TypeOK'
  BY <1>7 DEF NotFetched
<1>8. ASSUME NEW c \in Chapters, Write(c) PROVE TypeOK'
  BY <1>8 DEF Write
<1>9. ASSUME NEW c \in Chapters, Land(c) PROVE TypeOK'
  BY <1>9 DEF Land
<1>10. ASSUME NEW c \in Chapters, WriteFails(c) PROVE TypeOK'
  BY <1>10 DEF WriteFails
<1>11. ASSUME NEW c \in Chapters, Throw(c) PROVE TypeOK'
  BY <1>11 DEF Throw, Forgets
<1>12. ASSUME NEW c \in Chapters, NeverReached(c) PROVE TypeOK'
  BY <1>12 DEF NeverReached
<1>13. ASSUME NEW c \in Chapters, Drop(c) PROVE TypeOK'
  BY <1>13 DEF Drop, HasLanded
<1>14. ASSUME NEW c \in Chapters, PutBack(c) PROVE TypeOK'
  BY <1>14 DEF PutBack, CanPutBack, Restores
<1>15. ASSUME NEW c \in Chapters, Unmark(c) PROVE TypeOK'
  BY <1>15 DEF Unmark, Clears
<1>16. ASSUME NEW c \in Chapters, ReapBak(c) PROVE TypeOK'
  BY <1>16 DEF ReapBak, Settled, Restores
<1>17. ASSUME NEW c \in Chapters, NEW n \in Copies, ReapTmp(c, n) PROVE TypeOK'
  BY <1>17 DEF ReapTmp
<1>18. ASSUME StartJob PROVE TypeOK'
  BY <1>18 DEF StartJob, Given
<1>19. ASSUME Stop PROVE TypeOK'
  BY <1>19 DEF Stop
<1>20. ASSUME Scan PROVE TypeOK'
  BY <1>20 DEF Scan, List
<1>21. ASSUME JobScan PROVE TypeOK'
  BY <1>21 DEF JobScan, List, Given
<1>22. ASSUME Record PROVE TypeOK'
  <2>1. row' \in [Chapters -> {"live", "pruned"}]
    BY <1>22 DEF Record, Clears
  <2>2. at' \in [Chapters -> At] /\ job' \in {"none", "route", "running", "ending", "scanning"}
    BY <1>22 DEF Record
  <2>3. was' \in [Chapters -> 0 .. MaxCopies]
    BY <1>22 DEF Record, Forgets
  <2>4. listed' = {} /\ scanning' = FALSE /\ UNCHANGED <<disk, copies, gone, reap, crashes, died, stuck>>
    BY <1>22 DEF Record
  <2> QED
    BY <2>1, <2>2, <2>3, <2>4
<1>23. ASSUME Crash PROVE TypeOK'
  <2>1. crashes' \in 0 .. MaxCrashes /\ at' \in [Chapters -> At] /\ was' \in [Chapters -> 0 .. MaxCopies]
    BY <1>23 DEF Crash, Forgets
  <2>2. /\ job' = "none" /\ listed' = {} /\ scanning' = FALSE /\ reaper' = "start"
        /\ names' = {} /\ baks' = {} /\ tmps' = {} /\ restored' = {} /\ gone' = {} /\ died' = FALSE /\ stuck' = {}
        /\ UNCHANGED <<disk, row, copies>>
    BY <1>23 DEF Crash
  <2> QED
    BY <2>1, <2>2
<1>24. ASSUME ReadFolder PROVE TypeOK'
  BY <1>24 DEF ReadFolder
<1>25. ASSUME Unprune PROVE TypeOK'
  BY <1>25 DEF Unprune, Clears
<1> QED
  BY <1>1, <1>2, <1>3, <1>4, <1>5, <1>6, <1>7, <1>8, <1>9, <1>10, <1>11, <1>12, <1>13, <1>14,
     <1>15, <1>16, <1>17, <1>18, <1>19, <1>20, <1>21, <1>22, <1>23, <1>24, <1>25 DEF Next

\* No step loses a copy.
LEMMA CopyStep ==
    ASSUME TypeOK, NoCopyLost, LandedIsThere, Next
    PROVE  NoCopyLost' /\ LandedIsThere'
PROOF
<1> USE BoundsAssumption DEF TypeOK, NoCopyLost, LandedIsThere, Copies, Idle, disk, scanner, reap, past, Goes
<1>1. ASSUME NEW todo \in SUBSET Chapters, NEW read \in SUBSET Chapters, Refetch(todo, read) PROVE NoCopyLost' /\ LandedIsThere'
  BY <1>1 DEF Refetch
<1>2. ASSUME NEW c \in Chapters, SetAside(c) PROVE NoCopyLost' /\ LandedIsThere'
  BY <1>2 DEF SetAside
<1>3. ASSUME NEW c \in Chapters, Mark(c) PROVE NoCopyLost' /\ LandedIsThere'
  BY <1>3 DEF Mark
<1>4. ASSUME NEW c \in Chapters, MarkFails(c) PROVE NoCopyLost' /\ LandedIsThere'
  BY <1>4 DEF MarkFails, Forgets
<1>5. ASSUME NEW c \in Chapters, Begin(c) PROVE NoCopyLost' /\ LandedIsThere'
  BY <1>5 DEF Begin
<1>6. ASSUME NEW c \in Chapters, Ask(c) PROVE NoCopyLost' /\ LandedIsThere'
  BY <1>6 DEF Ask
<1>7. ASSUME NEW c \in Chapters, NotFetched(c) PROVE NoCopyLost' /\ LandedIsThere'
  BY <1>7 DEF NotFetched
<1>8. ASSUME NEW c \in Chapters, Write(c) PROVE NoCopyLost' /\ LandedIsThere'
  BY <1>8 DEF Write
<1>9. ASSUME NEW c \in Chapters, Land(c) PROVE NoCopyLost' /\ LandedIsThere'
  BY <1>9 DEF Land
<1>10. ASSUME NEW c \in Chapters, WriteFails(c) PROVE NoCopyLost' /\ LandedIsThere'
  BY <1>10 DEF WriteFails
<1>11. ASSUME NEW c \in Chapters, Throw(c) PROVE NoCopyLost' /\ LandedIsThere'
  BY <1>11 DEF Throw, Forgets
<1>12. ASSUME NEW c \in Chapters, NeverReached(c) PROVE NoCopyLost' /\ LandedIsThere'
  BY <1>12 DEF NeverReached
<1>13. ASSUME NEW c \in Chapters, Drop(c) PROVE NoCopyLost' /\ LandedIsThere'
  BY <1>13 DEF Drop, HasLanded
<1>14. ASSUME NEW c \in Chapters, PutBack(c) PROVE NoCopyLost' /\ LandedIsThere'
  BY <1>14 DEF PutBack, CanPutBack, Restores
<1>15. ASSUME NEW c \in Chapters, Unmark(c) PROVE NoCopyLost' /\ LandedIsThere'
  BY <1>15 DEF Unmark, Clears
<1>16. ASSUME NEW c \in Chapters, ReapBak(c) PROVE NoCopyLost' /\ LandedIsThere'
  BY <1>16 DEF ReapBak, Settled, Restores
<1>17. ASSUME NEW c \in Chapters, NEW n \in Copies, ReapTmp(c, n) PROVE NoCopyLost' /\ LandedIsThere'
  BY <1>17 DEF ReapTmp
<1>18. ASSUME StartJob PROVE NoCopyLost' /\ LandedIsThere'
  BY <1>18 DEF StartJob, Given
<1>19. ASSUME Stop PROVE NoCopyLost' /\ LandedIsThere'
  BY <1>19 DEF Stop
<1>20. ASSUME Scan PROVE NoCopyLost' /\ LandedIsThere'
  BY <1>20 DEF Scan, List
<1>21. ASSUME JobScan PROVE NoCopyLost' /\ LandedIsThere'
  BY <1>21 DEF JobScan, List, Given
<1>22. ASSUME Record PROVE NoCopyLost' /\ LandedIsThere'
  BY <1>22 DEF Record, Clears, Forgets
<1>23. ASSUME Crash PROVE NoCopyLost' /\ LandedIsThere'
  BY <1>23 DEF Crash, Forgets
<1>24. ASSUME ReadFolder PROVE NoCopyLost' /\ LandedIsThere'
  BY <1>24 DEF ReadFolder
<1>25. ASSUME Unprune PROVE NoCopyLost' /\ LandedIsThere'
  BY <1>25 DEF Unprune, Clears
<1> QED
  BY <1>1, <1>2, <1>3, <1>4, <1>5, <1>6, <1>7, <1>8, <1>9, <1>10, <1>11, <1>12, <1>13, <1>14,
     <1>15, <1>16, <1>17, <1>18, <1>19, <1>20, <1>21, <1>22, <1>23, <1>24, <1>25 DEF Next

\* No step leaves a chapter away without a cause.
LEMMA CauseStep ==
    ASSUME TypeOK, NoCopyLost, NothingGiven, LandedIsThere, AwayForCause, Next
    PROVE  NothingGiven' /\ AwayForCause'
PROOF
<1> USE BoundsAssumption DEF TypeOK, NoCopyLost, NothingGiven, LandedIsThere, AwayForCause, ToBeReaped, Fetching, Copies, disk, scanner, reap, past, Goes
<1>1. ASSUME NEW todo \in SUBSET Chapters, NEW read \in SUBSET Chapters, Refetch(todo, read) PROVE NothingGiven' /\ AwayForCause'
  BY <1>1 DEF Refetch
<1>2. ASSUME NEW c \in Chapters, SetAside(c) PROVE NothingGiven' /\ AwayForCause'
  BY <1>2 DEF SetAside
<1>3. ASSUME NEW c \in Chapters, Mark(c) PROVE NothingGiven' /\ AwayForCause'
  BY <1>3 DEF Mark
<1>4. ASSUME NEW c \in Chapters, MarkFails(c) PROVE NothingGiven' /\ AwayForCause'
  BY <1>4 DEF MarkFails, Forgets
<1>5. ASSUME NEW c \in Chapters, Begin(c) PROVE NothingGiven' /\ AwayForCause'
  BY <1>5 DEF Begin
<1>6. ASSUME NEW c \in Chapters, Ask(c) PROVE NothingGiven' /\ AwayForCause'
  BY <1>6 DEF Ask
<1>7. ASSUME NEW c \in Chapters, NotFetched(c) PROVE NothingGiven' /\ AwayForCause'
  BY <1>7 DEF NotFetched
<1>8. ASSUME NEW c \in Chapters, Write(c) PROVE NothingGiven' /\ AwayForCause'
  BY <1>8 DEF Write
<1>9. ASSUME NEW c \in Chapters, Land(c) PROVE NothingGiven' /\ AwayForCause'
  BY <1>9 DEF Land
<1>10. ASSUME NEW c \in Chapters, WriteFails(c) PROVE NothingGiven' /\ AwayForCause'
  BY <1>10 DEF WriteFails
<1>11. ASSUME NEW c \in Chapters, Throw(c) PROVE NothingGiven' /\ AwayForCause'
  BY <1>11 DEF Throw, Forgets
<1>12. ASSUME NEW c \in Chapters, NeverReached(c) PROVE NothingGiven' /\ AwayForCause'
  BY <1>12 DEF NeverReached
<1>13. ASSUME NEW c \in Chapters, Drop(c) PROVE NothingGiven' /\ AwayForCause'
  BY <1>13 DEF Drop, HasLanded
<1>14. ASSUME NEW c \in Chapters, PutBack(c) PROVE NothingGiven' /\ AwayForCause'
  BY <1>14 DEF PutBack, CanPutBack, Restores
<1>15. ASSUME NEW c \in Chapters, Unmark(c) PROVE NothingGiven' /\ AwayForCause'
  BY <1>15 DEF Unmark, Clears
<1>16. ASSUME NEW c \in Chapters, ReapBak(c) PROVE NothingGiven' /\ AwayForCause'
  BY <1>16 DEF ReapBak, Settled, Restores
<1>17. ASSUME NEW c \in Chapters, NEW n \in Copies, ReapTmp(c, n) PROVE NothingGiven' /\ AwayForCause'
  BY <1>17 DEF ReapTmp
<1>18. ASSUME StartJob PROVE NothingGiven' /\ AwayForCause'
  BY <1>18 DEF StartJob, Given
<1>19. ASSUME Stop PROVE NothingGiven' /\ AwayForCause'
  BY <1>19 DEF Stop
<1>20. ASSUME Scan PROVE NothingGiven' /\ AwayForCause'
  BY <1>20 DEF Scan, List
<1>21. ASSUME JobScan PROVE NothingGiven' /\ AwayForCause'
  BY <1>21 DEF JobScan, List, Given
<1>22. ASSUME Record PROVE NothingGiven' /\ AwayForCause'
  <2>1. UNCHANGED <<disk, reap, died, stuck>>
    BY <1>22 DEF Record
  <2>2. CASE job = "scanning" /\ at' = [c \in Chapters |-> "out"]
    BY <2>1, <2>2
  <2>3. CASE UNCHANGED <<job, at>>
    BY <2>1, <2>3
  <2> QED
    BY <1>22, <2>2, <2>3 DEF Record
<1>23. ASSUME Crash PROVE NothingGiven' /\ AwayForCause'
  BY <1>23 DEF Crash, Forgets
<1>24. ASSUME ReadFolder PROVE NothingGiven' /\ AwayForCause'
  BY <1>24 DEF ReadFolder
<1>25. ASSUME Unprune PROVE NothingGiven' /\ AwayForCause'
  BY <1>25 DEF Unprune, Clears
<1> QED
  BY <1>1, <1>2, <1>3, <1>4, <1>5, <1>6, <1>7, <1>8, <1>9, <1>10, <1>11, <1>12, <1>13, <1>14,
     <1>15, <1>16, <1>17, <1>18, <1>19, <1>20, <1>21, <1>22, <1>23, <1>24, <1>25 DEF Next

\* No step forgets the copy that was there.
LEMMA OldStep ==
    ASSUME TypeOK, NoCopyLost, OldIsKnown, Next
    PROVE  OldIsKnown'
PROOF
<1> USE BoundsAssumption DEF TypeOK, NoCopyLost, OldIsKnown, Fetching, Copies, disk, scanner, reap, past, Goes
<1>1. ASSUME NEW todo \in SUBSET Chapters, NEW read \in SUBSET Chapters, Refetch(todo, read) PROVE OldIsKnown'
  BY <1>1 DEF Refetch
<1>2. ASSUME NEW c \in Chapters, SetAside(c) PROVE OldIsKnown'
  BY <1>2 DEF SetAside
<1>3. ASSUME NEW c \in Chapters, Mark(c) PROVE OldIsKnown'
  BY <1>3 DEF Mark
<1>4. ASSUME NEW c \in Chapters, MarkFails(c) PROVE OldIsKnown'
  BY <1>4 DEF MarkFails, Forgets
<1>5. ASSUME NEW c \in Chapters, Begin(c) PROVE OldIsKnown'
  BY <1>5 DEF Begin
<1>6. ASSUME NEW c \in Chapters, Ask(c) PROVE OldIsKnown'
  BY <1>6 DEF Ask
<1>7. ASSUME NEW c \in Chapters, NotFetched(c) PROVE OldIsKnown'
  BY <1>7 DEF NotFetched
<1>8. ASSUME NEW c \in Chapters, Write(c) PROVE OldIsKnown'
  BY <1>8 DEF Write
<1>9. ASSUME NEW c \in Chapters, Land(c) PROVE OldIsKnown'
  BY <1>9 DEF Land
<1>10. ASSUME NEW c \in Chapters, WriteFails(c) PROVE OldIsKnown'
  BY <1>10 DEF WriteFails
<1>11. ASSUME NEW c \in Chapters, Throw(c) PROVE OldIsKnown'
  BY <1>11 DEF Throw, Forgets
<1>12. ASSUME NEW c \in Chapters, NeverReached(c) PROVE OldIsKnown'
  BY <1>12 DEF NeverReached
<1>13. ASSUME NEW c \in Chapters, Drop(c) PROVE OldIsKnown'
  BY <1>13 DEF Drop, HasLanded
<1>14. ASSUME NEW c \in Chapters, PutBack(c) PROVE OldIsKnown'
  BY <1>14 DEF PutBack, CanPutBack, Restores
<1>15. ASSUME NEW c \in Chapters, Unmark(c) PROVE OldIsKnown'
  BY <1>15 DEF Unmark, Clears
<1>16. ASSUME NEW c \in Chapters, ReapBak(c) PROVE OldIsKnown'
  BY <1>16 DEF ReapBak, Settled, Restores
<1>17. ASSUME NEW c \in Chapters, NEW n \in Copies, ReapTmp(c, n) PROVE OldIsKnown'
  BY <1>17 DEF ReapTmp
<1>18. ASSUME StartJob PROVE OldIsKnown'
  BY <1>18 DEF StartJob, Given
<1>19. ASSUME Stop PROVE OldIsKnown'
  BY <1>19 DEF Stop
<1>20. ASSUME Scan PROVE OldIsKnown'
  BY <1>20 DEF Scan, List
<1>21. ASSUME JobScan PROVE OldIsKnown'
  BY <1>21 DEF JobScan, List, Given
<1>22. ASSUME Record PROVE OldIsKnown'
  <2>1. UNCHANGED <<disk, reap, stuck>>
    BY <1>22 DEF Record
  <2>2. CASE at' = [c \in Chapters |-> "out"]
    BY <2>1, <2>2
  <2>3. CASE UNCHANGED <<at, was>>
    BY <2>1, <2>3
  <2> QED
    BY <1>22, <2>2, <2>3 DEF Record
<1>23. ASSUME Crash PROVE OldIsKnown'
  BY <1>23 DEF Crash, Forgets
<1>24. ASSUME ReadFolder PROVE OldIsKnown'
  BY <1>24 DEF ReadFolder
<1>25. ASSUME Unprune PROVE OldIsKnown'
  BY <1>25 DEF Unprune, Clears
<1> QED
  BY <1>1, <1>2, <1>3, <1>4, <1>5, <1>6, <1>7, <1>8, <1>9, <1>10, <1>11, <1>12, <1>13, <1>14,
     <1>15, <1>16, <1>17, <1>18, <1>19, <1>20, <1>21, <1>22, <1>23, <1>24, <1>25 DEF Next

\* Every chapter has its file, and nothing is under way.
LEMMA FirstState == Init => IInv
PROOF
<1> SUFFICES ASSUME Init PROVE IInv
  OBVIOUS
<1> USE BoundsAssumption DEF Init
<1>1. TypeOK
  <2>1. file \in [Chapters -> 0 .. MaxCopies] /\ bak \in [Chapters -> 0 .. MaxCopies]
    OBVIOUS
  <2>2. tmp \in [Chapters -> SUBSET Copies] /\ was \in [Chapters -> 0 .. MaxCopies]
    OBVIOUS
  <2>3. row \in [Chapters -> {"live", "pruned"}] /\ at \in [Chapters -> At]
    BY DEF At
  <2>4. copies \in Copies /\ crashes \in 0 .. MaxCrashes
    BY DEF Copies
  <2> QED
    BY <2>1, <2>2, <2>3, <2>4 DEF TypeOK
<1>2. NoCopyLost /\ NothingGiven /\ LandedIsThere /\ AwayForCause /\ OldIsKnown
  BY DEF NoCopyLost, NothingGiven, LandedIsThere, AwayForCause, OldIsKnown, Fetching
<1> QED
  BY <1>1, <1>2 DEF IInv

\* The invariant behind the three below is one of every behaviour.
THEOREM Invariance == Spec => []IInv
PROOF
<1>1. IInv /\ [Next]_vars => IInv'
  <2> SUFFICES ASSUME IInv, [Next]_vars PROVE IInv'
    OBVIOUS
  <2>1. CASE Next
    <3>1. TypeOK'
      BY <2>1, TypeStep DEF IInv
    <3>2. NoCopyLost' /\ LandedIsThere'
      BY <2>1, CopyStep DEF IInv
    <3>3. NothingGiven' /\ AwayForCause'
      BY <2>1, CauseStep DEF IInv
    <3>4. OldIsKnown'
      BY <2>1, OldStep DEF IInv
    <3> QED
      BY <3>1, <3>2, <3>3, <3>4 DEF IInv
  <2>2. CASE UNCHANGED vars
    BY <2>2 DEF vars, IInv, TypeOK, NoCopyLost, NothingGiven, LandedIsThere, AwayForCause,
       ToBeReaped, OldIsKnown
  <2> QED
    BY <2>1, <2>2
<1> QED
  BY FirstState, <1>1, PTL DEF Spec

\* Some copy of every chapter is on the disk, whatever fails or dies (the hook of the
\* refetch route, reapStaleTemp).
THEOREM NoCopyIsLost == Spec => []NoCopyLost
PROOF
<1>1. IInv => NoCopyLost
  BY DEF IInv
<1> QED
  BY <1>1, Invariance, PTL

\* A download that fails costs nothing: the hook leaves the copy that was there, or one
\* the reaper had put back meanwhile; where a rename failed, that copy is still aside.
THEOREM OldCopyIsKept == Spec => []FailedKeepsOld
PROOF
<1>1. IInv => FailedKeepsOld
  BY DEF IInv, OldIsKnown, FailedKeepsOld
<1> QED
  BY <1>1, Invariance, PTL

\* When the job is over and the reaper through, every chapter is under its own name,
\* unless a job of this life died or a failure kept that chapter from being put back.
THEOREM WholeAtTheEnd == Spec => []WholeAgain
PROOF
<1>1. IInv => WholeAgain
  BY DEF IInv, NothingGiven, AwayForCause, ToBeReaped, Fetching, WholeAgain, Quiet
<1> QED
  BY <1>1, Invariance, PTL
=============================================================================
