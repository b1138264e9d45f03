------------------------------ MODULE Renumber ------------------------------
(***************************************************************************)
(* The renumber of one series and its journal: settleNumbering,            *)
(* applyRenumber, runJournal, firstPhase, secondPhase, commit and          *)
(* resumeRenumber of bff/src/lib/numbering.ts, entered by the visits of    *)
(* bff/src/lib/updater.ts, beside the library scan of library.ts.          *)
(*                                                                         *)
(* A confirmed plan moves every file of the series from the number its row *)
(* says to another, through temporary names, and then the rows.  It is     *)
(* written to the series' row as a journal before the first rename, and a  *)
(* crash leaves it there for the next visit.  Several visits of one series *)
(* may be under way, and any rename or query may fail.                     *)
(*                                                                         *)
(* A confirmation is refused while any run is inside the series            *)
(* (routes/numbering.ts), and enters it two queries later: several may be  *)
(* under way at once.  Others mark the folder too, a repair, a download or *)
(* the archive (Fetch newest, a delete and a rescan do as they do), and    *)
(* visit the series behind their own mark.                                 *)
(*                                                                         *)
(* The disk is what its names hold: <<p, 0>> is "Chapter p.cbz" and        *)
(* <<p, i>> the temporary name journal i gives the file that was there.    *)
(* Plans are renamings of the numbers (Maps); which posts they come from,  *)
(* and the rows a commit moves beside lib_books, are not modelled: what is *)
(* applied to them is applied as often as the journal is committed.  A     *)
(* plan that settles without a confirmation renames nothing, a row without *)
(* a file moves as a row alone: both are left out.                         *)
(***************************************************************************)
EXTENDS Naturals, Sequences, FiniteSets

CONSTANTS
    NBooks,        \* chapters with a row, in the order of the journal's moves
    Places,        \* chapter numbers
    Maps,          \* the renamings a plan may carry out
    Numberings,    \* the numbers the chapters may have at first
    Runs,          \* visits of the series: the sweep, a check, a confirmation
    NoRun,
    MaxJournals, MaxCrashes, MaxFaults   \* bounds of the model

Books == 1 .. NBooks
None == 0                  \* no file
Stray == NBooks + 1        \* a file nobody has a row for
NotScanning == <<>>

ASSUME MapsAssumption ==
    /\ NBooks \in Nat /\ 0 \notin Places
    /\ Maps \subseteq [Places -> Places]
    /\ \A m \in Maps : \A p, q \in Places : m[p] = m[q] => p = q
    /\ Numberings \subseteq [Books -> Places]
ASSUME RunsAssumption == NoRun \notin Runs /\ IsFiniteSet(Runs)
ASSUME BoundsAssumption == MaxJournals \in Nat /\ MaxCrashes \in Nat /\ MaxFaults \in Nat

Ids == 1 .. MaxJournals
Names == Places \X (0 .. MaxJournals)
NoJournal == [id |-> 0]
Journals == [id : Ids, phase : {"rename", "final"}, from : [Books -> Places], to : [Books -> Places]]

VARIABLES
    disk,       \* disk[n]: the chapter in the file of that name, a stray one or none
    number,     \* lib_books: number[b]
    journal,    \* lib_series.renumber_plan
    lastId,     \* the journal ids drawn so far
    run,        \* run[r]: where run r is, and what it holds
    settling,   \* settling.has(series): the run that settles
    held,       \* the run whose function holds the scans
    line,       \* the runs that wait for the scans, in the order they are woken
    marked,     \* busyFolders.has(folder)
    share,      \* the runs that hold a share of the mark: none, and it is somebody else's
    scan,       \* the library scan: what it listed under each name, or NotScanning
    minted,     \* history: a scan gave a chapter of the series a second row
    supplanted, \* history: a plan was made while a journal stood on the row
    stranded,   \* history: a rename back failed
    crashes, faults

stored == <<disk, number, journal>>
locks == <<settling, held, line, marked, share>>
around == <<lastId, scan, minted, supplanted, stranded, crashes>>
vars == <<stored, run, locks, around, faults>>

File(p) == <<p, 0>>
Temp(j, b) == <<j.from[b], j.id>>

\* A run outside the series.  sure: it carries an admin's confirmation.  own: the
\* journal it runs is the one it wrote (`fresh`).  at: the move it is at.  undo: the
\* moves its own first phase made.
Idle == [pc |-> "idle", j |-> NoJournal, sure |-> FALSE, own |-> FALSE, at |-> 0, undo |-> {}]
InJournal == {"wait", "reread", "first", "undo", "second", "through", "end"}
RunType == [pc : {"idle", "asked", "resume", "inside", "built"} \cup InJournal, j : Journals \cup {NoJournal},
            sure : BOOLEAN, own : BOOLEAN, at : 0 .. NBooks + 1, undo : SUBSET Books]

Inside == {r \in Runs : run[r].pc \notin {"idle", "asked"}}
Running == {r \in Runs : run[r].pc \in InJournal}

TypeOK ==
    /\ disk \in [Names -> Books \cup {Stray, None}]
    /\ number \in [Books -> Places]
    /\ journal \in Journals \cup {NoJournal}
    /\ lastId \in 0 .. MaxJournals
    /\ run \in [Runs -> RunType]
    /\ settling \in Runs \cup {NoRun} /\ held \in Runs \cup {NoRun}
    /\ line \in Seq(Runs)
    /\ marked \in BOOLEAN /\ share \subseteq Runs
    /\ scan \in {NotScanning} \cup [Places -> Books \cup {Stray, None}]
    /\ minted \in BOOLEAN /\ supplanted \in BOOLEAN /\ stranded \in BOOLEAN
    /\ crashes \in 0 .. MaxCrashes /\ faults \in 0 .. MaxFaults

\* A library in order, with or without a file nobody has a row for.
Init ==
    /\ number \in {n \in Numberings : \A a, b \in Books : n[a] = n[b] => a = b}
    /\ \E s \in Places \cup {0} :
         /\ \A b \in Books : number[b] # s
         /\ disk = [n \in Names |->
                      IF n = File(s) THEN Stray
                      ELSE IF \E b \in Books : n = File(number[b])
                      THEN CHOOSE b \in Books : n = File(number[b])
                      ELSE None]
    /\ journal = NoJournal /\ lastId = 0
    /\ run = [r \in Runs |-> Idle]
    /\ settling = NoRun /\ held = NoRun /\ line = <<>> /\ marked = FALSE /\ share = {}
    /\ scan = NotScanning /\ minted = FALSE /\ supplanted = FALSE /\ stranded = FALSE
    /\ crashes = 0 /\ faults = 0

Fault == faults < MaxFaults /\ faults' = faults + 1
Rename(n, m) == disk' = [disk EXCEPT ![n] = None, ![m] = disk[n]]
GoTo(r, pc) == run' = [run EXCEPT ![r].pc = pc]

-----------------------------------------------------------------------------
(* The visit *)

\* Somebody who runs no journal has marked the folder.
OthersMark == marked /\ share = {}

\* A visit is refused while somebody owns the folder, unless that is the renumber
\* whose journal it reads.
Joins == journal # NoJournal /\ (Running # {} \/ settling # NoRun)

\* A journal on the row is finished before anything else is read.
EntryPast == "inside"                                                   \* mutant
Entry == IF journal = NoJournal THEN "inside" ELSE "resume"

Enter(r) ==
    /\ run[r].pc \in {"idle", "asked"}
    /\ ~marked \/ Joins
    /\ GoTo(r, Entry)
    /\ UNCHANGED <<stored, locks, around, faults>>

\* Whoever marked the folder visits the series behind that mark.
EnterHeld(r) ==
    /\ run[r].pc = "idle" /\ OthersMark
    /\ GoTo(r, Entry)
    /\ UNCHANGED <<stored, locks, around, faults>>

\* An admin confirms a plan: refused while a run is inside the series.
Confirm(r) ==
    /\ run[r].pc = "idle" /\ ~marked /\ Inside = {}
    /\ run' = [run EXCEPT ![r] = [@ EXCEPT !.pc = "asked", !.sure = TRUE]]
    /\ UNCHANGED <<stored, locks, around, faults>>

\* A confirmation whose visit finds the folder busy is answered `pending`.
Refuse(r) ==
    /\ run[r].pc = "asked" /\ marked /\ ~Joins
    /\ run' = [run EXCEPT ![r] = Idle]
    /\ UNCHANGED <<stored, locks, around, faults>>

\* The share of the folder's mark a run takes as it starts on a journal: none while the
\* mark is somebody else's.
Share(r) == IF OthersMark THEN share ELSE share \cup {r}

Begin(r, j, isOwn) ==
    /\ run' = [run EXCEPT ![r] = [@ EXCEPT !.pc = "wait", !.j = j, !.own = isOwn]]
    /\ line' = Append(line, r)
    /\ share' = Share(r) /\ marked' = TRUE

\* resumeRenumber reads the journal again; finished meanwhile, there is nothing to resume.
ReadJournal(r) ==
    /\ run[r].pc = "resume"
    /\ IF journal = NoJournal
       THEN GoTo(r, "inside") /\ UNCHANGED <<line, share, marked>>
       ELSE Begin(r, journal, FALSE)
    /\ UNCHANGED <<stored, settling, held, around, faults>>

\* The visit goes on to its listing and ends.
Leave(r) ==
    /\ run[r].pc = "inside"
    /\ run' = [run EXCEPT ![r] = Idle]
    /\ UNCHANGED <<stored, locks, around, faults>>

\* The files a journal renames: a chapter that keeps its number keeps its place.
Renamed(j) == {b \in Books : j.from[b] # j.to[b]}

\* A file at a target name that no move of the plan vacates refuses the apply.
TargetsUnchecked(j) == TRUE                                             \* mutant
TargetsFree(j) ==
    \A b \in Renamed(j) : disk[File(j.to[b])] = None \/ \E a \in Renamed(j) : j.from[a] = j.to[b]

\* A renumber waits for another run inside its series.
Alone(r) == Inside = {r}

\* A confirmed change, carried out by the one run inside the series: the plan is built
\* from the rows, is given up if the folder is marked by then, and its targets are checked.
\* A journal that was left on the row since the run entered is not looked for.
Settle(r) ==
    /\ run[r].pc = "inside" /\ run[r].sure
    /\ settling = NoRun /\ Alone(r) /\ ~marked
    /\ lastId < MaxJournals
    /\ \E m \in Maps :
         LET j == [id |-> lastId + 1, phase |-> "rename", from |-> number, to |-> [b \in Books |-> m[number[b]]]] IN
         /\ TargetsFree(j)
         /\ run' = [run EXCEPT ![r] = [@ EXCEPT !.pc = "built", !.j = j]]
    /\ lastId' = lastId + 1
    /\ settling' = r
    /\ supplanted' = (supplanted \/ journal # NoJournal)
    /\ UNCHANGED <<stored, held, line, marked, share, scan, minted, stranded, crashes, faults>>

\* The journal is on the row before the first rename.
WriteJournal(r) ==
    /\ run[r].pc = "built"
    /\ journal' = run[r].j
    /\ Begin(r, run[r].j, TRUE)
    /\ UNCHANGED <<disk, number, settling, held, around, faults>>

-----------------------------------------------------------------------------
(* runJournal *)

\* Whoever came first holds the scans first (ScanHold): a resume never overtakes the
\* confirmed run whose journal it read, and that run does not read it again.
Woken(r) == line # <<>> /\ r = Head(line)

\* With the scans held a confirmed run starts renaming; a resume reads the journal again.
HoldScans(r) ==
    /\ run[r].pc = "wait" /\ Woken(r)
    /\ held = NoRun /\ scan = NotScanning
    /\ held' = r
    /\ line' = Tail(line)
    /\ run' = [run EXCEPT ![r] = [@ EXCEPT !.pc = IF run[r].own THEN "first" ELSE "reread", !.at = 1]]
    /\ UNCHANGED <<stored, settling, marked, share, around, faults>>

\* The journal a resume runs: the one on the row now, not the one it read before it waited.
CurrentThen(r) == run[r].j                                              \* mutant
Current(r) == journal

Reread(r) ==
    /\ run[r].pc = "reread"
    /\ run' = IF Current(r) = NoJournal \/ Current(r).id # run[r].j.id
              THEN [run EXCEPT ![r].pc = "through"]
              ELSE [run EXCEPT ![r] = [@ EXCEPT !.j = Current(r),
                                                !.pc = IF Current(r).phase = "rename" THEN "first" ELSE "second"]]
    /\ UNCHANGED <<stored, locks, around, faults>>

\* A move is made when the file is at its old name and nothing at the temporary one.
Goes(j, b) == b \in Renamed(j) /\ disk[Temp(j, b)] = None /\ disk[File(j.from[b])] # None

\* One move of the first phase.  A rename that is refused puts back what was moved.
FirstMove(r) ==
    /\ run[r].pc = "first" /\ run[r].at <= NBooks
    /\ LET b == run[r].at
           j == run[r].j IN
       \/ /\ Goes(j, b)
          /\ Rename(File(j.from[b]), Temp(j, b))
          /\ run' = [run EXCEPT ![r] = [@ EXCEPT !.at = b + 1, !.undo = run[r].undo \cup {b}]]
          /\ UNCHANGED faults
       \/ /\ ~Goes(j, b)
          /\ run' = [run EXCEPT ![r].at = b + 1]
          /\ UNCHANGED <<disk, faults>>
       \/ Goes(j, b) /\ Fault /\ GoTo(r, "undo") /\ UNCHANGED disk
    /\ UNCHANGED <<number, journal, locks, around>>

\* What this run moved is put back, last first; what cannot be is left where it is.
PutBack(r) ==
    /\ run[r].pc = "undo"
    /\ \E b \in run[r].undo :
          /\ \A a \in run[r].undo : a <= b
          /\ run' = [run EXCEPT ![r].undo = @ \ {b}]
          /\ \/ Rename(Temp(run[r].j, b), File(run[r].j.from[b])) /\ UNCHANGED <<stranded, faults>>
             \/ Fault /\ stranded' = TRUE /\ UNCHANGED disk
    /\ UNCHANGED <<number, journal, locks, lastId, scan, minted, supplanted, crashes>>

\* A confirmed run that was refused takes its journal off the row; a resume leaves it.
ClearsAlways(r) == TRUE                                                 \* mutant
Clears(r) == run[r].own

GiveUp(r) ==
    /\ run[r].pc = "undo" /\ run[r].undo = {}
    /\ \/ Clears(r) /\ journal' = NoJournal /\ UNCHANGED faults
       \/ Clears(r) /\ Fault /\ UNCHANGED journal
       \/ ~Clears(r) /\ UNCHANGED <<journal, faults>>
    /\ GoTo(r, "end")
    /\ UNCHANGED <<disk, number, locks, around>>

\* Every file is at its temporary name: the phase the journal has reached is saved.
Saved(j) == [j EXCEPT !.phase = "final"]

SaveFinal(r) ==
    /\ run[r].pc = "first" /\ run[r].at > NBooks
    /\ \/ /\ journal' = Saved(run[r].j)
          /\ run' = [run EXCEPT ![r] = [@ EXCEPT !.pc = "second", !.j = Saved(run[r].j), !.at = 1]]
          /\ UNCHANGED faults
       \/ Fault /\ GoTo(r, "end") /\ UNCHANGED journal
    /\ UNCHANGED <<disk, number, locks, around>>

\* One move of the second phase: to its new name, over whatever is there.
SecondMove(r) ==
    /\ run[r].pc = "second" /\ run[r].at <= NBooks
    /\ LET b == run[r].at
           temp == Temp(run[r].j, b) IN
       \/ /\ disk[temp] # None
          /\ Rename(temp, File(run[r].j.to[b]))
          /\ run' = [run EXCEPT ![r].at = b + 1]
          /\ UNCHANGED faults
       \/ /\ disk[temp] = None
          /\ run' = [run EXCEPT ![r].at = b + 1]
          /\ UNCHANGED <<disk, faults>>
       \/ disk[temp] # None /\ Fault /\ GoTo(r, "end") /\ UNCHANGED disk
    /\ UNCHANGED <<number, journal, locks, around>>

\* The rows change and the journal goes, in one transaction.
Cleared == NoJournal

Commit(r) ==
    /\ run[r].pc = "second" /\ run[r].at > NBooks
    /\ \/ number' = run[r].j.to /\ journal' = Cleared /\ GoTo(r, "through") /\ UNCHANGED faults
       \/ Fault /\ GoTo(r, "end") /\ UNCHANGED <<number, journal>>
    /\ UNCHANGED <<disk, locks, around>>

\* The scans are let go and the share is given back; the last share takes the mark.  A run
\* whose journal was carried through, or gone, goes on with its visit; one that failed ends
\* it.  A confirmation is spent on the journal it wrote.
End(r) ==
    /\ run[r].pc \in {"through", "end"}
    /\ held' = NoRun
    /\ share' = share \ {r}
    /\ marked' = IF r \in share THEN share' # {} ELSE marked
    /\ settling' = IF settling = r THEN NoRun ELSE settling
    /\ run' = [run EXCEPT ![r] = IF run[r].pc = "end" THEN Idle
                                 ELSE [Idle EXCEPT !.pc = "inside", !.sure = run[r].sure /\ ~run[r].own]]
    /\ UNCHANGED <<stored, line, around, faults>>

-----------------------------------------------------------------------------
(* The others: who marks the folder, the scan and the crash *)

\* A writer into the folder marks it while nobody else has, and clears its own mark: in the
\* end, or earlier than the visit it made behind it (repair.ts:1071).
OthersTake ==
    /\ ~marked
    /\ marked' = TRUE
    /\ UNCHANGED <<stored, run, settling, held, line, share, around, faults>>

OthersLetGo ==
    /\ OthersMark
    /\ marked' = FALSE
    /\ UNCHANGED <<stored, run, settling, held, line, share, around, faults>>

\* A scan lists the folder once nothing holds it off ...
ScanLists ==
    /\ scan = NotScanning /\ held = NoRun
    /\ scan' = [p \in Places |-> disk[File(p)]]
    /\ UNCHANGED <<stored, run, locks, lastId, minted, supplanted, stranded, crashes, faults>>

\* ... and indexes what it listed, but not a series whose row carries a journal.
SkipsNever == FALSE                                                     \* mutant
Skips == journal # NoJournal

ScanIndexes ==
    /\ scan # NotScanning
    /\ minted' = (minted \/ (~Skips /\ \E p \in Places : scan[p] \in Books /\ number[scan[p]] # p))
    /\ scan' = NotScanning
    /\ UNCHANGED <<stored, run, locks, lastId, supplanted, stranded, crashes, faults>>

\* The process dies: what it kept in memory is gone.
Crash ==
    /\ crashes < MaxCrashes
    /\ crashes' = crashes + 1
    /\ run' = [r \in Runs |-> Idle]
    /\ settling' = NoRun /\ held' = NoRun /\ line' = <<>> /\ marked' = FALSE /\ share' = {}
    /\ scan' = NotScanning
    /\ UNCHANGED <<stored, lastId, minted, supplanted, stranded, faults>>

Proceed(r) ==
    \/ Refuse(r) \/ ReadJournal(r) \/ Leave(r) \/ WriteJournal(r) \/ HoldScans(r) \/ Reread(r)
    \/ FirstMove(r) \/ PutBack(r) \/ GiveUp(r) \/ SaveFinal(r) \/ SecondMove(r) \/ Commit(r) \/ End(r)

Next ==
    \/ \E r \in Runs : Enter(r) \/ EnterHeld(r) \/ Confirm(r) \/ Settle(r) \/ Proceed(r)
    \/ OthersTake \/ OthersLetGo \/ ScanLists \/ ScanIndexes \/ Crash

Spec == Init /\ [][Next]_vars

\* Runs go on, marks are cleared, scans end, and the series is visited again and again (the
\* sweep).
LiveSpec ==
    /\ Spec
    /\ \A r \in Runs : WF_vars(Proceed(r)) /\ SF_vars(HoldScans(r)) /\ SF_vars(Enter(r))
    /\ WF_vars(OthersLetGo) /\ WF_vars(ScanIndexes)

-----------------------------------------------------------------------------
(* Properties *)

\* No rename ever takes a chapter's file, or a file nobody has a row for, off the disk:
\* whatever crashed, failed or waited, every file is under exactly one name, unless a plan
\* was made while a journal stood on the row.
EveryFileOnce ==
    \/ supplanted
    \/ /\ \A b \in Books : Cardinality({n \in Names : disk[n] = b}) = 1
       /\ \A n \in Names : disk[n] = Stray => n \in {File(p) : p \in Places}

\* A file nobody has a row for is never written over.
StrayKept == [][\A p \in Places : disk[File(p)] = Stray => disk'[File(p)] = Stray]_vars

\* Outside a renumber the files are where the rows say: a refusal half-way is put back
\* as it was (numbering.ts:565), and a resume follows from the journal (numbering.ts:781).
FilesWhereRowsSay == journal = NoJournal => \A b \in Books : disk[File(number[b])] = b

\* A scan never gives a chapter of the series a second row (library.ts:901), unless a plan
\* was made while a journal stood on the row.
NoSecondRow == supplanted \/ ~minted

\* What breaks a renumber takes failures, and as many: confirmations, visits and crashes
\* alone, however many, never make a plan from the rows while a journal is to change them
\* (numbering.ts:778), and a file is left at a temporary name only when a rename and then
\* the one that puts it back both failed (numbering.ts:557).
BrokenByFailures == (supplanted => faults >= 1) /\ (stranded => faults >= 2)

\* A renumber is atomic to everybody who looks between renumbers: the journal that is
\* written is the one carried out or given up, rows change once and with the files, and
\* no other journal takes its place.  It is so until one of the two breaks it.
Named(b) == {p \in Places : disk[File(p)] = b}
Nobody == [b \in Books |-> 0]
Target == IF journal = NoJournal THEN Nobody ELSE journal.to
FileAt == IF journal # NoJournal THEN Nobody
          ELSE [b \in Books |-> IF Named(b) = {} THEN 0 ELSE CHOOSE p \in Named(b) : TRUE]
Abstract == INSTANCE AtomicRenumber WITH target <- Target, file <- FileAt, broken <- supplanted \/ stranded
Atomic == Abstract!Spec

\* A journal a crash or a failure left is finished by a later visit.
JournalFinishes == journal # NoJournal ~> journal = NoJournal
=============================================================================
