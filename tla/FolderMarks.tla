----------------------------- MODULE FolderMarks -----------------------------
(***************************************************************************)
(* Who may write in one series' folder.  Everything that downloads into    *)
(* it, deletes from it or renames its files runs in one process and is     *)
(* kept apart by three marks:                                              *)
(*   - busyFolders (lib/bulkNewest.ts), a set anybody may put the folder   *)
(*     in and take it out of, as often as it was put in;                   *)
(*   - runsInside (lib/updater.ts), how many visits are in the series;     *)
(*   - the download jobs of routes/sources.ts, reserved or running.        *)
(* jobBusy asks for the first and the last, folderBusy (lib/numbering.ts)  *)
(* for the chapters downloading now as well, and only those who must have  *)
(* the series to themselves ask who is inside.                             *)
(*                                                                         *)
(* Code between two awaits is one step: a test and the mark it leads to    *)
(* are one turn, a row that is read is a step of its own.  What a writer   *)
(* does to the files is not modelled, only that it is at it; a renumber's  *)
(* own steps are Renumber's, the scans it holds ScanHold's.                *)
(***************************************************************************)
EXTENDS Naturals, FiniteSets

CONSTANTS
    Checks,       \* visits that ask for the folder: the sweep, Check, a refresh
    Confirmation, \* the one of them that carries an admin's confirmation
    Marking,      \* runs that mark the folder and visit it: Fetch newest, repair, the archive's listing
    Impatient,    \* those of Marking that stop waiting for their visit (repair.ts)
    Jobs,         \* download jobs: Fetch, Fill, Replace
    Owners,       \* deletes, moves, merges, uploads, page clean-ups, Rescan's Apply
    AskJobs,      \* the owners that ask jobBusy; the others ask folderBusy
    Archives,     \* chapters of the slow archive
    Completions,  \* the sweep's completion pass over partial chapters
    Nobody

Visits == Checks \cup Marking

ASSUME ActorsAssumption ==
    /\ Impatient \subseteq Marking /\ AskJobs \subseteq Owners /\ Nobody \notin Visits
    /\ Checks \cap Marking = {} /\ Confirmation \notin Marking

VARIABLES
    visit,      \* visit[v]: where a visit of updateSeries is
    saw,        \* saw[v]: what the row a visit read said of a renumber
    job, owner, archive, completion,    \* where each of them is
    marked,     \* busyFolders.has(folder)
    mine,       \* the marking runs whose mark it is
    share,      \* marks: the runs of the journal that hold a share of the mark
    settling,   \* the visit that carries out a confirmed renumber
    row         \* lib_series: numbering_pending and renumber_plan

vars == <<visit, saw, job, owner, archive, completion, marked, mine, share, settling, row>>

Rows == [pending : BOOLEAN, plan : BOOLEAN]
Clear == [pending |-> FALSE, plan |-> FALSE]

VisitAt == {"out", "entered", "read", "resume", "reread", "wait", "rename", "again",
            "listing", "listed", "building", "built", "loading"}

TypeOK ==
    /\ visit \in [Visits -> VisitAt]
    /\ saw \in [Visits -> Rows]
    /\ job \in [Jobs -> {"none", "asked", "reserved", "waiting", "writing"}]
    /\ owner \in [Owners -> {"none", "owning"}]
    /\ archive \in [Archives -> {"none", "picked", "loading"}]
    /\ completion \in [Completions -> {"none", "patching", "loading"}]
    /\ marked \in BOOLEAN /\ mine \subseteq Marking /\ share \subseteq Visits
    /\ settling \in Visits \cup {Nobody}
    /\ row \in Rows

\* A crash may have left a journal on the row, a detector a renumber to be reviewed.
Init ==
    /\ visit = [v \in Visits |-> "out"]
    /\ saw = [v \in Visits |-> Clear]
    /\ job = [j \in Jobs |-> "none"]
    /\ owner = [o \in Owners |-> "none"]
    /\ archive = [a \in Archives |-> "none"]
    /\ completion = [c \in Completions |-> "none"]
    /\ marked = FALSE /\ mine = {} /\ share = {}
    /\ settling = Nobody
    /\ row \in Rows

-----------------------------------------------------------------------------
(* What the tests see *)

Inside == {v \in Visits : visit[v] # "out"}
Running == {v \in Visits : visit[v] \in {"wait", "rename"}}
RenumberRunning == settling # Nobody \/ Running # {}

JobHolds == \E j \in Jobs : job[j] \in {"reserved", "waiting", "writing"}
jobBusy == JobHolds \/ marked

\* listActivity: chapters being downloaded, by whoever asked for them.
Downloading ==
    \/ \E v \in Visits : visit[v] = "loading"
    \/ \E j \in Jobs : job[j] = "writing"
    \/ \E a \in Archives : archive[a] = "loading"
    \/ \E c \in Completions : completion[c] = "loading"
folderBusy == marked \/ Downloading \/ JobHolds

UnoccupiedAlways == TRUE                                                \* mutant
Unoccupied == Inside = {}

-----------------------------------------------------------------------------
(* A visit *)

Goes(v, pc) == visit' = [visit EXCEPT ![v] = pc]
Reads(v) == saw' = [saw EXCEPT ![v] = row]
others == <<job, owner, archive, completion, mine>>

\* updateSeries counts itself inside before its first await.
Enter(v) ==
    /\ v \in Checks /\ visit[v] = "out"
    /\ Goes(v, "entered")
    /\ UNCHANGED <<saw, others, marked, share, settling, row>>

\* Fetch newest asks jobBusy, repair folderBusy, and marks the folder in the same turn.
MarkAndEnter(v) ==
    /\ v \in Marking \ mine /\ visit[v] = "out"
    /\ ~jobBusy
    /\ marked' = TRUE /\ mine' = mine \cup {v}
    /\ Goes(v, "entered")
    /\ UNCHANGED <<saw, job, owner, archive, completion, share, settling, row>>

\* The mark goes when the run is done with the series: after its visit, or before
\* the visit ends when the run has stopped waiting for it.
GiveBack(v) ==
    /\ v \in mine
    /\ visit[v] = "out" \/ v \in Impatient
    /\ marked' = FALSE /\ mine' = mine \ {v}
    /\ UNCHANGED <<visit, saw, job, owner, archive, completion, share, settling, row>>

ReadRow(v) ==
    /\ visit[v] = "entered"
    /\ Reads(v) /\ Goes(v, "read")
    /\ UNCHANGED <<others, marked, share, settling, row>>

\* A folder somebody holds is left alone, unless the mark is the caller's own or a
\* renumber's that is under way: that one is waited for.
MayStayAnyway(v) == TRUE                                                \* mutant
MayStay(v) == v \in Marking \/ ~folderBusy \/ (saw[v].plan /\ RenumberRunning)

Look(v) ==
    /\ visit[v] = "read"
    /\ Goes(v, IF ~MayStay(v) THEN "out" ELSE IF saw[v].plan THEN "resume" ELSE "listing")
    /\ UNCHANGED <<saw, others, marked, share, settling, row>>

-----------------------------------------------------------------------------
(* A run of a renumber's journal *)

\* A share of the mark, unless somebody who is no run of a journal has the folder.
TakesShareAlways == TRUE                                                \* mutant
TakesShare == share # {} \/ ~marked
MarkFolder(v) ==
    /\ share' = IF TakesShare THEN share \cup {v} ELSE share
    /\ marked' = TRUE

\* The mark goes with the last share.
Unmark(v) ==
    /\ share' = share \ {v}
    /\ marked' = (marked /\ share # {v})

ReadPlan(v) ==
    /\ visit[v] = "resume"
    /\ Reads(v) /\ Goes(v, "reread")
    /\ UNCHANGED <<others, marked, share, settling, row>>

Resume(v) ==
    /\ visit[v] = "reread"
    /\ IF saw[v].plan
       THEN MarkFolder(v) /\ Goes(v, "wait")
       ELSE Goes(v, "again") /\ UNCHANGED <<share, marked>>
    /\ UNCHANGED <<saw, others, settling, row>>

\* One run at a time has the scans, and whoever came first has them first (ScanHold): a
\* resume never overtakes the confirmed run whose journal it read.
Woken(v) ==
    /\ \A u \in Visits : visit[u] # "rename"
    /\ \A u \in Visits \ {v} : settling = u => visit[u] # "wait"

\* The confirmed run goes on with its own journal; a resume reads it again.
HoldScans(v) ==
    /\ visit[v] = "wait" /\ Woken(v)
    /\ IF settling = v \/ row.plan
       THEN Goes(v, "rename") /\ UNCHANGED <<share, marked>>
       ELSE Unmark(v) /\ Goes(v, "again")
    /\ UNCHANGED <<saw, others, settling, row>>

\* The files are renamed and the rows moved.
Commit(v) ==
    /\ visit[v] = "rename"
    /\ row' = Clear
    /\ Unmark(v)
    /\ settling' = IF settling = v THEN Nobody ELSE settling
    /\ saw' = IF settling = v THEN [saw EXCEPT ![v] = Clear] ELSE saw
    /\ Goes(v, IF settling = v THEN "listed" ELSE "again")
    /\ UNCHANGED others

\* A rename or a query fails: the journal stays, but for the confirmed run that could
\* put its files back.  The visit ends.
Fail(v) ==
    /\ visit[v] = "rename"
    /\ row' \in IF settling = v THEN {row, [row EXCEPT !.plan = FALSE]} ELSE {row}
    /\ Unmark(v)
    /\ settling' = IF settling = v THEN Nobody ELSE settling
    /\ Goes(v, "out")
    /\ UNCHANGED <<saw, others>>

ReadAgain(v) ==
    /\ visit[v] = "again"
    /\ Reads(v) /\ Goes(v, "listing")
    /\ UNCHANGED <<others, marked, share, settling, row>>

-----------------------------------------------------------------------------
(* The listing, and what follows from it *)

\* The source answers, and the detector proposes a renumber or takes its proposal back.
Listed(v) ==
    /\ visit[v] = "listing"
    /\ \/ UNCHANGED <<row, saw>>
       \/ /\ saw' = [saw EXCEPT ![v].pending = ~@]
          /\ row' = [row EXCEPT !.pending = ~saw[v].pending]
    /\ Goes(v, "listed")
    /\ UNCHANGED <<others, marked, share, settling>>

\* An admin asks for a renumber or keeps the source's numbers, whoever is inside.
Choose ==
    /\ row' \in {[row EXCEPT !.pending = p] : p \in BOOLEAN}
    /\ UNCHANGED <<visit, saw, others, marked, share, settling>>

\* A renumber waits for another visit inside the series.
Alone(v) == Inside = {v}

Settle(v) ==
    /\ visit[v] = "listed" /\ saw[v].pending
    /\ settling = Nobody /\ Alone(v)
    /\ settling' = v
    /\ Goes(v, "building")
    /\ UNCHANGED <<saw, others, marked, share, row>>

\* The plan is built; it says `busy` while anything is in the folder, and without a
\* confirmation it is reviewed (or renames nothing, which is left out).
Plan(v) ==
    /\ visit[v] = "building"
    /\ \/ v = Confirmation /\ ~folderBusy /\ Goes(v, "built") /\ UNCHANGED settling
       \/ settling' = Nobody /\ Goes(v, "out")
    /\ UNCHANGED <<saw, others, marked, share, row>>

\* The targets are checked and the journal written, or the targets refuse it.
WriteJournal(v) ==
    /\ visit[v] = "built"
    /\ \/ row' = [row EXCEPT !.plan = TRUE] /\ MarkFolder(v) /\ Goes(v, "wait") /\ UNCHANGED settling
       \/ settling' = Nobody /\ Goes(v, "out") /\ UNCHANGED <<row, marked, share>>
    /\ UNCHANGED <<saw, others>>

\* A series that is held downloads nothing; any other is fetched chapter by chapter.
Load(v) ==
    /\ visit[v] = "listed" /\ ~saw[v].pending
    /\ Goes(v, "loading")
    /\ UNCHANGED <<saw, others, marked, share, settling, row>>

Loaded(v) ==
    /\ visit[v] = "loading"
    /\ Goes(v, "listed")
    /\ UNCHANGED <<saw, others, marked, share, settling, row>>

Leave(v) ==
    /\ visit[v] = "listed"
    /\ Goes(v, "out")
    /\ UNCHANGED <<saw, others, marked, share, settling, row>>

-----------------------------------------------------------------------------
(* A download job *)

visiting == <<visit, share, settling, row>>

\* A route reads the series' row and refuses one that is held.
Ask(j) ==
    /\ job[j] = "none" /\ ~row.pending /\ ~row.plan
    /\ job' = [job EXCEPT ![j] = "asked"]
    /\ UNCHANGED <<visiting, saw, owner, archive, completion, marked, mine>>

\* claimDownloadJob: no other job, no mark, nobody inside.
Reserve(j) ==
    /\ job[j] = "asked"
    /\ job' = [job EXCEPT ![j] = IF ~jobBusy /\ Unoccupied THEN "reserved" ELSE "none"]
    /\ UNCHANGED <<visiting, saw, owner, archive, completion, marked, mine>>

\* startDownloadJob without a reservation waits behind a mark.
Queue(j) ==
    /\ job[j] = "none" /\ ~JobHolds /\ Unoccupied
    /\ job' = [job EXCEPT ![j] = "waiting"]
    /\ UNCHANGED <<visiting, saw, owner, archive, completion, marked, mine>>

\* The route writes its audit entry, and starts the job or fails.
Start(j) ==
    /\ job[j] = "reserved"
    /\ job' \in {[job EXCEPT ![j] = "waiting"], [job EXCEPT ![j] = "none"]}
    /\ UNCHANGED <<visiting, saw, owner, archive, completion, marked, mine>>

\* A job waits while somebody holds the folder.
WaitsForAnyone == folderBusy                                            \* mutant
Waits == marked

Turn(j) ==
    /\ job[j] = "waiting" /\ ~Waits
    /\ job' = [job EXCEPT ![j] = "writing"]
    /\ UNCHANGED <<visiting, saw, owner, archive, completion, marked, mine>>

\* It ends, cancelled perhaps before its turn.
JobOver(j) ==
    /\ job[j] \in {"waiting", "writing"}
    /\ job' = [job EXCEPT ![j] = "none"]
    /\ UNCHANGED <<visiting, saw, owner, archive, completion, marked, mine>>

-----------------------------------------------------------------------------
(* The others *)

\* claimWriterFolders and holdSeries: the test and the mark are one turn.
Busy(o) == IF o \in AskJobs THEN jobBusy ELSE folderBusy
Claim(o) ==
    /\ owner[o] = "none" /\ ~Busy(o) /\ Unoccupied
    /\ owner' = [owner EXCEPT ![o] = "owning"]
    /\ marked' = TRUE
    /\ UNCHANGED <<visiting, saw, job, archive, completion, mine>>

Release(o) ==
    /\ owner[o] = "owning"
    /\ owner' = [owner EXCEPT ![o] = "none"]
    /\ marked' = FALSE
    /\ UNCHANGED <<visiting, saw, job, archive, completion, mine>>

\* The archive's look takes its rows once, and starts their chapters one after another.
Pick(a) ==
    /\ archive[a] = "none" /\ ~row.pending /\ ~row.plan
    /\ archive' = [archive EXCEPT ![a] = "picked"]
    /\ UNCHANGED <<visiting, saw, job, owner, completion, marked, mine>>

BeginChapter(a) ==
    /\ archive[a] = "picked"
    /\ archive' = [archive EXCEPT ![a] = IF jobBusy THEN "none" ELSE "loading"]
    /\ marked' = (marked \/ ~jobBusy)
    /\ UNCHANGED <<visiting, saw, job, owner, completion, mine>>

EndChapter(a) ==
    /\ archive[a] = "loading"
    /\ archive' = [archive EXCEPT ![a] = "none"]
    /\ marked' = FALSE
    /\ UNCHANGED <<visiting, saw, job, owner, completion, mine>>

\* The completion pass asks nobody: it fills the holes of a file where it lies, or has
\* the chapter downloaded again.
Complete(c) ==
    /\ completion[c] = "none"
    /\ completion' = [completion EXCEPT ![c] = "patching"]
    /\ UNCHANGED <<visiting, saw, job, owner, archive, marked, mine>>

Refetch(c) ==
    /\ completion[c] = "patching"
    /\ completion' = [completion EXCEPT ![c] = "loading"]
    /\ UNCHANGED <<visiting, saw, job, owner, archive, marked, mine>>

Completed(c) ==
    /\ completion[c] # "none"
    /\ completion' = [completion EXCEPT ![c] = "none"]
    /\ UNCHANGED <<visiting, saw, job, owner, archive, marked, mine>>

-----------------------------------------------------------------------------
VisitStep(v) ==
    \/ Enter(v) \/ MarkAndEnter(v) \/ ReadRow(v) \/ Look(v) \/ ReadPlan(v) \/ Resume(v)
    \/ HoldScans(v) \/ Commit(v) \/ Fail(v) \/ ReadAgain(v) \/ Listed(v) \/ Settle(v)
    \/ Plan(v) \/ WriteJournal(v) \/ Load(v) \/ Loaded(v) \/ Leave(v)
JobStep(j) == Ask(j) \/ Reserve(j) \/ Queue(j) \/ Start(j) \/ Turn(j) \/ JobOver(j)

Next ==
    \/ \E v \in Visits : VisitStep(v)
    \/ Choose
    \/ \E v \in Marking : GiveBack(v)
    \/ \E j \in Jobs : JobStep(j)
    \/ \E o \in Owners : Claim(o) \/ Release(o)
    \/ \E a \in Archives : Pick(a) \/ BeginChapter(a) \/ EndChapter(a)
    \/ \E c \in Completions : Complete(c) \/ Refetch(c) \/ Completed(c)

Spec == Init /\ [][Next]_vars

\* Every holder gives its mark back in a `finally`, whatever became of its work, and a
\* waiting job looks again every half second.
LiveSpec ==
    /\ Spec
    /\ \A v \in Marking : WF_vars(GiveBack(v))
    /\ \A o \in Owners : WF_vars(Release(o))
    /\ \A a \in Archives : WF_vars(EndChapter(a))
    /\ \A j \in Jobs : WF_vars(Turn(j))

-----------------------------------------------------------------------------
(* Properties *)

Owned == \E o \in Owners : owner[o] = "owning"

\* A writer that must have the series to itself has it: no other such writer, no visit
\* past its look at the folder, no run that marks it, no job that writes or is about to,
\* no chapter of the archive (claimWriterFolders, updateSeries, reserveDownloadJob).
OwnerAlone ==
    \A o \in Owners : owner[o] = "owning" =>
        /\ \A p \in Owners : owner[p] = "owning" => p = o
        /\ \A v \in Visits : visit[v] \in {"out", "entered", "read"}
        /\ mine = {}
        /\ \A j \in Jobs : job[j] \notin {"reserved", "writing"}
        /\ \A a \in Archives : archive[a] # "loading"

\* busyFolders forgets how often it was marked: still the folder is marked exactly while
\* somebody holds the mark, and nobody takes another's away (markFolder, GiveBack).
MarkKept ==
    marked <=> Owned \/ mine # {} \/ share # {} \/ \E a \in Archives : archive[a] = "loading"

\* While one run renames the files of the series nobody else does, nobody owns the folder,
\* and no job is at it or waits for it (updateSeries, runJournal, reserveDownloadJob).
RenamesAlone ==
    \A v \in Visits : visit[v] = "rename" =>
        /\ \A u \in Visits : visit[u] = "rename" => u = v
        /\ ~Owned /\ ~JobHolds

\* A job that found the folder marked gets its turn, or is cancelled: nobody takes the
\* folder again before it (startDownloadJob, FOLDER_WAIT_MS).
JobGetsItsTurn == \A j \in Jobs : job[j] = "waiting" ~> job[j] # "waiting"

\* Every writer honours the mark (updater.ts, runUpdateAll): nobody who downloads into
\* the folder is at it while somebody owns it.
NobodyWritesBeside == Owned => ~Downloading /\ \A c \in Completions : completion[c] = "none"

\* No run of a journal renames with nothing marked (numbering.ts, runJournal).
RenamesUnderMark == \A v \in Visits : visit[v] = "rename" => marked
=============================================================================
