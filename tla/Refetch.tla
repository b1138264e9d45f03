------------------------------- MODULE Refetch -------------------------------
(***************************************************************************)
(* Fetch again: chosen chapters of one series are downloaded once more,    *)
(* onto the rows and the files they have.  The admin's route               *)
(* (routes/admin.ts) renames each old copy to `.refetch-bak` and marks its *)
(* row as gone, a download job (routes/sources.ts startDownloadJob) brings *)
(* the chapters one after another, and a hook the job calls for each of    *)
(* them drops the old copy or puts it back.  The process may die anywhere; *)
(* at the next boot reapStaleTemp (lib/fsAtomic.ts) walks the folder while *)
(* the server is already up, removes half-writes and puts back what was    *)
(* left aside.  A scan may list the folder at any time.                    *)
(*                                                                         *)
(* One step is what happens between two awaits, or one operation on the    *)
(* disk or the database.  How the job gets a chapter (lanes, other         *)
(* sources, chapterFallback.ts) is only its outcome here.                  *)
(***************************************************************************)
EXTENDS Naturals, FiniteSets

CONSTANTS
    Chapters,
    MaxCopies,      \* bounds the copies ever written, and so the downloads
    MaxCrashes,     \* bounds the restarts
    Faults          \* whether renames and queries may fail

ASSUME BoundsAssumption ==
    /\ MaxCopies \in Nat \ {0} /\ MaxCrashes \in Nat
    /\ Faults \in BOOLEAN

VARIABLES
    file,       \* file[c]: the copy under the chapter's own name, 0 = none
    bak,        \* bak[c]: the copy under `.refetch-bak`, 0 = none
    tmp,        \* tmp[c]: half-writes, each under a name of its own
    row,        \* row[c]: "live", or "pruned": lib_books.pruned_at is set
    copies,     \* how many copies there have been
    gone,       \* the route: the rows it read as pruned, of those it has yet to mark
    at,         \* at[c]: where the route or the job is with the chapter
    job,        \* "none", "route", "running", "ending", "scanning"
    listed,     \* the scan: the chapters it has listed, or {} before it lists
    scanning,   \* whether a scan has listed and not yet recorded
    reaper,     \* "done", "start", "walk"
    names,      \* the directory as the reaper read it: chapters under their own name,
    baks,       \* those under `.refetch-bak` it has yet to look at,
    tmps,       \* the half-writes it has yet to remove,
    restored,   \* and what it has put back
    crashes,
    was,        \* history: the chapter's copy when the route came to it, 0 with no job
    died,       \* history: a route or a job of this life ended without settling
    stuck       \* history: the chapters a failure of this life keeps from being put back

vars == <<file, bak, tmp, row, copies, gone, at, job, listed, scanning, reaper, names,
          baks, tmps, restored, crashes, was, died, stuck>>
disk == <<file, bak, tmp>>
scanner == <<listed, scanning>>
reap == <<reaper, names, baks, tmps, restored>>
past == <<crashes, was, died, stuck>>
Forgets == was' = [c \in Chapters |-> 0]

Copies == 1 .. MaxCopies
At == {"out", "named", "aside", "waiting", "asking", "fetching", "writing", "landed", "failed",
       "back", "settled", "kept"}

TypeOK ==
    /\ file \in [Chapters -> 0 .. MaxCopies] /\ bak \in [Chapters -> 0 .. MaxCopies]
    /\ tmp \in [Chapters -> SUBSET Copies]
    /\ row \in [Chapters -> {"live", "pruned"}]
    /\ copies \in Copies /\ gone \subseteq Chapters
    /\ at \in [Chapters -> At]
    /\ job \in {"none", "route", "running", "ending", "scanning"}
    /\ listed \subseteq Chapters /\ scanning \in BOOLEAN
    /\ reaper \in {"done", "start", "walk"}
    /\ names \subseteq Chapters /\ baks \subseteq Chapters /\ restored \subseteq Chapters
    /\ tmps \subseteq Chapters \X Copies
    /\ crashes \in 0 .. MaxCrashes
    /\ was \in [Chapters -> 0 .. MaxCopies] /\ died \in BOOLEAN
    /\ stuck \subseteq Chapters

Init ==
    /\ file = [c \in Chapters |-> 1] /\ bak = [c \in Chapters |-> 0]
    /\ tmp = [c \in Chapters |-> {}]
    /\ row = [c \in Chapters |-> "live"]
    /\ copies = 1 /\ gone = {}
    /\ at = [c \in Chapters |-> "out"] /\ job = "none"
    /\ listed = {} /\ scanning = FALSE
    /\ reaper = "done" /\ names = {} /\ baks = {} /\ tmps = {} /\ restored = {}
    /\ crashes = 0 /\ was = [c \in Chapters |-> 0] /\ died = FALSE /\ stuck = {}

-----------------------------------------------------------------------------
(* The route *)

Goes(c, pc) == at' = [at EXCEPT ![c] = pc]
Given == {c \in Chapters : at[c] # "out"}
\* One chapter at a time, in the route and in the job.
Idle == \A c \in Chapters : at[c] \in {"out", "named", "waiting", "settled", "kept"}

\* The folder is claimed for the job before anything is renamed.  The rows were read before
\* that, before the paths were looked at and the listing refreshed: another job may have run
\* since, so what was read as pruned need not be so now, nor the other way round.
Refetch(todo, read) ==
    /\ job = "none" /\ todo # {} /\ read \subseteq todo
    /\ job' = "route" /\ at' = [c \in Chapters |-> IF c \in todo THEN "named" ELSE "out"]
    /\ gone' = read
    /\ UNCHANGED <<disk, row, copies, scanner, reap, past>>

\* A chapter with no file has nothing to set aside; a rename that fails leaves it there.
SetAside(c) ==
    /\ job = "route" /\ at[c] = "named" /\ Idle
    /\ \/ file[c] # 0 /\ bak' = [bak EXCEPT ![c] = file[c]] /\ file' = [file EXCEPT ![c] = 0]
       \/ (file[c] = 0 \/ Faults) /\ UNCHANGED <<file, bak>>
    /\ was' = [was EXCEPT ![c] = IF file[c] # 0 THEN file[c] ELSE bak[c]]
    /\ Goes(c, "aside")
    /\ UNCHANGED <<tmp, row, copies, gone, job, scanner, reap, crashes, died, stuck>>

\* A row that read as pruned is not marked again.
Mark(c) ==
    /\ job = "route" /\ at[c] = "aside"
    /\ row' = IF c \in gone THEN row ELSE [row EXCEPT ![c] = "pruned"]
    /\ gone' = gone \ {c} /\ Goes(c, "waiting")
    /\ UNCHANGED <<disk, copies, job, scanner, reap, past>>

\* The query fails: the route answers an error and gives the folder up.
MarkFails(c) ==
    /\ job = "route" /\ at[c] = "aside" /\ c \notin gone /\ Faults
    /\ job' = "none" /\ at' = [d \in Chapters |-> "out"]
    /\ died' = TRUE /\ gone' = {} /\ Forgets
    /\ UNCHANGED <<disk, row, copies, scanner, reap, crashes, stuck>>

StartJob ==
    /\ job = "route" /\ \A c \in Given : at[c] = "waiting"
    /\ job' = "running" /\ gone' = {}
    /\ UNCHANGED <<disk, row, copies, at, scanner, reap, past>>

-----------------------------------------------------------------------------
(* The job *)

Begin(c) ==
    /\ job = "running" /\ at[c] = "waiting" /\ Idle
    /\ Goes(c, "asking")
    /\ UNCHANGED <<disk, row, copies, gone, job, scanner, reap, past>>

\* downloadChapter: a file under the chapter's name is left alone.
Ask(c) ==
    /\ at[c] = "asking"
    /\ Goes(c, IF file[c] # 0 THEN "failed" ELSE "fetching")
    /\ UNCHANGED <<disk, row, copies, gone, job, scanner, reap, past>>

\* No source gives it; on a full disk or when every source refuses the job begins no other.
NotFetched(c) ==
    /\ at[c] = "fetching"
    /\ Goes(c, "failed")
    /\ job' \in {"running", "ending"}
    /\ UNCHANGED <<disk, row, copies, gone, scanner, reap, past>>

\* writeAtomic: a half-write under a new name, and a rename.
Write(c) ==
    /\ at[c] = "fetching" /\ copies < MaxCopies
    /\ copies' = copies + 1
    /\ tmp' = [tmp EXCEPT ![c] = @ \cup {copies + 1}]
    /\ Goes(c, "writing")
    /\ UNCHANGED <<file, bak, row, gone, job, scanner, reap, past>>

Land(c) ==
    /\ at[c] = "writing" /\ copies \in tmp[c]
    /\ file' = [file EXCEPT ![c] = copies] /\ tmp' = [tmp EXCEPT ![c] = @ \ {copies}]
    /\ stuck' = stuck \ {c} /\ Goes(c, "landed")
    /\ UNCHANGED <<bak, row, copies, gone, job, scanner, reap, crashes, was, died>>

\* The write fails, or its rename finds the half-write gone.
WriteFails(c) ==
    /\ at[c] = "writing"
    /\ Goes(c, "failed")
    /\ UNCHANGED <<disk, row, copies, gone, job, scanner, reap, past>>

\* What the helper throws that is no full disk -- a chapter with holes that cannot be
\* written, a query that fails -- ends the job where it is.
Throw(c) ==
    /\ at[c] \in {"asking", "fetching", "writing"}
    /\ job' = "none" /\ at' = [d \in Chapters |-> "out"]
    /\ died' = TRUE /\ Forgets
    /\ UNCHANGED <<disk, row, copies, gone, scanner, reap, crashes, stuck>>

\* Cancelled, shut down, or through with its chapters.
Stop ==
    /\ job = "running" /\ Idle
    /\ job' = "ending"
    /\ UNCHANGED <<disk, row, copies, gone, at, scanner, reap, past>>

\* A chapter the job never reached is settled too.
NeverReached(c) ==
    /\ job = "ending" /\ at[c] = "waiting" /\ Idle
    /\ Goes(c, "failed")
    /\ UNCHANGED <<disk, row, copies, gone, job, scanner, reap, past>>

-----------------------------------------------------------------------------
(* The hook *)

\* The old copy of c takes the chapter's name again, or the rename fails, of which nothing
\* is said, and it stays aside.
Restores(c) ==
    \/ /\ file' = [file EXCEPT ![c] = bak[c]] /\ bak' = [bak EXCEPT ![c] = 0]
       /\ stuck' = stuck \ {c}
    \/ Faults /\ stuck' = stuck \cup {c} /\ UNCHANGED <<file, bak>>

\* The marks of the chapters in cs are cleared, or the query fails and they stay.
Clears(cs) ==
    row' \in {[c \in Chapters |-> IF c \in cs THEN "live" ELSE row[c]]}
              \cup (IF Faults THEN {row} ELSE {})

LandedAnyway(c) == at[c] \in {"landed", "failed"}                       \* mutant
HasLanded(c) == at[c] = "landed"

Drop(c) ==
    /\ HasLanded(c)
    /\ bak' \in {bak, [bak EXCEPT ![c] = 0]}
    /\ Goes(c, "settled")
    /\ UNCHANGED <<file, tmp, row, copies, gone, job, scanner, reap, past>>

OverTheFile(c) == bak[c] # 0                                            \* mutant
CanPutBack(c) == bak[c] # 0 /\ file[c] = 0

PutBack(c) ==
    /\ at[c] = "failed"
    /\ IF CanPutBack(c) THEN Restores(c) ELSE UNCHANGED <<file, bak, stuck>>
    /\ Goes(c, "back")
    /\ UNCHANGED <<tmp, row, copies, gone, job, scanner, reap, crashes, was, died>>

Unmark(c) ==
    /\ at[c] = "back"
    /\ Clears({c} \cap {d \in Chapters : file[d] # 0})
    /\ Goes(c, "kept")
    /\ UNCHANGED <<disk, copies, gone, job, scanner, reap, past>>

-----------------------------------------------------------------------------
(* Scans *)

List == listed' = {c \in Chapters : file[c] # 0} /\ scanning' = TRUE

\* Somebody's scan, or the one a job ends with.
Scan ==
    /\ ~scanning /\ List
    /\ UNCHANGED <<disk, row, copies, gone, at, job, reap, past>>

JobScan ==
    /\ job = "ending" /\ ~scanning /\ \A c \in Given : at[c] \in {"settled", "kept"}
    /\ List /\ job' = "scanning"
    /\ UNCHANGED <<disk, row, copies, gone, at, reap, past>>

\* Every file listed is recorded as there, whatever has become of it; or the scan fails.
Record ==
    /\ scanning
    /\ Clears(listed)
    /\ scanning' = FALSE /\ listed' = {}
    /\ IF job = "scanning"
       THEN job' = "none" /\ at' = [c \in Chapters |-> "out"] /\ Forgets
       ELSE UNCHANGED <<job, at, was>>
    /\ UNCHANGED <<disk, copies, gone, reap, crashes, died, stuck>>

-----------------------------------------------------------------------------
(* A crash and the boot after it *)

Crash ==
    /\ crashes < MaxCrashes /\ crashes' = crashes + 1
    /\ at' = [c \in Chapters |-> "out"] /\ job' = "none"
    /\ listed' = {} /\ scanning' = FALSE
    /\ reaper' = "start" /\ names' = {} /\ baks' = {} /\ tmps' = {} /\ restored' = {}
    /\ died' = FALSE /\ stuck' = {} /\ gone' = {} /\ Forgets
    /\ UNCHANGED <<disk, row, copies>>

\* The folder is read once, or cannot be read and is passed over.
ReadFolder ==
    /\ reaper = "start"
    /\ reaper' = "walk"
    /\ \/ /\ names' = {c \in Chapters : file[c] # 0}
          /\ baks' = {c \in Chapters : bak[c] # 0}
          /\ tmps' = {p \in Chapters \X Copies : p[2] \in tmp[p[1]]}
          /\ stuck' = stuck
       \/ /\ Faults /\ UNCHANGED <<names, baks, tmps>>
          /\ stuck' = stuck \cup {c \in Chapters : bak[c] # 0}
    /\ UNCHANGED <<disk, row, copies, gone, at, job, scanner, restored, crashes, was, died>>

ReapTmp(c, n) ==
    /\ reaper = "walk" /\ <<c, n>> \in tmps
    /\ tmp' = [tmp EXCEPT ![c] = @ \ {n}] /\ tmps' = tmps \ {<<c, n>>}
    /\ UNCHANGED <<file, bak, row, copies, gone, at, job, scanner, reaper, names, baks, restored, past>>

SettledAnyway(c) == TRUE                                                \* mutant
Settled(c) == c \in names

\* A copy whose original is there is left alone: that one settled.  Any other is put back.
ReapBak(c) ==
    /\ reaper = "walk" /\ c \in baks
    /\ baks' = baks \ {c}
    /\ IF Settled(c) \/ bak[c] = 0
       THEN UNCHANGED <<file, bak, stuck, restored>>
       ELSE Restores(c) /\ restored' = IF bak' = bak THEN restored ELSE restored \cup {c}
    /\ UNCHANGED <<tmp, row, copies, gone, at, job, scanner, reaper, names, tmps, crashes,
                   was, died>>

\* unpruneRestored, once the walk is over.
Unprune ==
    /\ reaper = "walk" /\ baks = {} /\ tmps = {}
    /\ Clears(restored)
    /\ reaper' = "done" /\ names' = {}
    /\ UNCHANGED <<disk, copies, gone, at, job, scanner, baks, tmps, restored, past>>

-----------------------------------------------------------------------------
Next ==
    \/ \E todo, read \in SUBSET Chapters : Refetch(todo, read)
    \/ \E c \in Chapters :
          \/ SetAside(c) \/ Mark(c) \/ MarkFails(c) \/ Begin(c) \/ Ask(c) \/ NotFetched(c)
          \/ Write(c) \/ Land(c) \/ WriteFails(c) \/ Throw(c) \/ NeverReached(c)
          \/ Drop(c) \/ PutBack(c) \/ Unmark(c) \/ ReapBak(c)
          \/ \E n \in Copies : ReapTmp(c, n)
    \/ StartJob \/ Stop \/ Scan \/ JobScan \/ Record
    \/ Crash \/ ReadFolder \/ Unprune

Spec == Init /\ [][Next]_vars

-----------------------------------------------------------------------------
(* Properties *)

\* Whatever fails or dies, some copy of a chapter that was there is on the disk: the old
\* one is dropped only when another has landed (the refetch route's hook, reapStaleTemp).
NoCopyLost == \A c \in Chapters : file[c] # 0 \/ bak[c] # 0

\* A download that fails costs nothing: when the hook is through with the chapter, the
\* copy that was there is there again (admin.ts, "must never cost the chapter that was
\* there"), or still aside for the next boot if the rename failed.
FailedKeepsOld ==
    \A c \in Chapters :
        at[c] = "kept" => \/ file[c] = was[c] \/ c \in restored
                          \/ c \in stuck /\ bak[c] = was[c]

\* When the job is over and the reaper through, whatever the crashes interrupted, every
\* chapter is under its own name (the hook and reapStaleTemp) -- unless a job of this life
\* died or the rename of the chapter failed, which the next boot makes good.
Quiet == job = "none" /\ reaper = "done" /\ ~died
WholeAgain == Quiet => \A c \in Chapters \ stuck : file[c] # 0

\* A chapter that is on the disk does not go on reading as deleted until some scan happens
\* to run (reapStaleTemp, "the chapter sat on disk for days").
OnDiskReadsLive == Quiet /\ ~scanning => \A c \in Chapters : file[c] # 0 => row[c] = "live"

\* A job that ends settles every chapter it was given (DownloadJobInput.onSettled).
JobSettlesAll ==
    [][(job \notin {"none", "route"} /\ job' = "none" /\ crashes' = crashes)
       => \A c \in Given : at[c] \in {"settled", "kept"}]_vars
=============================================================================
