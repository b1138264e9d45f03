# Uchiyomi: a TLA+ verification of the server's download and library core

Uchiyomi is a self-hosted manga server that downloads what it serves. Its server, the
BFF under `bff/src`, is one Node.js process over one PostgreSQL database and one tree of
files. There are no threads: what makes it hard is that dozens of long jobs (sweeps,
checks, downloads, renumbers, the slow archive, repairs, clean-ups, scans) run at once as
asynchronous functions over the same folders, rows and remote servers. They interleave at
every `await`, any remote call or rename may fail, and the process may be stopped anywhere.
Its client under `web/` is a web application that reads offline: the tabs and a service
worker share one queue and one cookie, and talk to the server whenever they can.

This directory models that core in TLA+, checks it with TLC on small instances and proves
the most important safety properties with TLAPS for every size. Paths below are relative
to the repository's source tree; `lib/x.ts` is `bff/src/lib/x.ts`, `routes/x.ts` is
`bff/src/routes/x.ts`.

1. [Inventory](#1-inventory)
2. [Modules](#2-modules)
3. [Runs and bounds](#3-runs-and-bounds)
4. [Fairness](#4-fairness)
5. [What is proved](#5-what-is-proved)
6. [Findings](#6-findings)
7. [Seen in the models, claimed by no property](#7-seen-in-the-models-claimed-by-no-property)
8. [What is not modelled](#8-what-is-not-modelled)
9. [Plan](#9-plan)

To repeat a check: `tlc -config Gate.cfg MCGate` (each run's module and configuration are
in `PROJECT.json`), `tlapm AccessProofs.tla` and the like for the proofs.

## 1. Inventory

### Modelled, whole or in part

| Component | State it keeps | Operations | What is hard | What makes it correct |
|---|---|---|---|---|
| **Per-key gate** `lib/gate.ts` | one lane per key: calls inside, queue of waiters, earliest next start | `withGate`, `admit`; lanes appear and vanish | a slot is handed to a waiter that has not woken; the width changes while calls queue; the lane object may be gone | the count agrees with the calls; no lost wake-up; the width asked for is kept; first come, first served |
| **Download pace** `lib/pace.ts` | a level, a hold, a rest and timestamps per rate key; which groups share an image server | `noteRateLimited`, `noteDownloaded`, `notePageHosts`, lazy decay in `current` | keys are joined while levels decay lazily; chapters begun before a refusal land after it | a refusal holds for everybody behind the server; full speed comes back |
| **Scan scheduling** `lib/library.ts` 807-935 | the scan under way, one follow-up its callers share, the hold and its waiters | `persistScan`, `scanOnce`, `withScansHeld` | promises wait for promises in both directions | a scan and held work never overlap; every caller is answered by a walk begun after it asked; nobody waits in a circle |
| **Renumber** `lib/numbering.ts` | files, `lib_books` numbers, the journal `lib_series.renumber_plan`, a mark on the folder | confirm, settle, two phases of renames, commit, resume, put back | a crash between any two renames; several runs of one journal; a scan between renames and rows | no file lost or written over; the whole is one atomic renumber, but where failures break it; what was left half-way is finished |
| **Library sweep** `runUpdateAll` in `lib/updater.ts` | a queue per source, series aside, parked queues, lanes, the budget | route, start, hand on, park, free, drain, completion pass | lanes finish in any order while sources cool, folders are held, the disk fills and stops are asked for | each series once; budget kept; only what is parked is left; the sweep ends |
| **Folder marks** `lib/bulkNewest.ts` and all its users | `busyFolders`, `runsInside`, job reservations | everybody who writes into a series' folder | a set anybody may delete from; rows read before an await and used after it | an owner is alone; nobody takes another's mark away; renames are alone; a waiting job gets its turn |
| **Fetch again and the boot reaper** `routes/admin.ts` 2927-3118, `lib/fsAtomic.ts` | the file, its `.refetch-bak`, half-writes, `pruned_at` | set aside, mark, download, land, settle, reap, un-prune | a crash between any two; the reaper walks while the server already downloads | no copy lost; a failed download leaves the old file; everything whole after a restart |
| **Download jobs** `routes/sources.ts` 526-860 (in part) | pending chapters, lanes, the sources that refused, the job's hold on its folder | wait for the folder, look for a copy to begin, run a lane, stop, cancel, settle, end | the loop awaits the database between looking and beginning while lanes end; exceptions leave it | lanes are begun on different servers; every chapter given is settled once and truly; the folder is the job's own while it writes |
| **Chapter fallback** `lib/chapterFallback.ts` (in part) | one chapter: its copy, the alternates tried, the best copy with holes | choose, queue, check at the door, fetch, next source, write the hold | sources are switched off, blocked and cooled while the chapter queues; a hold is written late | no whole file is written over; a source that may no longer be taken from is not |
| **Reading progress** `lib/progress.ts`, `web/lib/downloads.ts`, `web/lib/auth.tsx`, `web/public/sw.js` (in part) | the place on the server, the queue on the device, two or three flushes of it, who is signed in | turn a page, ping, queue, flush, put back, switch, sign out and in, close and open | two senders of one queue; late, doubled and reordered events; the device changes hands | no page lost; the place goes back only where it is known to; a finish stands; the queue is sent |
| **Accounts and sessions** `lib/auth.ts`, `routes/auth.ts`, `web/lib/api.ts` (in part) | `refresh_tokens` as a chain, the browser's cookie | refresh, recover a lost answer, sign out, sign the others out, revoke from a list | several requests with one cookie; answers lost, late and crossed | one live token; the cookie stays worth its session; signing out ends it |
| **Visits of a series** `updateSeries`, `visitSeries` in `lib/updater.ts` (in part) | `lib_series` row, numbering state | read, look, resume or settle a renumber, list, load | the row is stale by the time it is used | see folder marks, sweep |

### How they interact

- The **sweep** calls a **visit** for each series. A visit enters the series
  (`runsInside`), reads its row, looks at the **folder marks**, resumes or settles a
  **renumber**, lists the sources and downloads.
- A **renumber** takes a share of the folder's mark and holds the **scans**; a **scan**
  skips a series with a journal.
- Every chapter that is downloaded passes the **gate** under its source's rate key, at the
  width and gap the **pace** says, and is written by `writeAtomic` (**fetch again**).
- **Jobs** from routes reserve a series (`reserveDownloadJob`), wait for the mark, bring
  their chapters in over lanes by the **fallback**, and ask for a scan at their end.
  **Owners** (delete, move, merge, upload, page clean-up, Rescan's Apply) refuse or wait
  while anybody else is there.
- The **slow archive**, **repair**, **Fetch newest** and **Rescan** mark folders themselves.
- The **reading queue** is sent with the access token that the **session**'s cookie is worth;
  a change of person changes both under a flush that is under way.
- All of the server's shared state is in memory but for rows and files, so a restart keeps the
  journal, `pruned_at`, `.refetch-bak`, half-writes, places and tokens, and loses every mark,
  queue and hold. The client keeps its queue and its cookie.

### The rest of the system

Each is listed in `PROJECT.json` with its sources and status.

| Component | State and operations | What would make it correct |
|---|---|---|
| Chapter downloader `lib/downloader.ts`, `lib/partial.ts` | pages of one chapter, retries, resume of a partial file | a page is never assembled out of order, a whole chapter is not replaced by one with holes |
| Slow archive `lib/archive*.ts` | slots, breaks, a backoff per rate key | one chapter per slot, a refusal stops the key, it always goes on again |
| Finish downloads, scout `lib/finishDownloads.ts`, `lib/sourceScout.ts` | one run at a time over the series that are behind | a run is not started over itself |
| Source health, watchdog `lib/sourceHealth.ts`, `lib/sourceWatchdog.ts` | failures and cooldowns per source | a source that works is not kept off |
| Repair, autofix, Health `lib/repair*.ts`, `lib/autofix.ts`, `lib/health.ts` | long drivers of the operations above | as those |
| Rescan, clean-up `lib/rescan.ts`, `lib/chapterCleanup.ts` | preview and Apply, tombstones | an Apply does what was previewed or nothing |
| Find other sources `lib/findSources.ts` and siblings | searches, candidates, a main source | judgement about titles |
| Library contents `lib/libraryAdmin.ts`, `lib/naming.ts`, `lib/releases.ts` | series and books, naming rules, releases | pure rules over names and numbers |
| Trackers and other readers `lib/trackers*.ts`, `lib/bookorbitSync.ts`, `lib/komgaProgress.ts` | places per account, remote counters | a place never goes back by a sync |
| Image cache `lib/imageCache.ts`, readers | cached and resized images | one computation per image |
| Backup, schema `lib/backup.ts`, `lib/migrate.ts` | dumps, migrations | external programs and DDL |
| Source adapters `lib/sources/` | parsers, the extension bridge | data |
| Notifications, translation `lib/notify/`, `lib/translate/` | fan-out, an external process | a queue in order |
| Routes and web application `routes/`, `web/` | queries, a PWA client | the routes that start an operation, and the client's queue and cookie, are modelled with it |
| Desktop and title extractor `desktop/`, `services/` | process supervision, a Python service | restart policy |

### What is hard to test here

`PROJECT.json` lists forty hazards at their lines with the properties that would catch
them. In short: marks that are read before an await and used after it (`updater.ts:306`,
`numbering.ts:702`), a set used as a count (`numbering.ts:739`), promises that wait for each
other (`library.ts:914-929`), renames a crash can separate from each other and from their rows
(`numbering.ts:716`, `fsAtomic.ts:92`), decisions from lanes that were looked at an await ago
(`sources.ts:805`), lanes that report late (`updater.ts:1196-1208`), state that decays lazily
while it is merged (`pace.ts:258`), events that are replayed with the wrong time
(`downloads.ts:392`) and answers that carried a new token and never arrived (`auth.ts:332`).

## 2. Modules

Every module follows one rule on atomicity: **code between two awaits is one action**,
since nothing else can run there, and an operation on the disk or the database is an action
of its own, since others may run before it answers.

### Gate (`lib/gate.ts`, `underGate` in `lib/downloader.ts`)

`active[k]` and `queue[k]` are the lane's `active` and `waiters`, `open` the keys of the
`lanes` map, `rest[k]` what is left until `nextFreeAt`. `phase[o]` says where a call of
`withGate` is: queued, let in (its promise resolved, it has not run yet), asleep for the gap, inside.
`left[o]` is its timer. `level[k]` is the pace that `underGate` turns into a width and a gap
at every reading.

| Action | Code |
|---|---|
| `ArriveFree`, `ArriveBehind` | `withGate` up to its first await: room and nobody waiting, or into the queue |
| `GoOn` | a waiter's continuation after `admit` resolved it |
| `Wake` | the end of the gap's sleep |
| `Finish` | the `finally`: give the slot back, `admit`, delete an empty lane |
| `Tick`, `SetLevel` | time; a pace that changes while calls queue |

### Pace (`lib/pace.ts`)

`paces[key]` holds level, run of good chapters, hit stamp, rest and age as the `Pace`
record does; `servers[g]` is what `notePageHosts` remembers and `joins` the joined keys.
Time is kept as ages, capped where nothing distinguishes them any more. `refused` and
`owed` are history: what each group was refused, independent of which key it sat under.
`Read` is an operation of its own because reading writes the lazy decay; `TimePasses` ages
every stamp. The arithmetic of gaps and widths from a level is left out.

### ScanHold, ScanService (`persistScan`, `scanOnce`, `withScansHeld`)

`scan` is the shared promise (none, waiting for the hold, held off, walking), `again` the
follow-up (armed, or due once the scan has ended and its callback has not run), `hold`,
`holder` and `queue` the hold and those in line for it. `walks[c]` is history: the walks
caller c saw begin. `ScanService` is what the file promises with none of the promises it is
built from: a caller is answered only by a walk that began after it asked, and a walk and a
held function never overlap. `Serves` is the refinement; its mapping (`Want`, `Work`) reads
a caller's state and the scan.

### Renumber, AtomicRenumber (`lib/numbering.ts`)

`disk` maps names to files: `<<p, 0>>` is "Chapter p.cbz", `<<p, i>>` the temporary name of
journal i. `number` is the rows, `journal` the column `renumber_plan`, `run[r]` the visits
inside the series with the copy of the journal each has read, `marked` and the runs' shares the folder's mark,
`held` and `line` the hold on scans and `ScanLists`/`ScanIndexes` the two ends of a scan.
Every rename, save and commit is an action and each may fail (`PutBack`, `GiveUp`);
`Crash` may come between any two. A confirmation is asked for (`Confirm`: nobody inside, the
folder not marked) and enters later (`Enter`, or `Refuse`), so that any number of them may have
passed the test before one is inside. `OthersTake` and `OthersLetGo` are whoever else marks the
folder (a repair, a download, the archive): a visit may be made behind that mark (`EnterHeld`), a
journal resumed there takes no share of it (`Share`), and the mark may be gone before the resume
ends. A run whose journal was carried through or gone goes on with its visit (`through`), one
that failed ends it (`end`). `supplanted` and `stranded` are history: a plan was made while a
journal stood on the row; a rename back failed. `AtomicRenumber` says files and rows change
numbers together, once, or stay, until a failure has broken that. `Atomic` is the refinement:
`Target` is where the journal on the row takes each chapter, `FileAt` the number each file is
named for, and while a journal stands the files are "on the move"; broken is `supplanted` or
`stranded`, and `BrokenByFailures` says what it takes to come to that.

### Sweep (`runUpdateAll`)

`queues[src]`, `waiting`, `parked`, `deferred`, `lane` (`running`), `spent`, `reserved`,
`stopped`, `cut` are the function's own variables. `loop` says where it is: in a pass (no
await, so nothing else moves), asleep in `Promise.race`, reading cooldowns, draining, in the
completion pass, over. `fate` records what became of each series. What a visit does is what
it answers (`VisitEnds`); cooldowns, holds and stops are the environment's, and so is `Learn`:
a page list that joins two sources under one rate key (`key`) while lanes run. A lane is one
series' visit with the key its source had when the visit began, which is what `Free` compares
the next one with. `Among` is every place where the code filters a list and keeps its order.

### FolderMarks

One series' folder and everybody who writes in it. `marked` is
`busyFolders.has(folder)` (a set: marking twice is marking once, unmarking once is
unmarking), `share` the runs counted in `numbering.ts`'s `marks`, `mine` those who put the
mark themselves, `visit[v]` where each visit is, `job`, `owner`, `archive`, `completion`
the others, `row` the two columns a renumber is read from and `saw[v]` what a visit read of
them. The actors are constants, one set per kind, because the kinds differ in what they ask
for: `jobBusy`, `folderBusy`, who is inside, or nothing at all.

### Refetch

Per chapter the copies on the disk: `file`, `bak` (`.refetch-bak`), `tmp` (half-writes); the
row's `pruned_at` as `row`; `at[c]` where the route, the job or the hook is with the
chapter; the scan's two ends; the reaper's directory listing (`names`, `baks`, `tmps`),
read once and used while it walks. `was`, `restored`, `died` and `stuck` are history. How a job
gets a chapter (lanes, other sources) is only its outcome. Renames and queries may fail, those that
put a copy back as well: neither the hook nor the reaper says so, and the chapter stays aside
for the next boot (`Restores`, `stuck`). What the route read of the rows before it claimed the
folder is any answer (`Refetch`): it looks at paths and refreshes a listing in between, and
another job may run meanwhile.

### DownloadJob (`startDownloadJob` in `routes/sources.ts`, `lib/chapterFallback.ts`)

One job from its wait for the folder to its end. `loop` is where the function itself is
(waiting for the folder, looking at copy k of chapter i, waiting in `Promise.race`, in its
tail) with what it has read so far (`may`, `read`, `open`): **each source it considers is
an await**, and the lanes go on meanwhile. `lane[c]` is `runOne` with
`downloadWithFallback` inside it: choosing the copy, queueing at the source (`door`),
asking, turning to the next source, writing the hold. `refusing` is the set the lanes share,
`off`, `cold`, `blocked` and `hidden` what an admin or the time changes under the job.

| Action | Code |
|---|---|
| `Folder` | the poll until nobody else has the folder |
| `NewRound`, `LookAtOne`, `LookAtCopy`, `LookEnds`, `LaneEnded` | the loop over `pending` and `pickCopy`, one source's answer at a time |
| `Choose`, `Attempt` | which copy `runOne` starts with, and what it asks before it queues |
| `Door` | what is read again when the source's slot opens |
| `Land`, `Fail`, `DiskFull` | the download's answer, with `reportOk` and `reportFail` |
| `Alternate`, `Hold` | the next followed source; the best copy with holes |
| `Throw` | what `runOne` rethrows: the race rejects, and the job's `finally` lets the folder go |
| `JobEnds`, `Cancel`, `Change`, `OtherLetsGo` | the settle loop and the end; the world |

`told[c]` is what the settle hook heard. Where to begin among the free copies is any of
them: which is slow is the pace's to say.

### ProgressSync (`web/lib/downloads.ts`, `web/public/sw.js`, `web/lib/auth.tsx`, `lib/progress.ts`)

A page that is turned is a ping; a ping that fails, landed or not, is queued under whoever is
signed in by then; the queue is sent by the app, by the app before the device changes
hands, and by the service worker. `flush[f]` is each of these with its own copy of the queue:
it was read once, an entry that lands is deleted, one that fails is put back by the app whatever the
others did to it meanwhile. `tab`, `jar` and `hint` are the three answers to "who is this": the
token of the tab, the refresh cookie, and what the worker was told. `hand` is a change of person
between its request and its answer. `row` is `read_progress` as `writeProgress` leaves it: the
newest event moves the place, and a finish is never taken back by a page turned. `read`,
`written`, `rejected` and `dropped` are history.

### Sessions (`lib/auth.ts`, `routes/auth.ts`, `web/lib/api.ts`)

Refresh tokens are numbered in the order they are made: `next` is `replaced_by`, `live` those not
revoked, `used` those whose holder refreshed with them, `grown` how far the grace has run out.
`call[c]` is one request of the browser: the read of its row (`ReadRow`), the read of what came after it
(`ReadChain`: the steps of `planRefresh`), the exchange in one statement (`Exchange`, `supersede`),
its answer on the way (`Land`, `Lose`). `Leave` begins a sign-out, here or everywhere else;
`revokeRefreshToken` and `Ended` are the two halves of one statement, which revokes what it
saw when it began. `out` and `over` are history.

### Proof modules

`SweepProofs`, `FolderMarksProofs`, `RenumberProofs`, `DownloadJobProofs`, `ProgressSyncProofs`
and `SessionsProofs` extend the module they are about; `AccessProofs` is about Gate and Pace,
`LibraryProofs` about ScanHold and Refetch. Two modules that are extended together may not
define one name twice, so Pace's and ScanHold's `Init`, `Next`, `Spec` carry their module's name.
`MC*` modules give the constants of a run their values.

Some modules keep a definition marked `mutant` beside the one it stands in for: a plausible
bug, under which the run named in `PROJECT.json` must fail.

## 3. Runs and bounds

Twelve runs. Deadlock is checked in all but five: `download_job` and `job_last_chapter` (a job
ends), `progress_sync` and `progress_rewind` (everything that may happen is bounded) and
`sessions` (a browser that is signed out has nothing left to do).

| Run | Instance | Distinct states | What it shows |
|---|---|---|---|
| `gate` | 4 calls on one lane, width 3 or 1, gap 0 or 2, changing at any time | 12,878 | `LanesAgree` count, queue and calls agree; `NoLostWakeup` a waiter always has somebody in front who will let it in; `FirstComeFirstServed`; `EveryWaiterRuns` |
| `pace` | 3 groups, 2 image servers, levels 0-2 | 64,986 | `OneServerOneKey` groups behind one server share a key, through chains too; `RefusalIsHeld` and `RestIsKept` hold for whatever key a group ends under; `BackToFullSpeed` |
| `scan_hold` | 3 callers, 3 holders | 5,494 | `HoldExcludesScan`, `Serves` (refinement of `ScanService`), `NobodyWaitsForGood` |
| `renumber` | 2 books, 3 numbers, 2 runs that may both be confirmed at once, 2 journals, 1 crash, 2 failures | 294,184 | `EveryFileOnce`, `NoSecondRow`, `BrokenByFailures`, `StrayKept`, `Atomic` (refinement of `AtomicRenumber`), `JournalFinishes` |
| `sweep` | 3 series, 4 sources of which one is off, two share the solver and two may turn out to share a server, 2 lanes, budget 3, at most 2 a series | 705,336 | `EachSeriesOnce`, `BudgetHolds`, `LeftOnlyParked`, `SweepEnds` |
| `folder_marks` | a check with a confirmation, an impatient marking run, a job, 2 owners, an archive chapter, a completion pass | 78,588 | `OwnerAlone`, `MarkKept`, `RenamesAlone`, `JobGetsItsTurn` |
| `refetch` | 2 chapters, 2 downloads, 2 crashes, any rename or query failing | 4,972,662 | `NoCopyLost`, `FailedKeepsOld`, `WholeAgain` |
| `download_job` | 3 chapters, 2 sources on 2 servers, 2 lanes, 1 change, 1 exception or full disk | 1,379,226 | `BegunApart`, `SettledOnce`, `FolderKept`, `WholeStays`, `Finishes` |
| `job_last_chapter` | the same | finding | `EveryChapterBegun` is violated |
| `progress_sync` | 2 people, 2 pages of which one is the last, 2 failures, 1 change of hands, 1 restart | 1,643,923 | `NothingLost`, `BackOnlyByALateQueue`, `FinishedStands`, `Delivered` |
| `progress_rewind` | 1 failure, no change of hands, no restart | finding | `NewestWins` is violated |
| `sessions` | 2 requests, 2 rotations, 2 losses | 271,731 | `JarStands`, `SignOutHolds`, `CatchesUp` |

**Why the bounds are enough.**

- *gate*: three holders and one waiter, or one holder and three waiters, is the least in
  which a width both shrinks under its holders and grows over several waiters; a gap of two
  ticks lets an arrival fall before, in and after it. The safety properties are also proved.
- *pace*: three groups and two servers are the least chain (first and second through one
  server, second and third through the other), with joins in either order. All time
  constants are one unit: only which of them has passed is told apart. `HoldAssumption`
  (a hold is no longer than the idle time) and `RestsAssumption` (a rest is no longer than
  a hold) state how the code's constants compare. The safety properties are also proved.
- *scan_hold*: one caller the running scan answers, one the follow-up, one that comes
  between; one holder that runs and two in line. The safety properties are also proved.
- *renumber*: the chain 1→2→3→1 makes a move's target another move's source, the case the
  two phases are for, with a third name that may be free or hold a stray file. A second journal
  makes a resume meet a journal that replaced its own, and lets two confirmations that passed
  their test together both write. One crash and two failures at any step: one failure and two
  confirmations replace a journal, two failures leave a file under a temporary name, and nothing
  less does either (`BrokenByFailures`). The safety properties are also proved, for any number of
  confirmations, crashes and failures.
- *sweep*: three series make a route that crosses two queues, a queue with nothing else to
  hand it to, and lanes that must share a budget of three with two a series, so that it runs
  out in the middle of one; the shared solver keeps two lanes apart, and a server found to be
  shared changes what is apart while lanes run. The safety properties are also proved.
- *folder_marks*: one of each kind and two owners; the marks carry no counts beyond two.
  The safety properties are also proved for any number.
- *refetch*: two chapters are alike but for their order, so symmetry is sound (no liveness
  is checked there); two downloads and two restarts let a copy be replaced, interrupted and
  interrupted again at the boot that mends it. The safety properties are also proved.
- *download_job*: two chapters fill both lanes and the third is what the loop looks at meanwhile; one
  was picked by a person and has no other copy, one may be on the disk, and one has two copies
  to begin with or one that is followed by another. One change is enough to make any of the
  reads the code repeats give another answer than before. The safety properties are also proved.
- *progress_sync*: two pages give an older and a newer event, two failures let one request land and be
  repeated and another not arrive, with the worker and the app at the queue at once. The safety
  properties are also proved.
- *sessions*: two requests race each other, two rotations make a chain whose middle token is
  neither the oldest nor the newest, and two losses lose an answer and then the one that recovers
  it. The safety properties are also proved.

Every property of a passing run is listed in `PROJECT.json` with a mutant: a plausible bug
in a mapped definition under which TLC finds the property violated.

## 4. Fairness

| Module | Assumed | Why the code justifies it |
|---|---|---|
| Gate | weak fairness of `Tick`, `GoOn`, `Wake`, `Finish` | time passes, resolved promises and timers run, and every request inside the gate has a time limit of its own. Arrivals and levels are not fair |
| Pace | weak fairness of `TimePasses` | time passes; the property speaks of a group nobody refuses any more |
| ScanHold | weak fairness of every step but asking | callbacks run, a walk ends, and a held function ends (its `finally` gives the hold back). Asking for a scan or a hold is not fair |
| Renumber | weak fairness of a run's steps, of a scan's end and of the others' clearing their mark, strong fairness of taking the hold and of entering | the hold's line is taken in order by promises, and scans come and go, so a run that wants the hold finds it free infinitely often rather than always; the series is visited again by every sweep, though between visits it may be refused. Marking, confirming and crashing are not fair |
| Sweep | weak fairness of the loop and of the end of each visit | the loop is code that runs; a visit's queries and requests have time limits. Cooldowns, holds and stops are not fair: nothing has to come free |
| FolderMarks | weak fairness of giving a mark back and of a job's poll | each holder gives back in a `finally`; a job looks every 500 ms. Taking the folder is not fair |
| DownloadJob | weak fairness of the loop, of each lane and of the other writer's letting go | the loop is code that runs, each request of a lane has a time limit, and whoever has the folder gives it back (FolderMarks). Cancel and changes are not fair |
| ProgressSync | weak fairness of the app's flush beginning and going on, and of a ping's landing or failing | the app looks at its queue at every start and whenever the network comes back; a request is answered or fails. The worker is not fair: nothing makes a browser run it |
| Sessions | weak fairness of each request's being sent, served and answered, and of time | a tab refreshes every twelve minutes, the server answers, the grace runs out. Losses and revocations are not fair |

Refetch is checked for safety only.

## 5. What is proved

Each theorem holds for every value of the constants that meets the named assumptions.

| Theorem | Statement |
|---|---|
| `AccessProofs!TypeCorrect` | `Spec => []TypeOK` |
| `AccessProofs!LanesAlwaysAgree` | a lane counts exactly the calls that hold a slot and queues exactly those that wait |
| `AccessProofs!NoWakeupLost` | whoever waits has somebody in front who will let it in |
| `AccessProofs!WidthBounded` | a lane never holds more than the widest width its levels can ask for |
| `AccessProofs!AdmissionUnderWidth` | a slot is given only under the width asked for at that moment |
| `AccessProofs!AdmissionInOrder` | whoever was in the queue before an admitted call has a slot by then |
| `AccessProofs!PaceTypeCorrect` | `PaceSpec => []PaceTypeOK` |
| `AccessProofs!OneKey` | groups seen on one image server share a key, and nothing is left under the others' own keys |
| `AccessProofs!RefusalHolds` | for the length of a hold after a 429 nobody on its key is at full speed |
| `AccessProofs!RestHolds` | the rest a 429 asked for is waited out by everybody on its key |
| `SweepProofs!TypeCorrect` | `Spec => []TypeOK` |
| `SweepProofs!EachOnce` | a series is in one place, however often it is handed on, put back or set aside |
| `SweepProofs!BudgetKeeps` | the lanes and the completion pass together never pass the sweep's budget |
| `SweepProofs!OnlyParkedLeft` | a sweep nobody stopped leaves series only in parked queues |
| `LibraryProofs!HoldsExcludeScans`, `OneHolds` | scans and held functions never overlap, and one holds at a time |
| `LibraryProofs!NobodyWaitsInACircle` | a holder's scan never waits for that holder |
| `LibraryProofs!AtMostTwoWalks`, `AnsweredLater` | a caller waits through at most two walks and is answered by one begun after it asked |
| `LibraryProofs!ImplementsService` | `ScanHold` implements `ScanService` |
| `FolderMarksProofs!OwnersAreAlone` | a writer that needs the series to itself has it |
| `FolderMarksProofs!MarkIsKept` | the folder is marked exactly while somebody holds the mark |
| `FolderMarksProofs!RunsRenameAlone` | while a run renames nobody else does, and neither owner nor job is there |
| `LibraryProofs!NoCopyIsLost` | some copy of every chapter is on the disk |
| `LibraryProofs!OldCopyIsKept` | a chapter that did not land has its old copy back, or still aside where the rename failed |
| `LibraryProofs!WholeAtTheEnd` | with all quiet every chapter is under its own name, but those a failed rename keeps aside until the next boot |
| `RenumberProofs!TypeCorrect` | `Spec => []TypeOK` |
| `RenumberProofs!FilesOnce` | every file is under exactly one name, through any crashes, failures, resumes and confirmations, until a plan is made while a journal stands on the row |
| `RenumberProofs!RowsOnce` | until then no scan gives a chapter a second row |
| `RenumberProofs!FailuresBreak` | such a plan takes a failure, and a file left behind without its journal takes two: confirmations, visits, crashes and scans alone do neither |
| `RenumberProofs!StraysStay` | a file nobody has a row for is never written over, whatever plan is made when |
| `RenumberProofs!AtomicTillBroken` | `Renumber` implements `AtomicRenumber`, until one of those two happens |
| `DownloadJobProofs!TypeCorrect` | `Spec => []TypeOK` |
| `DownloadJobProofs!LanesBegunApart` | no two lanes are begun on one image server |
| `DownloadJobProofs!EveryChapterSettledOnce` | the hook hears of every chapter once, and truly |
| `DownloadJobProofs!FolderIsKept` | while nothing threw, a lane that runs has the folder to itself |
| `DownloadJobProofs!WholeFilesStay` | no whole file is written over |
| `ProgressSyncProofs!TypeCorrect` | `Spec => []TypeOK` |
| `ProgressSyncProofs!NeverLost` | no page that was turned is lost |
| `ProgressSyncProofs!PlaceIsNewest` | the place goes back only by an event that was queued late |
| `ProgressSyncProofs!FinishStands` | a finish that arrived is never taken back |
| `SessionsProofs!TypeCorrect` | `Spec => []TypeOK` |
| `SessionsProofs!NeverForks` | a session never has two live tokens |
| `SessionsProofs!CookieStands` | the cookie's token is the newest that was used, or the one after it |
| `SessionsProofs!SignedOut` | signing out ends the session, unless a refresh moves it on meanwhile |

**Assumptions.** Gate: `OpsAssumption` (finitely many calls, each with a key),
`WidthAssumption` and `GapAssumption` (numbers). Pace: `GroupsAssumption` (finitely many groups,
ordered as numbers), `BoundsAssumption`, `HoldAssumption` and `RestsAssumption` (how the code's
times compare). Sweep: `RouteAssumption` (finitely many sources, each series once in the query
with a route that is not empty), `LimitsAssumption`, `KeyAssumption` (every source has a key). ScanHold: none. FolderMarks:
`ActorsAssumption` (the kinds of actor are disjoint, the impatient runs are marking runs,
the confirmation is not one). Refetch: `BoundsAssumption` (the bounds are numbers). Renumber:
`MapsAssumption` (a plan renames one to one), `RunsAssumption` (finitely many runs),
`BoundsAssumption`. No theorem about Renumber bounds confirmations, crashes or failures.
DownloadJob: `JobAssumption` (each chapter is given once, its listing and its copies are
sources, a picked one has a single copy). ProgressSync: `ProgressAssumption`. Sessions:
`SessionsAssumption` (the bounds are numbers). TLC evaluates them on every run.

**The arguments.**

*Gate.* `LanesAgree` alone is not inductive: giving slots to the first n of the queue adds n to the
count, and that is the number of calls let in only if the queue holds nobody twice
and only this lane's waiters. `LaneOK` adds that, and finite sets' cardinalities carry
the count. `AdmitKeeps` is the one lemma all three ways into `admit` use. Order and width of
an admission follow from what `admit` takes: a prefix, never past the width.

*Pace.* `OneServerOneKey` follows from `JoinsKnown` (the keys are what `joined()` answers for the
servers known) and three facts about `joined`: a component is closed, two components that meet
are one, and so have one least member. `RefusalIsHeld` speaks of what a reader is told, after
the decay; `RefusalStands` of what is stored: while a 429 counts, its key has a level that
changed no earlier than the 429, so that no idle time has passed (`HoldAssumption`) and no
run of good chapters eases it. A join takes the greatest level and rest and the least ages
(`MergedType`), and a group's new key holds at least what its old one did. `RestStands`
needs in turn that a rest is owed only while its refusal counts, or the decay could delete it.

*Sweep.* `EachSeriesOnce` counts places, which says nothing of the steps; `OnePlace` says the
same as exclusions between queues, lanes, those aside and fates, and `QueuesApart` that the
queues hold nobody twice. What they rest on is a lemma for each thing the code does to a queue:
taking its head, putting it at the back, joining two and `Among`. `BudgetHolds` needs `Budget`: what is reserved is the sum of
what the lanes may take, and what is spent with what visits under way may still take is
within the budget. A sum is written as the size of a set of pairs (series, share), so that it
grows and shrinks by finite sets' theorems and needs no recursion. `LeftOnlyParked` needs
`Quiet`: a pass that had no turn and a freeing that freed nobody leave nothing that could run.

*ScanHold.* The strengthening (`ScanInv`) says who is in the queue and that nobody is twice, that a
scan held off has a function to wait for, that a follow-up is armed only behind a scan, and
`CallerCounts`: for every kind of promise a caller waits on, how many walks it can have seen begin.
The last is the reason a caller is never answered too early or too late. The
refinement takes each action to one step or a stutter (`StepMaps`).

*FolderMarks.* `MarkKept` is not inductive, because taking the folder out of a set takes it
out for everybody: `Exclusive` says the kinds of holder never hold at once. `OwnerAlone` is
not, because a visit inside may act on what it read: `Apart` says that while somebody owns
the folder, every visit inside has yet to look, and `Settler` that a renumber under way, the
one thing that lets a visit stay at a busy folder, is past its look as well.

*Refetch.* A chapter may well be without a file: `AwayForCause` lists why (the route or the
job is with it, or the reaper has still to come, or the job died or a rename failed and the next
boot will), `OldIsKnown` keeps track of the copy that was there, and `LandedIsThere` and
`NothingGiven` are what the hook and the job's end rest on.

*Renumber.* Where a file may be depends on the journal's phase, and who may move it on who
has read which journal. `Carries` says that a run which renames carries the very journal of
the row, at its phase (this is what `Reread` under the hold buys: without it a copy read
before the wait may be finished or replaced), `Placed` that a file is at its row's number,
at its new one in the last phase, or under the temporary name that the journal gave it, and `Plans` that a
plan's targets are one to one and hold no stray file. From `Placed`, `Once` (no file under
two names, none under no name) survives each rename, a crash between any two included,
because nothing else can be under the name a rename is about to take. `OneHolds` and
`MarkShared` keep the runs in one order: those in line wait, only those who wait or rename share
the mark, one renames, and then no scan walks, which makes `ScanTrue` (what a scan listed is
still there) and with it `NoSecondRow` inductive. `OneConfirms` says that whoever has a plan
made it over no journal and is first in line for the scans with it. All of this (`Calm`) is kept
by every step but one: a `Settle` while a journal stands on the row. So the invariant (`IInv`) is
`Held`, which holds always (types, `OneHolds`, `MarkShared`, `OneSettles`, and `Loaded`: a run that
renames has a journal and is at one of its moves), and `Calm` until `supplanted`.

`FailuresBreak` says when that step can come. While nothing has failed (`AllEven`) nobody puts
back or ends early, whoever waits with a journal waits with the row's or with none left on it, and
a journal on the row with somebody inside has a run that settles, behind which no other may: the
one that was confirmed beside it resumes or goes on without settling. A rename back fails only
after a rename has.

`StraysStay` does not need `Calm`: `StrayApart` says that no row, no journal and no plan that a run
carries names a stray file. A plan is checked when it is built (`Settle`), and whatever a run
carries afterwards was built so or was read from the row (`PlansCarried`), even if another
confirmation's journal took its place there.

`Atomic` asks more than where files may be: that each is back at its row's number when the
journal goes. `Whole` is what must be added: `KeptBy` says that all but what a confirmed run has
moved itself (`undo`) is at its row's number, so that a refused run which put everything back
may clear the journal, and that the second phase leaves no temporary name behind it; `NoneLeft`
that a file under a temporary name is there by the journal on the row, so that a journal starts
with none; `OfAPlan` that what is written is a plan of the rows as they still are. Each action
keeps `Whole`, but a `PutBack` that fails, which is `stranded`. The steps then map to `Start` (the
journal is written), `Finish` (the commit), `GiveUp` (the journal is cleared), `Break` or a stutter
(`StepMaps`), crashes included.

*DownloadJob.* `BegunApart` needs `OpenIsFree`: a source that the loop has seen free stays
free until it begins there, because lanes only end meanwhile. `SettledOnce` needs `PendingOnce`
(a chapter is in the list or in a lane, never both, and in the list once) and `Accounts`
(what was told of a chapter is told by the place it is at). `WholeStays` needs
`AskedForNothingThere` (a lane is past its look at the disk only where nothing was) and
`CopyIsThere`; `FolderKept` needs `FolderFirst`.

*ProgressSync.* `NothingLost` needs that an event a flush is about to delete has landed
(`LandedIsThere`); `BackOnlyByALateQueue` needs `PlaceOfNewest` (the place is that of the event
that was written with the newest time) and `Stamps` (an event is queued with a time no earlier than its own,
and later than every page turned by then).

*Sessions.* Each token leads to the newest (`LeadsToNewest`, by a set closed under `next`, since
the chain's length cannot be induced over), only the newest can be live (`NewestLives`), and what
a request found stays true enough until it is answered: `AskedWithin`, `OvertakenYoung`,
`AnswerNewest`, `RecoversOld` and their like, one for each place a request can be at.

One rule of form in these modules comes from the prover: two fields of one record are
changed by an inner `EXCEPT` (`![x] = [@ EXCEPT !.a = .., !.b = ..]`) and never by two paths of
one `EXCEPT` at the same index, which `tlapm` 1.4.5 translates wrongly for its SMT backend.

**Only model-checked.** Every liveness property (`EveryWaiterRuns`, `BackToFullSpeed`, `NobodyWaitsForGood`,
`JournalFinishes`, `SweepEnds`, `JobGetsItsTurn`, `Finishes`, `Delivered`, `CatchesUp`),
since liveness under fairness and `ENABLED` are outside what the prover does; and what
`Component` computes beyond being closed and symmetric: that no group is joined that need not be
would be an induction along the chain.

## 6. Findings

Each is a run in which TLC finds a promise of the repository's own text broken by the steps
of the code.

1. **The last chapter is never begun** (`job_last_chapter`, `routes/sources.ts:805`).
   `pickCopy` passes a chapter over because a lane is on its own source, then awaits whether
   its other source may be asked. If that last lane ends during the read, the loop comes to
   its end with the chapter pending and nothing running, and breaks: "nothing could start and
   nothing is running: nothing ever will", says the comment at the line, but the source is
   free again. The job ends `done`, short of its total, with no reason given and nothing to
   try again.
2. **A page that failed is replayed as new** (`progress_rewind`, `web/lib/downloads.ts:392`).
   `queueProgress` stamps an entry with the time its ping failed, and both flushes send that
   as the time of the event. A ping that hung, or whose answer was lost, is then newer than
   what another device read meanwhile and moves the place back to it: "the newest event wins"
   (`progress.ts:44`), where "`at` is when the event happened, not when it arrived"
   (`progress.ts:38`).

## 7. Seen in the models, claimed by no property

Behaviours of the code that the models show or that were met while they were written. Where a module keeps
a definition that does not hold, it is named: giving it to TLC as a property shows the steps.

- *Gate*: the gap between starts is politeness. Two calls let in together start together,
  and a lane that empties forgets `nextFreeAt` (`gate.ts:68`).
- *Pace*: joining two keys can revive a level that was due to decay; a call queued under the
  old key runs outside the joined lane (`pace.ts:218`).
- *Renumber*: two confirmations that passed their test together may each write a journal,
  the later over one that the first left for a resume when it failed (`numbering.ts:778`): then
  files may be lost, a scan may mint a second row, and only `StrayKept` still holds. A refusal
  half-way "is put back as it was and reported, not left for a resume" says the comment at 555; each
  rename back has its failure swallowed (557) and the journal is cleared whatever came of them
  (711). What made the one rename fail, a share that went away for one, may make the others fail
  too: a file stays at its temporary name and no journal says so (`FilesWhereRowsSay`, with two
  failures). `BrokenByFailures` says that it takes those failures and nothing less, and
  `EveryFileOnce`, `NoSecondRow` and `Atomic` that nothing else breaks a renumber. A run may rename
  while nothing marks the folder: it takes no share of a mark that is somebody else's
  (`numbering.ts:741`), and that mark may go first (`repair.ts:1071`, 1211). Nothing in the
  properties rests on the mark: the hold on the scans keeps the runs apart. What the mark is for,
  a writer who comes in between, is FolderMarks' business.
- *Sweep*: after the disk is full one more series may start on each other lane (`stopNow`
  does not read `stopped`, `updater.ts:1107-1115`); the budget may stop a sweep early, since
  a series' reservation counts what it has spent once more; a series handed to a parked
  queue is not offered again; a lone held series is deferred and skipped in the same turn;
  the completion pass does not give way to a yield; and "each on its own image server"
  (`updater.ts:1151`) is true of what the lanes know when a visit begins: two that run may be joined
  meanwhile, and a source whose key was changed by the join can be begun beside itself.
- *FolderMarks*: the sweep's completion pass writes a chapter's file without asking for the
  folder or marking it (`updater.ts:1237`, `NobodyWritesBeside`), though "every other writer
  honours the one busy mark" (`updater.ts:1116`). A visit that is told the folder is held
  resumes a renumber on its caller's mark; `repair.ts:1071` stops waiting for the visit and takes
  the mark away (1211), and the files are renamed with nothing marked (`numbering.ts:741`,
  `RenamesUnderMark`). The archive chooses a chapter from a snapshot it took before it waited (`archive.ts:804`); a renumber
  taken back while it is being planned is still planned (`numbering.ts:277`); visits of a run that
  marked the folder do not ask who is inside, so two visits may download the same chapter.
- *Refetch*: a rename back that fails says nothing, and nothing tries again before the next boot
  (`admin.ts:3110`, `fsAtomic.ts:100`). An exception leaves the loop before the settle loop (`sources.ts:717`,
  `JobSettlesAll`), and the files stay set aside until the next boot. A shutdown between a
  landing and the scan leaves `pruned_at` on a chapter that is there (`server.ts:997`,
  `OnDiskReadsLive`). The reaper decides by a directory listing taken before it walks, so
  it can put an old copy over one that landed meanwhile, and removes half-writes of downloads
  that are alive; a refetch that lands with holes drops the whole old copy.
- *DownloadJob*: an exception in one lane lets the folder go while other lanes write
  (`sources.ts:857` against the comment at 237, `FolderKeptToTheEnd`). Lanes are begun on
  different servers, but one that turns to another copy may ask a server a lane is at, so "side
  by side only from different rate keys" (`sources.ts:631`, `AskedApart`) is true of what they
  begin with. A source may be refused once by each lane (`sources.ts:564`), and a
  chapter may be begun after a Cancel that came while the loop was reading (769).
- *ProgressSync*: what one person read is filed to another when the device changes hands under a
  flush, or before a ping fails (`downloads.ts:391-430`, `FiledToOwner`).
- *Sessions*: a refresh that was slow enough to be served after a recovered token was used is
  answered 401, which clears the cookie a live session stands on (`auth.ts:330`, against the comment at
  208-216; `NeverTurnedAway`). Signing every other device out keeps the token of this browser's
  cookie: if that one is behind, or is refreshed before the update, this session ends too
  (`routes/auth.ts:968-970`, `ThisDeviceStays`). Signing out while another tab refreshes may leave
  the new token alive (`auth.ts:569`; the history variable `over`). Revoking a session by the token a
  list showed revokes nothing when the device has refreshed since (`auth.ts:520`).

## 8. What is not modelled

- **Data**: page contents, image conversion, parsers, title matching, naming rules,
  languages. They change what is downloaded, not who may write when.
- **The database** beyond the rows named: every query is one atomic step that may fail where
  the code lets it. PostgreSQL's own guarantees are taken as given, but for the snapshot a
  statement that ends a session works on.
- **The file system** beyond names: a rename is atomic, a directory listing is a snapshot. Power
  loss that undoes a completed rename is not modelled.
- **Several processes**: the server is one process, and its marks are in memory.
- **Components** listed as `not_modelled` in `PROJECT.json`, each with its reason: either planned
  below, or pure I/O, external programs or judgement about data. The definitions stand for some
  3,700 lines of some hundred and eighty thousand: most of the rest is the user
  interface, adapters, translations of text, migrations, reports and queries, which keep no state that
  two actors could disagree about. What was chosen is where two actors meet over a folder, a row, a
  file, a queue or a cookie.
- Inside the modelled components:
  - *Pace*: the arithmetic of gaps and widths. *Renumber*: which posts a plan renumbers, the rows
    a commit moves beside the numbers, rows without a file, a plan that renames nothing. *ScanHold*: what a scan writes.
    *Sweep, FolderMarks*: what a visit downloads, the archive's choice of chapter.
  - *DownloadJob*: the cards, what the tail stamps and hands on, the sweep's own options of the fallback
    (`admit`, `hunt`, `persistent`, `acceptPartial`), and the extra copies a download may choose from.
    A source that is unfollowed under the job is, to an unpinned copy, what a blocked one is (`blocked`), and to a
    picked one what a source switched off is (`off`).
  - *ProgressSync*: one tab, one chapter. Clocks agree and are not corrected (`eventTime`); no
    Incognito reading, no marks set by hand (`silent`: a chapter marked unread by hand is read again by a
    finish that was queued before); tokens are renewed in time; the worker does not forget whom it was told of; a
    request under way when the app is closed has landed by then or never does.
  - *Sessions*: one browser with one cookie, one sign-in. A request and the answer it races take less
    than the grace, a lost answer is redeemed within `REFRESH_RECOVER_MS`, nothing expires, no chain
    comes to `CHAIN_MAX` and none of the retries to its limit; `revokeAllSessions` is one step.
    Sessions opened from another, those kept to the local network, resuming, switching, remembered
    sessions and disabled accounts are left out, and so is the third step of `planRefresh`, which
    only two holders of one session come to.

## 9. Plan

Order: what can destroy a file first, what keeps actors apart second, what paces them third, and then
the reader's side. Done: Gate, Pace, ScanHold over ScanService, Renumber over AtomicRenumber,
Sweep, FolderMarks, Refetch, DownloadJob with its fallback, ProgressSync, Sessions, and proofs for
all ten.

What is left, in this order:

1. **Archive**: the scheduler of the slow archive, slots, breaks and the backoff of a rate key,
   composed with Pace's levels; liveness: it always goes on.
2. **SourceHealth**: cooldowns and the watchdog, which Sweep and DownloadJob take as environment.
3. **Rescan**: preview and Apply, with tombstones; **PageFetch**: one chapter's pages and the
   completion of a partial file; **Visit**: which chapters a visit fetches, and from where.

The number of runs is kept to one per question. A later module's violation run, or a run whose
properties are all proved, may replace one of today's.
