----------------------------- MODULE DownloadJob -----------------------------
(***************************************************************************)
(* One download job: the chapters of a Fetch, a fill or a refetch come in  *)
(* over a few lanes (routes/sources.ts startDownloadJob), each chapter by  *)
(* every way it can still land: the copy it starts with, the same number   *)
(* from another followed source, and at last the chapter with holes in it  *)
(* (lib/chapterFallback.ts downloadWithFallback).  The loop that fills the *)
(* lanes awaits the database for every source it considers, while the      *)
(* lanes go on; sources refuse, are switched off and cool down meanwhile.  *)
(*                                                                         *)
(* One step is what happens between two awaits.  A download is its answer  *)
(* (lib/downloader.ts); how long it queues at the source's gate is the     *)
(* business of Gate and Pace.  A job has no `admit` and never hunts.       *)
(***************************************************************************)
EXTENDS Naturals, FiniteSets, SequencesExt

CONSTANTS
    Chapters,
    Given,          \* what the job was given, in order
    OnDisk,         \* those whose file may be there already
    Pinned,         \* the copies a person picked by name
    Sources,        \* those the chapters name and the series follows
    Key,            \* Key[s]: the image server a source is on (rateKeyOf)
    Listing,        \* Listing[c]: the sources of the number's copies, best first
    Rotas,          \* the choices of copiesOf: rota[c][1] is the chapter's own copy
    JobLanes,       \* JOB_LANES
    MaxAlternates,  \* MAX_ALTERNATES, or the follow limit where that is lower
    None,
    MaxChanges,     \* bounds what an admin, or the time, changes under the job
    MaxThrows       \* bounds the queries and writes that fail unexpectedly

ASSUME JobAssumption ==
    /\ Given \in Seq(Chapters)
    /\ \A c \in Chapters : \E i \in 1 .. Len(Given) : Given[i] = c
    /\ \A i, j \in 1 .. Len(Given) : Given[i] = Given[j] => i = j
    /\ OnDisk \subseteq Chapters /\ Pinned \subseteq Chapters
    /\ None \notin Sources /\ IsFiniteSet(Sources)
    /\ Listing \in [Chapters -> Seq(Sources)]
    /\ \A r \in Rotas : /\ r \in [Chapters -> Seq(Sources)]
                        /\ \A c \in Chapters : Len(r[c]) >= 1
                        /\ \A c \in Pinned : Len(r[c]) = 1
    /\ JobLanes \in Nat \ {0} /\ MaxAlternates \in Nat
    /\ MaxChanges \in Nat /\ MaxThrows \in Nat

VARIABLES
    rota,       \* copiesOf with the chapter's own copy first: fixed from the start
    there,      \* the chapters whose file was there at the start: fixed too
    pending,    \* the chapters no lane has begun
    lane,       \* lane[c]: runOne and tryEachCopy for the chapter
    told,       \* told[c]: what onSettled heard of it
    file,       \* file[c]: "none", "whole" or "holes"
    refusing,   \* the sources that have refused this job
    off, cold,  \* switched off; in a cooldown
    blocked,    \* the release rules block the source's copies
    hidden,     \* the numbers an admin hid
    loop,       \* the loop that fills the lanes
    held,       \* busyFolders: another writer is in the folder
    active,     \* activeJobFolders: the job's own hold on the folder
    cancel, stop,
    thrown,     \* history: a chapter's code threw
    changes, throws

vars == <<rota, there, pending, lane, told, file, refusing, off, cold, blocked, hidden, loop, held,
          active, cancel, stop, thrown, changes, throws>>
world == <<off, cold, blocked, hidden, changes>>
ends  == <<held, active, cancel, thrown, throws>>

NoLane == [pc |-> "none", on |-> None, via |-> None, src |-> None, i |-> 0, tried |-> 0,
           hold |-> None]

LanePc == {"none", "start", "door", "asking", "next", "hold", "over"}
LaneState == [pc : LanePc, on : Sources \cup {None}, via : Sources \cup {None},
              src : Sources \cup {None}, i : Nat, tried : Nat, hold : Sources \cup {None}]
LoopPc == {"wait", "round", "look", "race", "tail", "end"}
LoopState == [pc : LoopPc, i : Nat \ {0}, k : Nat \ {0}, open : SUBSET Sources, may : SUBSET Sources,
              read : SUBSET Sources, on : SUBSET Chapters]

TypeOK ==
    /\ rota \in Rotas /\ there \subseteq OnDisk /\ pending \in Seq(Chapters)
    /\ lane \in [Chapters -> LaneState]
    /\ told \in [Chapters -> Seq(BOOLEAN)]
    /\ file \in [Chapters -> {"none", "whole", "holes"}]
    /\ refusing \subseteq Sources /\ off \subseteq Sources /\ cold \subseteq Sources
    /\ blocked \subseteq Sources /\ hidden \subseteq Chapters
    /\ loop \in LoopState
    /\ held \in BOOLEAN /\ active \in BOOLEAN /\ cancel \in BOOLEAN /\ stop \in BOOLEAN
    /\ thrown \in BOOLEAN
    /\ changes \in 0 .. MaxChanges /\ throws \in 0 .. MaxThrows

\* The loop where it looks at no chapter.
Rest(pc, on) == [pc |-> pc, i |-> 1, k |-> 1, open |-> {}, may |-> {}, read |-> {}, on |-> on]

Init ==
    /\ rota \in Rotas
    /\ pending = Given
    /\ lane = [c \in Chapters |-> NoLane]
    /\ told = [c \in Chapters |-> <<>>]
    /\ there \in SUBSET OnDisk
    /\ file = [c \in Chapters |-> IF c \in there THEN "whole" ELSE "none"]
    /\ refusing = {} /\ off = {} /\ cold = {} /\ blocked = {} /\ hidden = {}
    /\ loop = Rest("wait", {})
    /\ held \in BOOLEAN /\ active = TRUE
    /\ cancel = FALSE /\ stop = FALSE
    /\ thrown = FALSE
    /\ changes = 0 /\ throws = 0

-----------------------------------------------------------------------------
(* What the lanes and the loop read *)

Running == {c \in Chapters : lane[c].pc \notin {"none", "over"}}
Lanes == IF \E c \in Chapters : Len(rota[c]) > 1 THEN JobLanes ELSE 1
Halted == stop \/ cancel
Exhausted == Sources \subseteq refusing

\* By the server of the source the lane was begun on, whatever it asks by now.
LaneAsking(s) == \E c \in Running : lane[c].src # None /\ Key[lane[c].src] = Key[s]
LaneOn(s) == \E c \in Running : Key[lane[c].on] = Key[s]

\* What `may` reads when it is first asked for a source in a round.
MayNow == Sources \ (refusing \cup off \cup cold)

\* A source is not begun with, nor turned to, while it refuses this job or is switched off.
NotAsked == refusing \cup off

RoomForMore == Cardinality(Running) + 1 < Lanes

Own(c) == rota[c][1]
Blocks(c) == IF c \in Pinned THEN {} ELSE blocked

-----------------------------------------------------------------------------
(* The loop *)

\* The folder is waited for; a job that was stopped meanwhile goes straight to its end.
FolderAtOnce ==                                                     \* mutant
    /\ loop.pc = "wait" /\ loop' = Rest("round", {})
    /\ UNCHANGED <<rota, there, pending, lane, told, file, refusing, world, ends, stop>>
Folder ==
    /\ loop.pc = "wait" /\ (~held \/ Halted)
    /\ loop' = Rest("round", {})
    /\ UNCHANGED <<rota, there, pending, lane, told, file, refusing, world, ends, stop>>

NewRound ==
    /\ loop.pc = "round"
    /\ loop' = IF pending # <<>> /\ ~Halted
               THEN Rest("look", {}) ELSE Rest("tail", {})
    /\ UNCHANGED <<rota, there, pending, lane, told, file, refusing, world, ends, stop>>

\* A lane is begun; the loop looks for another in the same turn, or waits for one.
Begin(c, s, l) ==
    LET rest == RemoveAt(pending, loop.i)
    IN  /\ pending' = rest
        /\ lane' = [lane EXCEPT ![c] = [@ EXCEPT !.pc = "start", !.on = s]]
        /\ loop' = IF RoomForMore /\ rest # <<>> /\ ~Halted
                   THEN [l EXCEPT !.i = 1, !.k = 1, !.open = {}]
                   ELSE Rest("race", Running \cup {c})

Passes(l) == loop' = [l EXCEPT !.i = @ + 1, !.k = 1, !.open = {}] /\ UNCHANGED <<pending, lane>>

\* Nothing may begin now: the loop waits for a lane, or ends where none is running.
LookedOnly == Rest("race", Running)                                   \* mutant
Looked == IF Running = {} THEN Rest("tail", {}) ELSE Rest("race", Running)

\* A chapter with no other copies: its own, unless a lane is on that server.  Nothing is
\* awaited before the first one, so a job that was stopped stops there.
LookAtOne ==
    /\ loop.pc = "look" /\ loop.i <= Len(pending)
    /\ LET c == pending[loop.i]
       IN  /\ Len(rota[c]) = 1
           /\ IF loop.i = 1 /\ Halted THEN loop' = Looked /\ UNCHANGED <<pending, lane>>
              ELSE IF LaneOn(Own(c)) THEN Passes(loop) ELSE Begin(c, Own(c), loop)
    /\ UNCHANGED <<rota, there, told, file, refusing, world, ends, stop>>

\* One copy of the chapter: the read is awaited, and the lanes are looked at after it.
\* Of the copies seen free any may be the best one: which is slow is the pace's to say.
LookAtCopy ==
    /\ loop.pc = "look" /\ loop.i <= Len(pending)
    /\ LET c == pending[loop.i]
           s == rota[c][loop.k]
           may == IF s \in loop.read THEN loop.may ELSE loop.may \cup (MayNow \cap {s})
           free == loop.open \cup (IF s \in may /\ ~LaneOn(s) THEN {s} ELSE {})
           l == [loop EXCEPT !.read = @ \cup {s}, !.may = may, !.open = free]
       IN  /\ Len(rota[c]) > 1
           /\ IF loop.k < Len(rota[c])
              THEN loop' = [l EXCEPT !.k = @ + 1] /\ UNCHANGED <<pending, lane>>
              ELSE \/ \E best \in free : Begin(c, best, l)
                   \/ /\ free = {}
                      /\ IF LaneOn(Own(c)) \/ \E j \in 1 .. Len(rota[c]) : rota[c][j] \in may
                         THEN Passes(l) ELSE Begin(c, Own(c), l)
    /\ UNCHANGED <<rota, there, told, file, refusing, world, ends, stop>>

LookEnds ==
    /\ loop.pc = "look" /\ loop.i > Len(pending)
    /\ loop' = Looked
    /\ UNCHANGED <<rota, there, pending, lane, told, file, refusing, world, ends, stop>>

\* A lane the loop waited for has ended.
LaneEnded ==
    /\ loop.pc = "race" /\ ~(loop.on \subseteq Running)
    /\ loop' = Rest("round", {})
    /\ UNCHANGED <<rota, there, pending, lane, told, file, refusing, world, ends, stop>>

NotWritten(c) == file[c] = "none"
InPending(c) == \E i \in 1 .. Len(pending) : pending[i] = c

\* Every lane has ended: the chapters never begun are settled, and the folder is let go.
JobEnds ==
    /\ loop.pc = "tail" /\ Running = {}
    /\ told' = [c \in Chapters |-> IF InPending(c) THEN Append(told[c], FALSE) ELSE told[c]]
    /\ loop' = Rest("end", {}) /\ active' = FALSE
    /\ UNCHANGED <<rota, there, pending, lane, file, refusing, world, held, cancel, stop, thrown,
                   throws>>

-----------------------------------------------------------------------------
(* A lane: runOne, and every copy in its turn *)

At(c, pc) == lane[c].pc = pc
Goes(c, pc) == lane' = [lane EXCEPT ![c].pc = pc]

\* The chapter is settled and the lane is over; the job stops where no source is left to it.
Ends(c, landed) ==
    /\ lane' = [lane EXCEPT ![c] = [NoLane EXCEPT !.pc = "over"]]
    /\ told' = [told EXCEPT ![c] = Append(@, landed)]
Settles(c, landed) == Ends(c, landed) /\ stop' = (stop \/ Exhausted)

\* The copy to start with: the lane's own, or the best open one where the rules block it now.
Open(c) == {j \in 1 .. Len(Listing[c]) : Listing[c][j] \notin blocked}
Start(c) == IF lane[c].on \notin Blocks(c) THEN {lane[c].on}
            ELSE IF Open(c) = {} THEN {None}
            ELSE {Listing[c][j] : j \in {j \in Open(c) : \A k \in Open(c) : j <= k}}

\* A copy's turn: a file already under the number's name ends the chapter, else it queues.
Queue(c, s, i, via) ==
    /\ lane' = [lane EXCEPT ![c] = [@ EXCEPT !.pc = "door", !.src = s, !.i = i, !.via = via]]
    /\ UNCHANGED <<told, stop>>
Attempt(c, s, i, via) ==
    IF file[c] # "none" THEN Settles(c, FALSE)
    ELSE Queue(c, s, i, via)

Choose(c) ==
    /\ At(c, "start")
    /\ \E via \in Start(c) :
          \/ via = None /\ Ends(c, FALSE) /\ UNCHANGED stop
          \/ via # None /\ c \in hidden /\ Settles(c, FALSE)
          \/ /\ via # None /\ c \notin hidden /\ via \in NotAsked
             /\ lane' = [lane EXCEPT ![c] = [@ EXCEPT !.pc = "next", !.via = via]]
             /\ UNCHANGED <<told, stop>>
          \/ /\ via # None /\ c \notin hidden /\ via \notin NotAsked
             /\ Attempt(c, via, 0, via)
    /\ UNCHANGED <<rota, there, pending, file, refusing, world, loop, ends>>

\* The source's slot opens: what may have changed in the queue is read again.
Door(c) ==
    /\ At(c, "door")
    /\ LET s == lane[c].src
       IN  \/ c \in hidden /\ Settles(c, FALSE)
           \/ /\ c \notin hidden /\ s \in Blocks(c) \cup off \cup cold
              /\ Goes(c, "next") /\ UNCHANGED <<told, stop>>
           \/ /\ c \notin hidden /\ s \notin Blocks(c) \cup off \cup cold
              /\ lane' = [lane EXCEPT ![c] =
                             [@ EXCEPT !.pc = "asking",
                                       !.tried = lane[c].tried + IF s = lane[c].via THEN 0 ELSE 1]]
              /\ UNCHANGED <<told, stop>>
    /\ UNCHANGED <<rota, there, pending, file, refusing, world, loop, ends>>

\* A whole chapter ends the source's cooldown (reportOk).
Land(c) ==
    /\ At(c, "asking")
    /\ file' = [file EXCEPT ![c] = "whole"]
    /\ cold' = cold \ {lane[c].src}
    /\ Settles(c, TRUE)
    /\ UNCHANGED <<rota, there, pending, refusing, off, blocked, hidden, changes, loop, ends>>

\* The copy failed.  A refusal, or the connection gone under most of it, takes the source out of
\* the job and puts it in a cooldown (reportFail), and some other failures do the latter; a copy
\* with few holes is offered, and kept where it has the fewest so far.  A whole copy that cannot
\* be written has ended the cooldown all the same (reportOk), and offers nothing.
Fail(c) ==
    /\ At(c, "asking")
    /\ LET s == lane[c].src
       IN  \E best \in {lane[c].hold, s} :
              /\ lane' = [lane EXCEPT ![c] = [@ EXCEPT !.pc = "next", !.hold = best]]
              /\ \/ refusing' = refusing \cup {s} /\ cold' = cold \cup {s}
                 \/ cold' \in {cold, cold \cup {s}} /\ UNCHANGED refusing
                 \/ cold' = cold \ {s} /\ best = lane[c].hold /\ UNCHANGED refusing
    /\ UNCHANGED <<rota, there, pending, told, file, off, blocked, hidden, changes, loop, ends, stop>>

\* The disk is at its floor before the copy queues (assertFreeSpace): no other source can help,
\* and nothing more is begun.
DiskFull(c) ==
    /\ At(c, "door") /\ throws < MaxThrows
    /\ throws' = throws + 1 /\ stop' = TRUE /\ Ends(c, FALSE)
    /\ UNCHANGED <<rota, there, pending, file, refusing, world, loop, held, active, cancel, thrown>>

\* Of the copies still listed, those that may be asked: not the chosen one's source again.
Askable(c) == {j \in 1 .. Len(Listing[c]) :
                  /\ j > lane[c].i
                  /\ Listing[c][j] # lane[c].via
                  /\ Listing[c][j] \notin NotAsked \cup cold \cup blocked}

\* The next followed source of the number.  A picked copy has none, and there is an end to them.
Alternate(c) ==
    /\ At(c, "next")
    /\ \/ /\ c \notin Pinned /\ lane[c].tried < MaxAlternates
          /\ \E j \in Askable(c) :
                /\ \A k \in Askable(c) : j <= k
                /\ Attempt(c, Listing[c][j], j, lane[c].via)
       \/ /\ c \in Pinned \/ lane[c].tried >= MaxAlternates \/ Askable(c) = {}
          /\ Goes(c, "hold") /\ UNCHANGED <<told, stop>>
    /\ UNCHANGED <<rota, there, pending, file, refusing, world, loop, ends>>

\* Nothing landed whole: the best copy with holes is written, unless its source may no longer be
\* taken from (a cooldown does not matter here: nothing is asked for).
Hold(c) ==
    /\ At(c, "hold")
    /\ LET best == lane[c].hold
       IN  \/ best = None /\ Settles(c, FALSE) /\ UNCHANGED file
           \/ best # None /\ c \in hidden /\ Settles(c, FALSE) /\ UNCHANGED file
           \/ /\ best # None /\ c \notin hidden /\ best \in Blocks(c) \cup off
              /\ Settles(c, FALSE) /\ UNCHANGED file
           \/ /\ best # None /\ c \notin hidden /\ best \notin Blocks(c) \cup off
              /\ file' = [file EXCEPT ![c] = "holes"] /\ Settles(c, TRUE)
    /\ UNCHANGED <<rota, there, pending, refusing, world, loop, ends>>

\* A query of the release rules, or the write of the holes, fails: runOne throws and settles
\* nothing.  Where the loop waits for that lane, the job is over at once and lets the folder go,
\* whatever the other lanes are doing; where it does not, nobody hears of it.
Throw(c) ==
    /\ At(c, "start") \/ (At(c, "hold") /\ lane[c].hold # None)
    /\ throws < MaxThrows
    /\ lane' = [lane EXCEPT ![c] = [NoLane EXCEPT !.pc = "over"]]
    /\ thrown' = TRUE /\ throws' = throws + 1
    /\ IF loop.pc = "tail" \/ (loop.pc = "race" /\ c \in loop.on)
       THEN loop' = Rest("end", {}) /\ active' = FALSE
       ELSE UNCHANGED <<loop, active>>
    /\ UNCHANGED <<rota, there, pending, told, file, refusing, world, held, cancel, stop>>

-----------------------------------------------------------------------------
(* The world around the job *)

Still == UNCHANGED <<rota, there, pending, lane, told, file, refusing, loop, active, stop, thrown,
                     throws>>

OtherLetsGo == held /\ held' = FALSE /\ Still /\ UNCHANGED <<world, cancel>>

\* Once the loop is left a Cancel changes only what the card says.
Cancel ==
    /\ loop.pc \notin {"tail", "end"} /\ ~cancel /\ cancel' = TRUE
    /\ Still /\ UNCHANGED <<world, held>>

Unsettled == {c \in Chapters : lane[c].pc # "over"}

\* A source is switched off, its copies are blocked, its cooldown ends, or a number is hidden.
Change ==
    /\ Unsettled # {} /\ changes < MaxChanges /\ changes' = changes + 1
    /\ \/ \E s \in Sources \ off : off' = off \cup {s} /\ UNCHANGED <<cold, blocked, hidden>>
       \/ \E s \in Sources \ blocked : blocked' = blocked \cup {s} /\ UNCHANGED <<off, cold, hidden>>
       \/ \E s \in cold : cold' = cold \ {s} /\ UNCHANGED <<off, blocked, hidden>>
       \/ \E c \in Unsettled \ hidden : hidden' = hidden \cup {c} /\ UNCHANGED <<off, cold, blocked>>
    /\ Still /\ UNCHANGED <<held, cancel>>

-----------------------------------------------------------------------------
Loop == Folder \/ NewRound \/ LookAtOne \/ LookAtCopy \/ LookEnds \/ LaneEnded \/ JobEnds
Lane(c) ==
    \/ Choose(c) \/ Door(c) \/ Land(c) \/ Fail(c) \/ DiskFull(c) \/ Alternate(c) \/ Hold(c)
    \/ Throw(c)

Next ==
    \/ Loop \/ OtherLetsGo \/ Cancel \/ Change
    \/ \E c \in Chapters : Lane(c)

\* A source answers or its request times out, the database answers, and the other writer is done
\* some time.  Nothing makes anybody cancel or change anything.
Spec ==
    /\ Init /\ [][Next]_vars
    /\ WF_vars(Loop) /\ WF_vars(OtherLetsGo)
    /\ \A c \in Chapters : WF_vars(Lane(c))

-----------------------------------------------------------------------------
(* Safety *)

\* Two lanes are begun on copies of two image servers, though the loop looks at the lanes and the
\* sources one await after another while lanes end (sources.ts:646, pickCopy).
BegunApart == \A c, d \in Running : c # d => Key[lane[c].on] # Key[lane[d].on]

\* The hook hears of a chapter once at most, that it landed exactly when the job wrote it, and of
\* every chapter by the time a job ends in which nothing threw.
SettledOnce ==
    /\ \A c \in Chapters :
          /\ Len(told[c]) <= 1
          /\ told[c] = <<TRUE>> <=> file[c] # (IF c \in there THEN "whole" ELSE "none")
    /\ loop.pc = "end" /\ ~thrown => \A c \in Chapters : Len(told[c]) = 1

\* While nothing threw, a lane that runs has the folder to itself.
FolderKept == Running # {} /\ ~thrown => active /\ ~held

\* A file that is whole is never written over with holes, however late a hold is written.
WholeStays == [][\A c \in Chapters : file[c] = "whole" => file'[c] = "whole"]_vars

(* Liveness *)

\* A job ends, and with it every chapter begun, whatever refuses and whoever had the folder.
Finishes == <>(loop.pc = "end" /\ Running = {})

(* What the code's comments say, and the code does not do *)

\* "nothing could start and nothing is running: nothing ever will" (sources.ts:805).
EveryChapterBegun ==
    loop.pc = "end" /\ ~Halted /\ ~thrown => \A c \in Chapters : lane[c].pc # "none"

\* A job's folder is its own "until its detached tail ... is finished" (sources.ts:237).
FolderKeptToTheEnd == Running # {} => active

\* "the chapters of one Fetch come in side by side only from different rate keys" (sources.ts:631).
AskedApart ==
    \A c, d \in Chapters : c # d /\ At(c, "asking") /\ At(d, "asking")
        => Key[lane[c].src] # Key[lane[d].src]
=============================================================================
