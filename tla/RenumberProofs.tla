--------------------------- MODULE RenumberProofs ---------------------------
(***************************************************************************)
(* Proofs about Renumber, for any chapters, numbers, plans and visits, and *)
(* any number of confirmations under way at once, of crashes and of        *)
(* renames and queries that fail.                                          *)
(***************************************************************************)
EXTENDS Renumber, FiniteSetTheorems, SequenceTheorems, TLAPS

Holding == {"reread", "first", "undo", "second", "through", "end"}

\* Whoever renames, or is about to, holds the scans, and no scan goes on meanwhile.
OneHolds ==
    /\ \A r \in Runs : run[r].pc \in Holding <=> held = r
    /\ held # NoRun => scan = NotScanning

\* Those in line wait, and only those who wait or rename share the mark.
MarkShared ==
    /\ \A i \in 1 .. Len(line) : run[line[i]].pc = "wait"
    /\ \A i, k \in 1 .. Len(line) : line[i] = line[k] => i = k
    /\ \A r \in Runs : r \in share => run[r].pc \in InJournal
    /\ share # {} => marked

\* Whoever has a plan of its own, until its journal ends, is the one that settles.
Settling(r) == run[r].pc = "built" \/ (run[r].own /\ run[r].pc \in InJournal)
OneSettles == \A r \in Runs : Settling(r) => settling = r

\* The run that settles: with nothing left half-way until its own journal is written, and
\* first in line for the scans from then on.
OneConfirms ==
    /\ \A r \in Runs : run[r].pc = "built" => held = NoRun /\ line = <<>> /\ journal = NoJournal
    /\ \A r \in Runs : run[r].pc = "wait" /\ run[r].own =>
          /\ line # <<>> /\ line[1] = r /\ held = NoRun
          /\ journal = run[r].j /\ journal # NoJournal /\ journal.phase = "rename"

\* A plan renames the rows' numbers one to one, and no stray file is in its way.
Sound(j) ==
    /\ j \in Journals
    /\ j.id <= lastId
    /\ j.from = number
    /\ \A a, b \in Books : j.to[a] = j.to[b] => a = b
    /\ \A b \in Books : disk[File(j.to[b])] # Stray

Plans ==
    /\ \A a, b \in Books : number[a] = number[b] => a = b
    /\ \A b \in Books : disk[File(number[b])] # Stray
    /\ journal # NoJournal => Sound(journal)
    /\ \A r \in Runs : run[r].pc = "built" =>
          /\ Sound(run[r].j) /\ run[r].j.phase = "rename" /\ run[r].j.id = lastId
          /\ \A p \in Places : disk[<<p, lastId>>] = None

\* A run that renames runs the journal on the row, at the phase it is in.
CarriedBy(r) ==
    /\ run[r].pc \in {"first", "undo", "second"} => journal # NoJournal /\ run[r].j = journal
    /\ run[r].pc \in {"first", "undo"} => journal.phase = "rename"
    /\ run[r].pc = "second" => journal.phase = "final"
    /\ run[r].pc = "first" =>
          \A b \in Renamed(journal) : b < run[r].at => disk[File(journal.from[b])] = None
    /\ run[r].pc \in {"first", "undo"} =>
          \A b \in run[r].undo : b \in Renamed(journal) /\ disk[Temp(journal, b)] = b
    /\ run[r].pc \notin {"first", "undo", "second", "through", "end"} => run[r].undo = {}
    /\ run[r].pc = "reread" => run[r].at = 1
    /\ run[r].pc \in {"first", "second"} => run[r].at >= 1

Carries == \A r \in Runs : CarriedBy(r)

\* Where a chapter's file may be: at the number of its row, at its new one once the journal
\* is in its last phase, or at a temporary name.
NumberOf(b) == IF journal # NoJournal /\ journal.phase = "final" THEN journal.to[b] ELSE number[b]

Placed ==
    /\ \A p \in Places : disk[File(p)] \in Books => p = NumberOf(disk[File(p)])
    /\ \A p \in Places : \A i \in Ids : disk[<<p, i>>] # None =>
          /\ i <= lastId
          /\ disk[<<p, i>>] \in Books
          /\ journal # NoJournal /\ i = journal.id =>
                disk[<<p, i>>] \in Renamed(journal) /\ p = journal.from[disk[<<p, i>>]]

\* Every file is under one name.
Once ==
    /\ \A n, m \in Names : disk[n] = disk[m] /\ disk[n] # None => n = m
    /\ \A b \in Books : \E n \in Names : disk[n] = b

\* What a scan listed is there still.
ScanTrue == scan # NotScanning => \A p \in Places : scan[p] = disk[File(p)]

NotMinted == ~minted

Calm == OneConfirms /\ Plans /\ Carries /\ Placed /\ Once /\ ScanTrue /\ NotMinted

(* What a step does to one run, and what a rename does to the disk.        *)
LEMMA RunMoves ==
    ASSUME run \in [Runs -> RunType], NEW r \in Runs, NEW v \in RunType, run' = [run EXCEPT ![r] = v]
    PROVE  /\ run' \in [Runs -> RunType]
           /\ run'[r] = v /\ \A s \in Runs : s # r => run'[s] = run[s]
  OBVIOUS

Pcs == {"idle", "asked", "resume", "inside", "built"} \cup InJournal

LEMMA StepPc ==
    ASSUME run \in [Runs -> RunType], NEW r \in Runs, NEW w, NEW pc \in Pcs,
           w = [run[r] EXCEPT !.pc = pc],
           run' = [run EXCEPT ![r] = w]
    PROVE  /\ run' \in [Runs -> RunType] /\ \A s \in Runs : s # r => run'[s] = run[s]
           /\ run'[r].pc = pc /\ run'[r].j = run[r].j /\ run'[r].sure = run[r].sure
           /\ run'[r].own = run[r].own /\ run'[r].at = run[r].at /\ run'[r].undo = run[r].undo
  <1> DEFINE v == run[r]
  <1>1. v \in RunType /\ v = run[r] /\ w = [v EXCEPT !.pc = pc]
    OBVIOUS
  <1> HIDE DEF v
  <1>2. /\ w \in RunType
        /\ w.pc = pc /\ w.j = v.j /\ w.sure = v.sure
        /\ w.own = v.own /\ w.at = v.at /\ w.undo = v.undo
    BY <1>1 DEF RunType, Pcs, InJournal
  <1> QED BY <1>1, <1>2, RunMoves

\* Run r is changed, and keeps its confirmation.
Became(r, pc, j, own, at, undo) ==
    /\ run' \in [Runs -> RunType] /\ \A s \in Runs : s # r => run'[s] = run[s]
    /\ run'[r].pc = pc /\ run'[r].j = j /\ run'[r].sure = run[r].sure
    /\ run'[r].own = own /\ run'[r].at = at /\ run'[r].undo = undo

LEMMA WentTo ==
    ASSUME run \in [Runs -> RunType], NEW r \in Runs, NEW pc \in Pcs, GoTo(r, pc)
    PROVE  Became(r, pc, run[r].j, run[r].own, run[r].at, run[r].undo)
  <1> DEFINE w == [run[r] EXCEPT !.pc = pc]
  <1>1. w = [run[r] EXCEPT !.pc = pc] /\ run' = [run EXCEPT ![r] = w]
    BY DEF GoTo
  <1> HIDE DEF w
  <1> QED BY <1>1, StepPc DEF Became

LEMMA StepSure ==
    ASSUME run \in [Runs -> RunType], NEW r \in Runs, NEW w,
           w = [run[r] EXCEPT !.pc = "asked", !.sure = TRUE],
           run' = [run EXCEPT ![r] = w]
    PROVE  /\ run' \in [Runs -> RunType] /\ \A s \in Runs : s # r => run'[s] = run[s]
           /\ run'[r].pc = "asked" /\ run'[r].j = run[r].j /\ run'[r].sure = TRUE
           /\ run'[r].own = run[r].own /\ run'[r].at = run[r].at /\ run'[r].undo = run[r].undo
  <1> DEFINE v == run[r]
  <1>1. v \in RunType /\ v = run[r] /\ w = [v EXCEPT !.pc = "asked", !.sure = TRUE]
    OBVIOUS
  <1> HIDE DEF v
  <1>2. /\ w \in RunType
        /\ w.pc = "asked" /\ w.j = v.j /\ w.sure = TRUE
        /\ w.own = v.own /\ w.at = v.at /\ w.undo = v.undo
    BY <1>1 DEF RunType, Pcs, InJournal
  <1> QED BY <1>1, <1>2, RunMoves

SetBuilt(r, i) == run' = [run EXCEPT ![r] = [@ EXCEPT !.pc = "built", !.j = i]]

LEMMA SetBuiltStep ==
    ASSUME run \in [Runs -> RunType], NEW r \in Runs, NEW i \in Journals \cup {NoJournal}, SetBuilt(r, i)
    PROVE  /\ run' \in [Runs -> RunType] /\ \A s \in Runs : s # r => run'[s] = run[s]
           /\ run'[r].pc = "built" /\ run'[r].j = i /\ run'[r].sure = run[r].sure
           /\ run'[r].undo = run[r].undo
  <1> DEFINE v == run[r]
             w == [v EXCEPT !.pc = "built", !.j = i]
  <1>1. v \in RunType /\ v = run[r] /\ w = [v EXCEPT !.pc = "built", !.j = i] /\ run' = [run EXCEPT ![r] = w]
    BY DEF SetBuilt
  <1> HIDE DEF v, w
  <1>2. /\ w \in RunType
        /\ w.pc = "built" /\ w.j = i /\ w.sure = v.sure
        /\ w.undo = v.undo
    BY <1>1 DEF RunType, Pcs, InJournal
  <1> QED BY <1>1, <1>2, RunMoves

LEMMA StepOwn ==
    ASSUME run \in [Runs -> RunType], NEW r \in Runs, NEW w, NEW i \in Journals \cup {NoJournal}, NEW o \in BOOLEAN,
           w = [run[r] EXCEPT !.pc = "wait", !.j = i, !.own = o],
           run' = [run EXCEPT ![r] = w]
    PROVE  /\ run' \in [Runs -> RunType] /\ \A s \in Runs : s # r => run'[s] = run[s]
           /\ run'[r].pc = "wait" /\ run'[r].j = i /\ run'[r].sure = run[r].sure
           /\ run'[r].own = o /\ run'[r].at = run[r].at /\ run'[r].undo = run[r].undo
  <1> DEFINE v == run[r]
  <1>1. v \in RunType /\ v = run[r] /\ w = [v EXCEPT !.pc = "wait", !.j = i, !.own = o]
    OBVIOUS
  <1> HIDE DEF v
  <1>2. /\ w \in RunType
        /\ w.pc = "wait" /\ w.j = i /\ w.sure = v.sure
        /\ w.own = o /\ w.at = v.at /\ w.undo = v.undo
    BY <1>1 DEF RunType, Pcs, InJournal
  <1> QED BY <1>1, <1>2, RunMoves

SetPcAt(r, pc, a) == run' = [run EXCEPT ![r] = [@ EXCEPT !.pc = pc, !.at = a]]

LEMMA SetPcAtStep ==
    ASSUME run \in [Runs -> RunType], NEW r \in Runs, NEW pc \in Pcs, NEW a \in 0 .. NBooks + 1, SetPcAt(r, pc, a)
    PROVE  Became(r, pc, run[r].j, run[r].own, a, run[r].undo)
  <1> DEFINE v == run[r]
             w == [v EXCEPT !.pc = pc, !.at = a]
  <1>1. v \in RunType /\ v = run[r] /\ w = [v EXCEPT !.pc = pc, !.at = a] /\ run' = [run EXCEPT ![r] = w]
    BY DEF SetPcAt
  <1> HIDE DEF v, w
  <1>2. /\ w \in RunType
        /\ w.pc = pc /\ w.j = v.j /\ w.sure = v.sure
        /\ w.own = v.own /\ w.at = a /\ w.undo = v.undo
    BY <1>1 DEF RunType, Pcs, InJournal
  <1> QED BY <1>1, <1>2, RunMoves DEF Became

SetJournal(r, i, pc) == run' = [run EXCEPT ![r] = [@ EXCEPT !.j = i, !.pc = pc]]

LEMMA SetJournalStep ==
    ASSUME run \in [Runs -> RunType], NEW r \in Runs, NEW i \in Journals \cup {NoJournal}, NEW pc \in Pcs, SetJournal(r, i, pc)
    PROVE  Became(r, pc, i, run[r].own, run[r].at, run[r].undo)
  <1> DEFINE v == run[r]
             w == [v EXCEPT !.j = i, !.pc = pc]
  <1>1. v \in RunType /\ v = run[r] /\ w = [v EXCEPT !.j = i, !.pc = pc] /\ run' = [run EXCEPT ![r] = w]
    BY DEF SetJournal
  <1> HIDE DEF v, w
  <1>2. /\ w \in RunType
        /\ w.pc = pc /\ w.j = i /\ w.sure = v.sure
        /\ w.own = v.own /\ w.at = v.at /\ w.undo = v.undo
    BY <1>1 DEF RunType, Pcs, InJournal
  <1> QED BY <1>1, <1>2, RunMoves DEF Became

SetAt(r, a) == run' = [run EXCEPT ![r] = [@ EXCEPT !.at = a]]

LEMMA SetAtStep ==
    ASSUME run \in [Runs -> RunType], NEW r \in Runs, NEW a \in 0 .. NBooks + 1, SetAt(r, a)
    PROVE  Became(r, run[r].pc, run[r].j, run[r].own, a, run[r].undo)
  <1> DEFINE v == run[r]
             w == [v EXCEPT !.at = a]
  <1>1. v \in RunType /\ v = run[r] /\ w = [v EXCEPT !.at = a] /\ run' = [run EXCEPT ![r] = w]
    BY DEF SetAt
  <1> HIDE DEF v, w
  <1>2. /\ w \in RunType
        /\ w.pc = v.pc /\ w.j = v.j /\ w.sure = v.sure
        /\ w.own = v.own /\ w.at = a /\ w.undo = v.undo
    BY <1>1 DEF RunType, Pcs, InJournal
  <1> QED BY <1>1, <1>2, RunMoves DEF Became

SetUndo(r, u) == run' = [run EXCEPT ![r] = [@ EXCEPT !.undo = u]]

LEMMA SetUndoStep ==
    ASSUME run \in [Runs -> RunType], NEW r \in Runs, NEW u \in SUBSET Books, SetUndo(r, u)
    PROVE  Became(r, run[r].pc, run[r].j, run[r].own, run[r].at, u)
  <1> DEFINE v == run[r]
             w == [v EXCEPT !.undo = u]
  <1>1. v \in RunType /\ v = run[r] /\ w = [v EXCEPT !.undo = u] /\ run' = [run EXCEPT ![r] = w]
    BY DEF SetUndo
  <1> HIDE DEF v, w
  <1>2. /\ w \in RunType
        /\ w.pc = v.pc /\ w.j = v.j /\ w.sure = v.sure
        /\ w.own = v.own /\ w.at = v.at /\ w.undo = u
    BY <1>1 DEF RunType, Pcs, InJournal
  <1> QED BY <1>1, <1>2, RunMoves DEF Became

SetAtUndo(r, a, u) == run' = [run EXCEPT ![r] = [@ EXCEPT !.at = a, !.undo = u]]

LEMMA SetAtUndoStep ==
    ASSUME run \in [Runs -> RunType], NEW r \in Runs, NEW a \in 0 .. NBooks + 1, NEW u \in SUBSET Books, SetAtUndo(r, a, u)
    PROVE  Became(r, run[r].pc, run[r].j, run[r].own, a, u)
  <1> DEFINE v == run[r]
             w == [v EXCEPT !.at = a, !.undo = u]
  <1>1. v \in RunType /\ v = run[r] /\ w = [v EXCEPT !.at = a, !.undo = u] /\ run' = [run EXCEPT ![r] = w]
    BY DEF SetAtUndo
  <1> HIDE DEF v, w
  <1>2. /\ w \in RunType
        /\ w.pc = v.pc /\ w.j = v.j /\ w.sure = v.sure
        /\ w.own = v.own /\ w.at = a /\ w.undo = u
    BY <1>1 DEF RunType, Pcs, InJournal
  <1> QED BY <1>1, <1>2, RunMoves DEF Became

SetFinal(r, i, a) == run' = [run EXCEPT ![r] = [@ EXCEPT !.pc = "second", !.j = i, !.at = a]]

LEMMA SetFinalStep ==
    ASSUME run \in [Runs -> RunType], NEW r \in Runs, NEW i \in Journals \cup {NoJournal}, NEW a \in 0 .. NBooks + 1, SetFinal(r, i, a)
    PROVE  Became(r, "second", i, run[r].own, a, run[r].undo)
  <1> DEFINE v == run[r]
             w == [v EXCEPT !.pc = "second", !.j = i, !.at = a]
  <1>1. v \in RunType /\ v = run[r] /\ w = [v EXCEPT !.pc = "second", !.j = i, !.at = a] /\ run' = [run EXCEPT ![r] = w]
    BY DEF SetFinal
  <1> HIDE DEF v, w
  <1>2. /\ w \in RunType
        /\ w.pc = "second" /\ w.j = i /\ w.sure = v.sure
        /\ w.own = v.own /\ w.at = a /\ w.undo = v.undo
    BY <1>1 DEF RunType, Pcs, InJournal
  <1> QED BY <1>1, <1>2, RunMoves DEF Became

LEMMA IdleRun == Idle \in RunType /\ Idle.pc = "idle" /\ ~Idle.sure /\ Idle.undo = {} /\ ~Idle.own
  BY MapsAssumption DEF Idle, RunType

LEMMA NamesOf ==
    /\ \A p \in Places : File(p) \in Names
    /\ \A p \in Places, i \in Ids : <<p, i>> \in Names /\ \A q \in Places : <<p, i>> # File(q)
    /\ \A n \in Names : \/ \E p \in Places : n = File(p)
                        \/ \E p \in Places, i \in Ids : n = <<p, i>>
    /\ \A p, q \in Places : File(p) = File(q) => p = q
  BY BoundsAssumption DEF Names, File, Ids

LEMMA JournalKinds ==
    /\ \A j \in Journals : /\ j # NoJournal /\ j.id \in Ids /\ j.id # 0
                           /\ j.from \in [Books -> Places] /\ j.to \in [Books -> Places]
                           /\ j.phase \in {"rename", "final"}
                           /\ \A b \in Books : Temp(j, b) = <<j.from[b], j.id>> /\ Temp(j, b) \in Names
    /\ NoJournal.id = 0
  <1>1. NoJournal.id = 0
    BY DEF NoJournal
  <1>2. ASSUME NEW j \in Journals PROVE j.id \in Ids /\ j.id # 0
    BY BoundsAssumption DEF Journals, Ids
  <1> QED BY <1>1, <1>2, NamesOf DEF Journals, Temp

LEMMA Moved ==
    ASSUME disk \in [Names -> Books \cup {Stray, None}],
           NEW n \in Names, NEW m \in Names, n # m, Rename(n, m)
    PROVE  /\ disk' \in [Names -> Books \cup {Stray, None}]
           /\ disk'[n] = None /\ disk'[m] = disk[n]
           /\ \A k \in Names : k # n /\ k # m => disk'[k] = disk[k]
  BY DEF Rename

(* A file that is moved to a name nothing has is still under one name.     *)
LEMMA MovedOnce ==
    ASSUME disk \in [Names -> Books \cup {Stray, None}], Once,
           NEW n \in Names, NEW m \in Names, n # m, Rename(n, m), disk[m] = None
    PROVE  Once'
  <1>1. /\ disk'[n] = None /\ disk'[m] = disk[n]
        /\ \A k \in Names : k # n /\ k # m => disk'[k] = disk[k]
    BY Moved
  <1>2. ASSUME NEW k \in Names, NEW l \in Names, disk'[k] = disk'[l], disk'[k] # None PROVE k = l
    BY <1>1, <1>2 DEF Once
  <1>3. ASSUME NEW b \in Books PROVE \E k \in Names : disk'[k] = b
    <2>1. PICK k \in Names : disk[k] = b
      BY DEF Once
    <2>2. b # None
      BY MapsAssumption DEF Books, None
    <2>3. CASE k = n
      BY <1>1, <2>1, <2>3
    <2>4. CASE k # n
      BY <1>1, <2>1, <2>2, <2>4
    <2> QED BY <2>3, <2>4
  <1> QED BY <1>2, <1>3 DEF Once


(* With the scans held by r nobody else renames, and no plan waits to be written. *)
LEMMA Holder ==
    ASSUME OneHolds, OneConfirms, NEW r \in Runs, run[r].pc \in Holding
    PROVE  /\ held = r /\ held # NoRun /\ scan = NotScanning
           /\ \A s \in Runs : s # r => run[s].pc \notin Holding
           /\ \A s \in Runs : run[s].pc # "built" /\ ~(run[s].pc = "wait" /\ run[s].own)
  BY RunsAssumption DEF OneHolds, OneConfirms, Holding

(* What a run that renames may rely on.                                    *)
LEMMA Renaming ==
    ASSUME OneHolds, OneConfirms, Plans, Carries, NEW r \in Runs, run[r].pc \in {"first", "undo", "second"}
    PROVE  /\ held = r /\ held # NoRun /\ scan = NotScanning
           /\ \A s \in Runs : s # r => run[s].pc \notin Holding
           /\ \A s \in Runs : run[s].pc # "built" /\ ~(run[s].pc = "wait" /\ run[s].own)
           /\ run[r].j = journal /\ journal \in Journals /\ journal # NoJournal /\ CarriedBy(r)
           /\ Sound(journal) /\ journal.id <= lastId /\ journal.from = number
           /\ \A a, b \in Books : journal.from[a] = journal.from[b] => a = b
           /\ \A a, b \in Books : journal.to[a] = journal.to[b] => a = b
           /\ \A b \in Books : disk[File(journal.from[b])] # Stray /\ disk[File(journal.to[b])] # Stray
  <1>1. run[r].pc \in Holding
    BY DEF Holding
  <1>2. CarriedBy(r) /\ run[r].j = journal /\ journal # NoJournal
    BY DEF Carries, CarriedBy
  <1>3. Sound(journal)
    BY <1>2 DEF Plans
  <1> QED BY <1>1, <1>2, <1>3, Holder DEF Sound, Plans

(* A chapter's file at the number its row has is the chapter's own.        *)
LEMMA OwnPlace ==
    ASSUME TypeOK, Plans, Placed, journal \in Journals, journal.phase = "rename", journal.from = number,
           NEW b \in Books, disk[File(journal.from[b])] # None
    PROVE  disk[File(journal.from[b])] = b
  <1>1. number[b] \in Places /\ File(number[b]) \in Names
    BY NamesOf DEF TypeOK
  <1>2. disk[File(number[b])] \in Books
    BY <1>1 DEF TypeOK, Plans
  <1> QED BY <1>1, <1>2 DEF Placed, NumberOf, Plans

(* A file under the temporary name of a chapter that is renamed is that chapter's. *)
LEMMA OwnTemp ==
    ASSUME TypeOK, Placed, journal \in Journals, journal # NoJournal,
           \A a, b \in Books : journal.from[a] = journal.from[b] => a = b,
           NEW b \in Books, disk[Temp(journal, b)] # None
    PROVE  disk[Temp(journal, b)] = b /\ b \in Renamed(journal)
  <1>1. journal.id \in Ids /\ journal.from[b] \in Places /\ Temp(journal, b) = <<journal.from[b], journal.id>>
    BY JournalKinds
  <1>2. /\ disk[Temp(journal, b)] \in Renamed(journal)
        /\ journal.from[b] = journal.from[disk[Temp(journal, b)]]
    BY <1>1 DEF Placed
  <1> QED BY <1>2 DEF Renamed

-----------------------------------------------------------------------------
(* Who holds the scans and the mark, for any number of confirmations.      *)

\* A run that renames, or is about to, has a journal of its own and is at one of its moves.
LoadedRun(r) ==
    /\ run[r].pc \in {"built", "first", "undo", "second"} => run[r].j \in Journals
    /\ run[r].pc = "wait" /\ run[r].own => run[r].j \in Journals
    /\ run[r].pc \in {"reread", "first", "second"} => run[r].at >= 1

Loaded == \A r \in Runs : LoadedRun(r)

Held == TypeOK /\ OneHolds /\ MarkShared /\ OneSettles /\ Loaded

\* All is in order until a plan is made while a journal stands on the row.
IInv == Held /\ (~supplanted => Calm)

\* Run r moves on where it is: in its journal or outside it, with the scans or without.
MovesOn(r) ==
    /\ run' \in [Runs -> RunType] /\ \A s \in Runs : s # r => run'[s] = run[s]
    /\ run[r].pc # "wait" /\ run'[r].pc # "wait"
    /\ run'[r].pc \in InJournal <=> run[r].pc \in InJournal
    /\ run'[r].pc \in Holding <=> run[r].pc \in Holding
    /\ LoadedRun(r)'
    /\ Settling(r)' => Settling(r) \/ settling' = r
    /\ settling' = settling \/ settling = NoRun
    /\ UNCHANGED <<held, line, share, marked, scan>>

LEMMA OthersLoaded ==
    ASSUME Loaded, NEW r \in Runs, \A s \in Runs : s # r => run'[s] = run[s], LoadedRun(r)'
    PROVE  Loaded'
  <1>1. ASSUME NEW s \in Runs, s # r PROVE LoadedRun(s)'
    BY <1>1 DEF Loaded, LoadedRun
  <1> QED BY <1>1 DEF Loaded

LEMMA MovesOnKeeps ==
    ASSUME Held, NEW r \in Runs, MovesOn(r)
    PROVE  OneHolds' /\ MarkShared' /\ OneSettles' /\ Loaded'
  <1>1. OneHolds'
    BY DEF Held, OneHolds, MovesOn
  <1>2. \A i \in 1 .. Len(line) : line[i] \in Runs /\ line[i] # r
    BY DEF Held, TypeOK, MarkShared, MovesOn
  <1>3. MarkShared'
    BY <1>2 DEF Held, MarkShared, MovesOn
  <1>4. OneSettles'
    BY RunsAssumption DEF Held, OneSettles, MovesOn, Settling
  <1> QED BY <1>1, <1>3, <1>4, OthersLoaded DEF Held, MovesOn

LEMMA Begun ==
    ASSUME run \in [Runs -> RunType], NEW r \in Runs, NEW j \in Journals \cup {NoJournal}, NEW o \in BOOLEAN,
           Begin(r, j, o)
    PROVE  Became(r, "wait", j, o, run[r].at, run[r].undo)
  <1> DEFINE v == run[r]
             w == [v EXCEPT !.pc = "wait", !.j = j, !.own = o]
  <1>1. v \in RunType /\ v = run[r] /\ w = [v EXCEPT !.pc = "wait", !.j = j, !.own = o] /\ run' = [run EXCEPT ![r] = w]
    BY DEF Begin
  <1> HIDE DEF v, w
  <1>2. /\ w \in RunType
        /\ w.pc = "wait" /\ w.j = j /\ w.sure = v.sure
        /\ w.own = o /\ w.at = v.at /\ w.undo = v.undo
    BY <1>1 DEF RunType, Pcs, InJournal
  <1> QED BY <1>1, <1>2, RunMoves DEF Became

\* Run r joins the line with a journal.
LEMMA BeginKeeps ==
    ASSUME Held, NEW r \in Runs, NEW j \in Journals \cup {NoJournal}, NEW o \in BOOLEAN, Begin(r, j, o),
           run[r].pc \in {"resume", "built"}, o => j \in Journals /\ run[r].pc = "built",
           UNCHANGED <<held, scan, settling>>
    PROVE  /\ run' \in [Runs -> RunType] /\ line' \in Seq(Runs) /\ share' \subseteq Runs /\ marked' \in BOOLEAN
           /\ OneHolds' /\ MarkShared' /\ OneSettles' /\ Loaded'
  <1>0. run \in [Runs -> RunType] /\ line \in Seq(Runs) /\ Len(line) \in Nat /\ share \subseteq Runs
    BY DEF Held, TypeOK
  <1>2. /\ run' \in [Runs -> RunType] /\ \A s \in Runs : s # r => run'[s] = run[s]
        /\ run'[r].pc = "wait" /\ run'[r].j = j /\ run'[r].own = o
    BY <1>0, Begun DEF Became
  <1>3. /\ line' = Append(line, r) /\ share' \in {share, share \cup {r}} /\ marked' /\ marked' \in BOOLEAN
    BY DEF Begin, Share
  <1>4. /\ line' \in Seq(Runs) /\ Len(line') = Len(line) + 1 /\ line'[Len(line) + 1] = r
        /\ \A i \in 1 .. Len(line) : line'[i] = line[i]
    BY <1>0, <1>3, AppendProperties
  <1>5. \A i \in 1 .. Len(line) : line[i] \in Runs /\ line[i] # r /\ run[line[i]].pc = "wait"
    BY <1>0 DEF Held, MarkShared
  <1>6. \A i \in 1 .. Len(line') : \/ i \in 1 .. Len(line) /\ line'[i] = line[i] /\ line'[i] # r
                                   \/ i = Len(line) + 1 /\ line'[i] = r
    BY <1>0, <1>4, <1>5
  <1>7. \A i \in 1 .. Len(line') : run'[line'[i]].pc = "wait"
    BY <1>2, <1>5, <1>6
  <1>8. \A i, k \in 1 .. Len(line') : line'[i] = line'[k] => i = k
    BY <1>6 DEF Held, MarkShared
  <1>9. \A s \in Runs : s \in share' => run'[s].pc \in InJournal
    BY <1>2, <1>3 DEF Held, MarkShared, InJournal
  <1>10. MarkShared'
    BY <1>3, <1>7, <1>8, <1>9 DEF MarkShared
  <1>11. OneHolds'
    BY <1>2 DEF Held, OneHolds, Holding
  <1>12. Loaded'
    BY <1>2, OthersLoaded DEF Held, LoadedRun
  <1>13. OneSettles'
    BY <1>2 DEF Held, OneSettles, Settling
  <1> QED BY <1>0, <1>2, <1>3, <1>4, <1>10, <1>11, <1>12, <1>13

LEMMA HoldScansKeeps ==
    ASSUME Held, NEW r \in Runs, HoldScans(r)
    PROVE  Held'
  <1>0. run \in [Runs -> RunType] /\ line \in Seq(Runs) /\ TypeOK
    BY DEF Held, TypeOK
  <1> DEFINE pc == IF run[r].own THEN "first" ELSE "reread"
  <1>1. Became(r, pc, run[r].j, run[r].own, 1, run[r].undo) /\ pc \in {"first", "reread"} /\ (pc = "first" => run[r].own)
    <2>1. SetPcAt(r, pc, 1)
      BY DEF HoldScans, SetPcAt
    <2>2. 1 \in 0 .. NBooks + 1 /\ pc \in Pcs
      BY MapsAssumption DEF Pcs, InJournal
    <2> QED BY <1>0, <2>1, <2>2, SetPcAtStep
  <1> HIDE DEF pc
  <1>2. /\ run[r].pc = "wait" /\ line # <<>> /\ r = Head(line) /\ line' = Tail(line)
        /\ held = NoRun /\ held' = r /\ scan = NotScanning
        /\ UNCHANGED <<disk, number, journal, settling, marked, share, lastId, scan, minted, supplanted, stranded, crashes, faults>>
    BY DEF HoldScans, Woken, stored, around
  <1>3. /\ r = line[1] /\ Len(line) >= 1 /\ line' \in Seq(Runs) /\ Len(line') = Len(line) - 1
        /\ \A i \in 1 .. Len(line') : line'[i] = line[i + 1] /\ i + 1 \in 1 .. Len(line)
    BY <1>0, <1>2, HeadTailProperties
  <1>4. TypeOK'
    BY <1>0, <1>1, <1>2, <1>3 DEF TypeOK, Became
  <1>5. OneHolds'
    <2>1. \A s \in Runs : run[s].pc \notin Holding
      BY <1>2, RunsAssumption DEF Held, OneHolds
    <2> QED BY <1>1, <1>2, <2>1 DEF OneHolds, Became, Holding
  <1>6. MarkShared'
    <2>1. \A i \in 1 .. Len(line') : line'[i] \in Runs /\ line'[i] # r /\ run[line'[i]].pc = "wait"
      <3> SUFFICES ASSUME NEW i \in 1 .. Len(line')
                   PROVE  line'[i] \in Runs /\ line'[i] # r /\ run[line'[i]].pc = "wait"
        OBVIOUS
      <3>1. line'[i] = line[i + 1] /\ i + 1 \in 1 .. Len(line) /\ 1 \in 1 .. Len(line) /\ i + 1 # 1
        BY <1>3
      <3> QED BY <1>0, <1>3, <3>1 DEF Held, MarkShared
    <2>2. \A i \in 1 .. Len(line') : run'[line'[i]].pc = "wait"
      BY <1>1, <2>1 DEF Became
    <2>3. \A i, k \in 1 .. Len(line') : line'[i] = line'[k] => i = k
      <3> SUFFICES ASSUME NEW i \in 1 .. Len(line'), NEW k \in 1 .. Len(line'), line'[i] = line'[k] PROVE i = k
        OBVIOUS
      <3>1. line[i + 1] = line[k + 1] /\ i + 1 \in 1 .. Len(line) /\ k + 1 \in 1 .. Len(line)
        BY <1>3
      <3> QED BY <3>1 DEF Held, MarkShared
    <2>4. \A s \in Runs : s \in share' => run'[s].pc \in InJournal
      BY <1>1, <1>2 DEF Held, MarkShared, InJournal, Became
    <2> QED BY <1>2, <2>2, <2>3, <2>4 DEF Held, MarkShared
  <1>7. Loaded'
    <2>1. LoadedRun(r)'
      BY <1>1, <1>2 DEF Held, Loaded, LoadedRun, Became
    <2> QED BY <1>1, <2>1, OthersLoaded DEF Held, Became
  <1>8. OneSettles'
    BY <1>1, <1>2 DEF Held, OneSettles, Settling, Became, InJournal
  <1> QED BY <1>4, <1>5, <1>6, <1>7, <1>8 DEF Held

\* What becomes of a run whose journal has ended.
LEMMA Ended ==
    ASSUME run \in [Runs -> RunType], NEW r \in Runs, End(r)
    PROVE  /\ run' \in [Runs -> RunType] /\ \A s \in Runs : s # r => run'[s] = run[s]
           /\ run'[r].pc \in {"idle", "inside"} /\ run'[r].undo = {} /\ ~run'[r].own
  <1> DEFINE sure == run[r].sure /\ ~run[r].own
             w == IF run[r].pc = "end" THEN Idle ELSE [Idle EXCEPT !.pc = "inside", !.sure = sure]
  <1>1. run' = [run EXCEPT ![r] = w]
    BY DEF End
  <1>2. sure \in BOOLEAN
    OBVIOUS
  <1> HIDE DEF sure
  <1>3. w \in RunType /\ w.pc \in {"idle", "inside"} /\ w.undo = {} /\ ~w.own
    <2> DEFINE u == Idle
               v == [u EXCEPT !.pc = "inside", !.sure = sure]
    <2>1. u \in RunType /\ u.pc = "idle" /\ u.undo = {} /\ ~u.own
      BY IdleRun
    <2> HIDE DEF u
    <2>2. v \in RunType /\ v.pc = "inside" /\ v.undo = {} /\ ~v.own
      BY <1>2, <2>1 DEF RunType
    <2> HIDE DEF v
    <2> QED BY <2>1, <2>2 DEF u, v
  <1> HIDE DEF w
  <1> QED BY <1>1, <1>3, RunMoves

LEMMA EndKeeps ==
    ASSUME Held, NEW r \in Runs, End(r)
    PROVE  Held'
  <1>0. run \in [Runs -> RunType] /\ TypeOK
    BY DEF Held, TypeOK
  <1>1. run[r].pc \in {"through", "end"} /\ held = r /\ held # NoRun /\ scan = NotScanning
        /\ \A s \in Runs : s # r => run[s].pc \notin Holding
    <2>1. run[r].pc \in {"through", "end"} /\ run[r].pc \in Holding
      BY DEF End, Holding
    <2> QED BY <2>1, RunsAssumption DEF Held, OneHolds
  <1>2. /\ share' = share \ {r} /\ (share' # {} => marked') /\ marked' \in BOOLEAN
        /\ settling' = IF settling = r THEN NoRun ELSE settling
        /\ held' = NoRun
        /\ UNCHANGED <<disk, number, journal, line, lastId, scan, minted, supplanted, stranded, crashes, faults>>
    <2>1. /\ share' = share \ {r} /\ marked' = IF r \in share THEN share' # {} ELSE marked
          /\ settling' = IF settling = r THEN NoRun ELSE settling
          /\ held' = NoRun
          /\ UNCHANGED <<disk, number, journal, line, lastId, scan, minted, supplanted, stranded, crashes, faults>>
      BY DEF End, stored, around
    <2>2. CASE r \in share
      BY <2>1, <2>2
    <2>3. CASE r \notin share
      BY <1>0, <2>1, <2>3 DEF Held, MarkShared, TypeOK
    <2> QED BY <2>1, <2>2, <2>3
  <1>5. /\ run' \in [Runs -> RunType] /\ run'[r].pc \in {"idle", "inside"} /\ \A s \in Runs : s # r => run'[s] = run[s]
    BY <1>0, Ended
  <1>6. TypeOK'
    BY <1>0, <1>2, <1>5 DEF TypeOK
  <1>7. OneHolds'
    BY <1>1, <1>2, <1>5, RunsAssumption DEF OneHolds, Holding
  <1>8. MarkShared'
    <2>1. \A i \in 1 .. Len(line) : line[i] \in Runs /\ line[i] # r
      BY <1>1 DEF Held, TypeOK, MarkShared
    <2>2. \A s \in Runs : s \in share' => run'[s].pc \in InJournal
      BY <1>2, <1>5 DEF Held, MarkShared
    <2> QED BY <1>2, <1>5, <2>1, <2>2 DEF Held, MarkShared
  <1>9. Loaded'
    BY <1>5, OthersLoaded DEF Held, LoadedRun
  <1>10. OneSettles'
    BY <1>2, <1>5 DEF Held, OneSettles, Settling, InJournal
  <1> QED BY <1>6, <1>7, <1>8, <1>9, <1>10 DEF Held

\* What is renamed is something, to a name of the model: the disk keeps its type.
LEMMA RenameTyped ==
    ASSUME TypeOK, NEW n, NEW m, Rename(n, m), n \in Names \/ UNCHANGED disk
    PROVE  disk' \in [Names -> Books \cup {Stray, None}]
  BY DEF TypeOK, Rename

LEMMA LoadedNames ==
    ASSUME Held, NEW r \in Runs, run[r].pc \in {"first", "undo", "second"}, NEW b \in Books
    PROVE  File(run[r].j.from[b]) \in Names /\ Temp(run[r].j, b) \in Names
  <1>1. run[r].j \in Journals
    BY DEF Held, Loaded, LoadedRun
  <1> QED BY <1>1, JournalKinds, NamesOf

LEMMA HeldNext ==
    ASSUME Held, [Next]_vars
    PROVE  Held'
  <1>0. /\ TypeOK /\ OneHolds /\ MarkShared /\ OneSettles /\ Loaded /\ run \in [Runs -> RunType]
        /\ \A r \in Runs : run[r].j \in Journals \cup {NoJournal} /\ run[r].undo \in SUBSET Books
        /\ \A r \in Runs : run[r].at \in 0 .. NBooks + 1
    BY DEF Held, TypeOK, RunType
  <1> USE DEF stored, locks, around
  <1>m. ASSUME NEW r \in Runs, MovesOn(r), TypeOK' PROVE Held'
    BY <1>m, MovesOnKeeps DEF Held
  <1>g. ASSUME NEW r \in Runs, NEW pc \in Pcs, GoTo(r, pc)
        PROVE  Became(r, pc, run[r].j, run[r].own, run[r].at, run[r].undo)
    BY <1>0, <1>g, WentTo
  <1>e. ASSUME NEW r \in Runs, NEW pc \in {"through", "end"}, GoTo(r, pc)
        PROVE  Became(r, pc, run[r].j, run[r].own, run[r].at, run[r].undo)
    BY <1>e, <1>g DEF Pcs, InJournal
  <1>f. Fault \/ UNCHANGED faults => faults' \in 0 .. MaxFaults
    BY <1>0, BoundsAssumption DEF Fault, TypeOK
  <1>1. ASSUME NEW r \in Runs, Enter(r) \/ EnterHeld(r) PROVE Held'
    <2>1. Became(r, Entry, run[r].j, run[r].own, run[r].at, run[r].undo) /\ Entry \in {"inside", "resume"}
      BY <1>1, <1>g DEF Enter, EnterHeld, Entry, Pcs
    <2>2. MovesOn(r)
      BY <1>1, <2>1 DEF Enter, EnterHeld, MovesOn, Became, LoadedRun, Settling, InJournal, Holding
    <2>3. TypeOK'
      BY <1>0, <1>1, <2>1 DEF Enter, EnterHeld, TypeOK, Became
    <2> QED BY <1>m, <2>2, <2>3
  <1>2. ASSUME NEW r \in Runs, Confirm(r) PROVE Held'
    <2> DEFINE w == [run[r] EXCEPT !.pc = "asked", !.sure = TRUE]
    <2>1. w = [run[r] EXCEPT !.pc = "asked", !.sure = TRUE] /\ run' = [run EXCEPT ![r] = w]
      BY <1>2 DEF Confirm
    <2> HIDE DEF w
    <2>2. /\ run' \in [Runs -> RunType] /\ \A s \in Runs : s # r => run'[s] = run[s]
          /\ run'[r].pc = "asked"
      BY <1>0, <2>1, StepSure
    <2>3. MovesOn(r)
      BY <1>2, <2>2 DEF Confirm, MovesOn, LoadedRun, Settling, InJournal, Holding
    <2>4. TypeOK'
      BY <1>0, <1>2, <2>2 DEF Confirm, TypeOK
    <2> QED BY <1>m, <2>3, <2>4
  <1>3. ASSUME NEW r \in Runs, Refuse(r) \/ Leave(r) PROVE Held'
    <2>1. run' \in [Runs -> RunType] /\ run'[r].pc = "idle" /\ \A s \in Runs : s # r => run'[s] = run[s]
      BY <1>0, <1>3, IdleRun, RunMoves DEF Refuse, Leave
    <2>2. run[r].pc \in {"asked", "inside"}
      BY <1>3 DEF Refuse, Leave
    <2>3. UNCHANGED <<disk, number, journal, locks, around, faults>>
      BY <1>3 DEF Refuse, Leave
    <2>4. MovesOn(r)
      BY <2>1, <2>2, <2>3 DEF MovesOn, LoadedRun, Settling, InJournal, Holding
    <2>5. TypeOK'
      BY <1>0, <2>1, <2>3 DEF TypeOK
    <2> QED BY <1>m, <2>4, <2>5
  <1>4. ASSUME NEW r \in Runs, Settle(r) PROVE Held'
    <2>1. PICK m \in Maps :
            SetBuilt(r, [id |-> lastId + 1, phase |-> "rename", from |-> number, to |-> [b \in Books |-> m[number[b]]]])
      BY <1>4 DEF Settle, SetBuilt
    <2> DEFINE j == [id |-> lastId + 1, phase |-> "rename", from |-> number, to |-> [b \in Books |-> m[number[b]]]]
    <2>2. j \in Journals /\ lastId + 1 \in 0 .. MaxJournals
      <3>1. lastId + 1 \in Ids /\ lastId + 1 \in 0 .. MaxJournals
        BY <1>0, <1>4, BoundsAssumption DEF Settle, TypeOK, Ids
      <3>2. number \in [Books -> Places] /\ m \in [Places -> Places]
        BY <1>0, MapsAssumption DEF TypeOK
      <3>3. [b \in Books |-> m[number[b]]] \in [Books -> Places]
        BY <3>2
      <3> QED BY <3>1, <3>2, <3>3 DEF Journals
    <2> HIDE DEF j
    <2>3. /\ run' \in [Runs -> RunType] /\ \A s \in Runs : s # r => run'[s] = run[s]
          /\ run'[r].pc = "built" /\ run'[r].j = j
      BY <1>0, <2>1, <2>2, SetBuiltStep DEF j
    <2>4. MovesOn(r)
      BY <1>4, <2>2, <2>3 DEF Settle, MovesOn, LoadedRun, Settling, InJournal, Holding
    <2>5. TypeOK'
      BY <1>0, <1>4, <2>2, <2>3 DEF Settle, TypeOK
    <2> QED BY <1>m, <2>4, <2>5
  <1>5. ASSUME NEW r \in Runs, ReadJournal(r) PROVE Held'
    <2>1. CASE GoTo(r, "inside") /\ UNCHANGED <<line, share, marked>>
      <3>1. Became(r, "inside", run[r].j, run[r].own, run[r].at, run[r].undo)
        BY <1>g, <2>1 DEF Pcs
      <3>2. MovesOn(r)
        BY <1>5, <2>1, <3>1 DEF ReadJournal, MovesOn, Became, LoadedRun, Settling, InJournal, Holding
      <3>3. TypeOK'
        BY <1>0, <1>5, <2>1, <3>1 DEF ReadJournal, TypeOK, Became
      <3> QED BY <1>m, <3>2, <3>3
    <2>2. CASE Begin(r, journal, FALSE)
      <3>1. run[r].pc = "resume" /\ UNCHANGED <<stored, settling, held, around, faults>>
        BY <1>5 DEF ReadJournal
      <3>2. /\ run' \in [Runs -> RunType] /\ line' \in Seq(Runs) /\ share' \subseteq Runs /\ marked' \in BOOLEAN
            /\ OneHolds' /\ MarkShared' /\ OneSettles' /\ Loaded'
        BY <1>0, <2>2, <3>1, BeginKeeps DEF TypeOK
      <3> QED BY <1>0, <3>1, <3>2 DEF TypeOK, Held
    <2> QED BY <1>5, <2>1, <2>2 DEF ReadJournal
  <1>6. ASSUME NEW r \in Runs, WriteJournal(r) PROVE Held'
    <2>1. run[r].pc = "built" /\ journal' = run[r].j /\ Begin(r, run[r].j, TRUE)
          /\ UNCHANGED <<disk, number, settling, held, around, faults>>
      BY <1>6 DEF WriteJournal
    <2>2. run[r].j \in Journals
      BY <1>0, <2>1 DEF Loaded, LoadedRun
    <2>3. /\ run' \in [Runs -> RunType] /\ line' \in Seq(Runs) /\ share' \subseteq Runs /\ marked' \in BOOLEAN
          /\ OneHolds' /\ MarkShared' /\ OneSettles' /\ Loaded'
      BY <2>1, <2>2, BeginKeeps
    <2> QED BY <1>0, <2>1, <2>2, <2>3 DEF TypeOK, Held
  <1>7. ASSUME NEW r \in Runs, Reread(r) PROVE Held'
    <2>1. run[r].pc = "reread" /\ run[r].at >= 1 /\ UNCHANGED <<stored, locks, around, faults>>
      BY <1>0, <1>7 DEF Reread, Loaded, LoadedRun
    <2>2. CASE GoTo(r, "through")
      <3>1. MovesOn(r)
        BY <1>e, <2>1, <2>2 DEF MovesOn, Became, LoadedRun, Settling, InJournal, Holding
      <3>2. TypeOK'
        BY <1>0, <1>e, <2>1, <2>2 DEF TypeOK, Became
      <3> QED BY <1>m, <3>1, <3>2
    <2>3. ASSUME NEW pc \in {"first", "second"}, SetJournal(r, journal, pc), journal # NoJournal PROVE Held'
      <3>1. Became(r, pc, journal, run[r].own, run[r].at, run[r].undo) /\ journal \in Journals
        BY <1>0, <2>3, SetJournalStep DEF TypeOK, Pcs, InJournal
      <3>2. MovesOn(r)
        BY <2>1, <2>3, <3>1 DEF MovesOn, Became, LoadedRun, Settling, InJournal, Holding
      <3>3. TypeOK'
        BY <1>0, <2>1, <3>1 DEF TypeOK, Became
      <3> QED BY <1>m, <3>2, <3>3
    <2>4. \/ GoTo(r, "through")
          \/ journal # NoJournal /\ SetJournal(r, journal, IF journal.phase = "rename" THEN "first" ELSE "second")
      BY <1>7 DEF Reread, Current, GoTo, SetJournal
    <2> QED BY <2>2, <2>3, <2>4
  <1>8. ASSUME NEW r \in Runs, FirstMove(r) PROVE Held'
    <2> DEFINE b == run[r].at
               j == run[r].j
    <2>1. /\ run[r].pc = "first" /\ b <= NBooks /\ b + 1 \in 1 .. NBooks + 1 /\ j \in Journals
          /\ UNCHANGED <<number, journal, locks, around>>
      BY <1>0, <1>8, MapsAssumption DEF FirstMove, Loaded, LoadedRun
    <2>2. CASE Goes(j, b) /\ Rename(File(j.from[b]), Temp(j, b)) /\ SetAtUndo(r, b + 1, run[r].undo \cup {b})
               /\ UNCHANGED faults
      <3>1. b \in Books
        BY <2>2 DEF Goes, Renamed
      <3>2. Became(r, "first", j, run[r].own, b + 1, run[r].undo \cup {b})
        BY <1>0, <2>1, <2>2, <3>1, SetAtUndoStep
      <3>3. disk' \in [Names -> Books \cup {Stray, None}]
        BY <1>0, <2>1, <2>2, <3>1, LoadedNames, RenameTyped
      <3>4. MovesOn(r)
        BY <2>1, <3>2 DEF MovesOn, Became, LoadedRun, Settling, InJournal, Holding
      <3>5. TypeOK'
        BY <1>0, <2>1, <2>2, <3>2, <3>3 DEF TypeOK, Became
      <3> QED BY <1>m, <3>4, <3>5
    <2>3. CASE SetAt(r, b + 1) /\ UNCHANGED <<disk, faults>>
      <3>1. Became(r, "first", j, run[r].own, b + 1, run[r].undo)
        BY <1>0, <2>1, <2>3, SetAtStep
      <3>2. MovesOn(r)
        BY <2>1, <3>1 DEF MovesOn, Became, LoadedRun, Settling, InJournal, Holding
      <3>3. TypeOK'
        BY <1>0, <2>1, <2>3, <3>1 DEF TypeOK, Became
      <3> QED BY <1>m, <3>2, <3>3
    <2>4. CASE Fault /\ GoTo(r, "undo") /\ UNCHANGED disk
      <3>1. Became(r, "undo", j, run[r].own, b, run[r].undo)
        BY <1>g, <2>4 DEF Pcs, InJournal
      <3>2. MovesOn(r)
        BY <2>1, <3>1 DEF MovesOn, Became, LoadedRun, Settling, InJournal, Holding
      <3>3. TypeOK'
        BY <1>0, <1>f, <2>1, <2>4, <3>1 DEF TypeOK, Became
      <3> QED BY <1>m, <3>2, <3>3
    <2> QED BY <1>8, <2>2, <2>3, <2>4 DEF FirstMove, SetAtUndo, SetAt
  <1>9. ASSUME NEW r \in Runs, PutBack(r) PROVE Held'
    <2>1. PICK b \in run[r].undo :
            /\ SetUndo(r, run[r].undo \ {b})
            /\ \/ Rename(Temp(run[r].j, b), File(run[r].j.from[b])) /\ UNCHANGED <<stranded, faults>>
               \/ Fault /\ stranded' = TRUE /\ UNCHANGED disk
      BY <1>9 DEF PutBack, SetUndo
    <2>2. /\ run[r].pc = "undo" /\ run[r].j \in Journals /\ b \in Books /\ run[r].undo \ {b} \in SUBSET Books
          /\ UNCHANGED <<number, journal, locks, lastId, scan, minted, supplanted, crashes>>
      BY <1>0, <1>9 DEF PutBack, Loaded, LoadedRun
    <2>3. Became(r, "undo", run[r].j, run[r].own, run[r].at, run[r].undo \ {b})
      BY <1>0, <2>1, <2>2, SetUndoStep
    <2>4. disk' \in [Names -> Books \cup {Stray, None}]
      <3>1. CASE UNCHANGED disk
        BY <1>0, <3>1 DEF TypeOK
      <3>2. CASE Rename(Temp(run[r].j, b), File(run[r].j.from[b]))
        BY <1>0, <2>2, <3>2, LoadedNames, RenameTyped
      <3> QED BY <2>1, <3>1, <3>2
    <2>5. MovesOn(r)
      BY <2>2, <2>3 DEF MovesOn, Became, LoadedRun, Settling, InJournal, Holding
    <2>6. TypeOK'
      BY <1>0, <1>f, <2>1, <2>2, <2>3, <2>4 DEF TypeOK, Became
    <2> QED BY <1>m, <2>5, <2>6
  <1>10. ASSUME NEW r \in Runs, GiveUp(r) PROVE Held'
    <2>1. /\ run[r].pc = "undo" /\ GoTo(r, "end") /\ UNCHANGED <<disk, number, locks, around>>
          /\ journal' \in {journal, NoJournal} /\ (Fault \/ UNCHANGED faults)
      BY <1>10 DEF GiveUp
    <2>2. MovesOn(r)
      BY <1>e, <2>1 DEF MovesOn, Became, LoadedRun, Settling, InJournal, Holding
    <2>3. TypeOK'
      BY <1>0, <1>e, <1>f, <2>1 DEF TypeOK, Became
    <2> QED BY <1>m, <2>2, <2>3
  <1>11. ASSUME NEW r \in Runs, SaveFinal(r) PROVE Held'
    <2> DEFINE j == Saved(run[r].j)
    <2>1. run[r].pc = "first" /\ run[r].j \in Journals /\ UNCHANGED <<disk, number, locks, around>>
      BY <1>0, <1>11 DEF SaveFinal, Loaded, LoadedRun
    <2>2. j \in Journals /\ 1 \in 0 .. NBooks + 1
      BY <2>1, MapsAssumption DEF Saved, Journals
    <2>3. CASE journal' = j /\ SetFinal(r, j, 1) /\ UNCHANGED faults
      <3>1. Became(r, "second", j, run[r].own, 1, run[r].undo)
        BY <1>0, <2>2, <2>3, SetFinalStep
      <3>2. MovesOn(r)
        BY <2>1, <2>2, <3>1 DEF MovesOn, Became, LoadedRun, Settling, InJournal, Holding
      <3>3. TypeOK'
        BY <1>0, <2>1, <2>2, <2>3, <3>1 DEF TypeOK, Became
      <3> QED BY <1>m, <3>2, <3>3
    <2>4. CASE Fault /\ GoTo(r, "end") /\ UNCHANGED journal
      <3>1. MovesOn(r)
        BY <1>e, <2>1, <2>4 DEF MovesOn, Became, LoadedRun, Settling, InJournal, Holding
      <3>2. TypeOK'
        BY <1>0, <1>e, <1>f, <2>1, <2>4 DEF TypeOK, Became
      <3> QED BY <1>m, <3>1, <3>2
    <2> QED BY <1>11, <2>3, <2>4 DEF SaveFinal, SetFinal
  <1>12. ASSUME NEW r \in Runs, SecondMove(r) PROVE Held'
    <2> DEFINE b == run[r].at
               j == run[r].j
    <2>1. /\ run[r].pc = "second" /\ b <= NBooks /\ b + 1 \in 1 .. NBooks + 1 /\ j \in Journals
          /\ b \in Books /\ UNCHANGED <<number, journal, locks, around>>
      BY <1>0, <1>12, MapsAssumption DEF SecondMove, Loaded, LoadedRun, Books
    <2>2. CASE SetAt(r, b + 1) /\ UNCHANGED faults /\ disk' \in [Names -> Books \cup {Stray, None}]
      <3>1. Became(r, "second", j, run[r].own, b + 1, run[r].undo)
        BY <1>0, <2>1, <2>2, SetAtStep
      <3>2. MovesOn(r)
        BY <2>1, <3>1 DEF MovesOn, Became, LoadedRun, Settling, InJournal, Holding
      <3>3. TypeOK'
        BY <1>0, <2>1, <2>2, <3>1 DEF TypeOK, Became
      <3> QED BY <1>m, <3>2, <3>3
    <2>3. CASE Fault /\ GoTo(r, "end") /\ UNCHANGED disk
      <3>1. MovesOn(r)
        BY <1>e, <2>1, <2>3 DEF MovesOn, Became, LoadedRun, Settling, InJournal, Holding
      <3>2. TypeOK'
        BY <1>0, <1>e, <1>f, <2>1, <2>3 DEF TypeOK, Became
      <3> QED BY <1>m, <3>1, <3>2
    <2>4. \/ SetAt(r, b + 1) /\ UNCHANGED faults /\ (UNCHANGED disk \/ Rename(Temp(j, b), File(j.to[b])))
          \/ Fault /\ GoTo(r, "end") /\ UNCHANGED disk
      BY <1>12 DEF SecondMove, SetAt
    <2>5. ASSUME Rename(Temp(j, b), File(j.to[b])) PROVE disk' \in [Names -> Books \cup {Stray, None}]
      BY <1>0, <2>1, <2>5, LoadedNames, RenameTyped
    <2>6. UNCHANGED disk => disk' \in [Names -> Books \cup {Stray, None}]
      BY <1>0 DEF TypeOK
    <2> QED BY <2>2, <2>3, <2>4, <2>5, <2>6
  <1>13. ASSUME NEW r \in Runs, Commit(r) PROVE Held'
    <2>1. run[r].pc = "second" /\ run[r].j \in Journals /\ (GoTo(r, "through") \/ GoTo(r, "end"))
          /\ UNCHANGED <<disk, locks, around>>
      BY <1>0, <1>13 DEF Commit, Loaded, LoadedRun
    <2>2. /\ number' \in [Books -> Places] /\ journal' \in {journal, NoJournal}
          /\ Fault \/ UNCHANGED faults
      BY <1>0, <1>13, <2>1, JournalKinds DEF Commit, Cleared, TypeOK
    <2>3. MovesOn(r)
      BY <1>e, <2>1 DEF MovesOn, Became, LoadedRun, Settling, InJournal, Holding
    <2>4. TypeOK'
      BY <1>0, <1>e, <1>f, <2>1, <2>2 DEF TypeOK, Became
    <2> QED BY <1>m, <2>3, <2>4
  <1>14. CASE ScanLists
    <2>1. scan' \in [Places -> Books \cup {Stray, None}] /\ held = NoRun
      BY <1>0, <1>14, NamesOf DEF ScanLists, TypeOK
    <2>2. UNCHANGED <<stored, run, locks, lastId, minted, supplanted, stranded, crashes, faults>>
      BY <1>14 DEF ScanLists
    <2> QED BY <1>0, <2>1, <2>2 DEF Held, TypeOK, OneHolds, MarkShared, OneSettles, Settling, Loaded, LoadedRun
  <1>15. CASE ScanIndexes
    <2>1. /\ scan' = NotScanning /\ minted' \in BOOLEAN
          /\ UNCHANGED <<stored, run, locks, lastId, supplanted, stranded, crashes, faults>>
      BY <1>0, <1>15 DEF ScanIndexes, TypeOK
    <2> QED BY <1>0, <2>1 DEF Held, TypeOK, OneHolds, MarkShared, OneSettles, Settling, Loaded, LoadedRun
  <1>16. CASE Crash
    <2>1. /\ run' \in [Runs -> RunType] /\ \A r \in Runs : run'[r].pc = "idle"
          /\ crashes' \in 0 .. MaxCrashes /\ line' = <<>> /\ line' \in Seq(Runs)
          /\ settling' = NoRun /\ held' = NoRun /\ ~marked' /\ marked' \in BOOLEAN /\ share' = {} /\ scan' = NotScanning
          /\ UNCHANGED <<stored, lastId, minted, supplanted, stranded, faults>>
      <3>1. run' = [r \in Runs |-> Idle] /\ line' = <<>> /\ crashes' = crashes + 1 /\ crashes < MaxCrashes
            /\ settling' = NoRun /\ held' = NoRun /\ marked' = FALSE /\ share' = {} /\ scan' = NotScanning
            /\ UNCHANGED <<stored, lastId, minted, supplanted, stranded, faults>>
        BY <1>16 DEF Crash
      <3>2. crashes' \in 0 .. MaxCrashes
        BY <1>0, <3>1, BoundsAssumption DEF TypeOK
      <3>3. line' \in Seq(Runs)
        BY <3>1
      <3>4. run' \in [Runs -> RunType] /\ \A r \in Runs : run'[r].pc = "idle"
        BY <3>1, IdleRun
      <3> QED BY <3>1, <3>2, <3>3, <3>4
    <2>2. TypeOK'
      BY <1>0, <2>1 DEF TypeOK
    <2>3. OneHolds' /\ MarkShared' /\ Loaded'
      BY <2>1, RunsAssumption DEF OneHolds, MarkShared, Loaded, LoadedRun, Holding, InJournal
    <2>4. OneSettles'
      BY <2>1 DEF OneSettles, Settling, InJournal
    <2> QED BY <2>2, <2>3, <2>4 DEF Held
  <1>17. CASE UNCHANGED vars
    BY <1>0, <1>17 DEF vars, Held, TypeOK, OneHolds, MarkShared, OneSettles, Settling, Loaded, LoadedRun
  <1>18. CASE OthersTake \/ OthersLetGo
    <2>1. /\ UNCHANGED <<stored, run, settling, held, line, share, around, faults>>
          /\ marked' \in BOOLEAN /\ (share # {} => marked')
      BY <1>18 DEF OthersTake, OthersLetGo, OthersMark
    <2> QED BY <1>0, <2>1 DEF Held, TypeOK, OneHolds, MarkShared, OneSettles, Settling, Loaded, LoadedRun
  <1> QED BY <1>1, <1>2, <1>3, <1>4, <1>5, <1>6, <1>7, <1>8, <1>9, <1>10, <1>11, <1>12, <1>13, <1>14, <1>15,
             <1>16, <1>17, <1>18, HoldScansKeeps, EndKeeps DEF Next, Proceed

(* A file nobody has a row for: no plan that was checked moves it, or      *)
(* anything onto it.                                                       *)
Carrying(r) == run[r].pc \in {"built", "first", "undo", "second"} \/ (run[r].pc = "wait" /\ run[r].own)

ClearOf(j) == \A b \in Books : disk[File(j.from[b])] # Stray /\ disk[File(j.to[b])] # Stray

StrayApart ==
    /\ \A p \in Places, i \in Ids : disk[<<p, i>>] # Stray
    /\ \A b \in Books : disk[File(number[b])] # Stray
    /\ journal # NoJournal => ClearOf(journal)
    /\ \A r \in Runs : Carrying(r) => ClearOf(run[r].j)

\* Where the plan a run carries comes from.
LEMMA PlansCarried ==
    ASSUME Held, [Next]_vars, NEW s \in Runs, Carrying(s)'
    PROVE  \/ Carrying(s) /\ run'[s].j \in {run[s].j, Saved(run[s].j)}
           \/ journal # NoJournal /\ run'[s].j = journal
           \/ /\ run'[s].j \in Journals /\ run'[s].j.from = number /\ TargetsFree(run'[s].j)
              /\ \A b \in Books \ Renamed(run'[s].j) : run'[s].j.to[b] = number[b]
  <1> DEFINE Goal == \/ Carrying(s) /\ run'[s].j \in {run[s].j, Saved(run[s].j)}
                     \/ journal # NoJournal /\ run'[s].j = journal
                     \/ /\ run'[s].j \in Journals /\ run'[s].j.from = number /\ TargetsFree(run'[s].j)
                        /\ \A b \in Books \ Renamed(run'[s].j) : run'[s].j.to[b] = number[b]
  <1>0. /\ TypeOK /\ run \in [Runs -> RunType]
        /\ \A r \in Runs : run[r].j \in Journals \cup {NoJournal} /\ run[r].undo \in SUBSET Books
        /\ \A r \in Runs : run[r].at \in 0 .. NBooks + 1
    BY DEF Held, TypeOK, RunType
  <1>1. run'[s] = run[s] => Goal
    BY DEF Carrying
  <1>2. ASSUME NEW r \in Runs, NEW pc, NEW j, NEW own, NEW at, NEW undo, Became(r, pc, j, own, at, undo),
               \/ pc \in {"idle", "asked", "resume", "inside", "reread", "through", "end"}
               \/ Carrying(r) /\ j \in {run[r].j, Saved(run[r].j)}
               \/ journal # NoJournal /\ j = journal
        PROVE  Goal
    <2>1. CASE s # r
      BY <1>1, <1>2, <2>1 DEF Became
    <2>2. CASE s = r
      BY <1>2, <2>2 DEF Became, Carrying
    <2> QED BY <2>1, <2>2
  <1>3. ASSUME NEW r \in Runs, NEW pc \in Pcs, GoTo(r, pc), \/ pc \in {"idle", "asked", "resume", "inside", "reread", "through", "end"}
                                                            \/ Carrying(r)
        PROVE  Goal
    BY <1>0, <1>2, <1>3, WentTo
  <1>4. ASSUME NEW r \in Runs, run'[r].pc \in {"idle", "asked", "inside"} \/ (run'[r].pc = "wait" /\ ~run'[r].own),
               \A q \in Runs : q # r => run'[q] = run[q]
        PROVE  Goal
    BY <1>1, <1>4 DEF Carrying
  <1> HIDE DEF Goal
  <1>5. ASSUME NEW r \in Runs, Enter(r) \/ EnterHeld(r) PROVE Goal
    BY <1>3, <1>5 DEF Enter, EnterHeld, Entry, Pcs
  <1>6. ASSUME NEW r \in Runs, Confirm(r) PROVE Goal
    <2> DEFINE w == [run[r] EXCEPT !.pc = "asked", !.sure = TRUE]
    <2>1. w = [run[r] EXCEPT !.pc = "asked", !.sure = TRUE] /\ run' = [run EXCEPT ![r] = w]
      BY <1>6 DEF Confirm
    <2> HIDE DEF w
    <2>2. (\A q \in Runs : q # r => run'[q] = run[q]) /\ run'[r].pc = "asked"
      BY <1>0, <2>1, StepSure
    <2> QED BY <1>4, <2>2
  <1>7. ASSUME NEW r \in Runs, Refuse(r) \/ Leave(r) PROVE Goal
    <2>1. run'[r].pc = "idle" /\ \A q \in Runs : q # r => run'[q] = run[q]
      BY <1>0, <1>7, IdleRun, RunMoves DEF Refuse, Leave
    <2> QED BY <1>4, <2>1
  <1>8. ASSUME NEW r \in Runs, Settle(r) PROVE Goal
    <2>1. PICK m \in Maps :
            LET j == [id |-> lastId + 1, phase |-> "rename", from |-> number, to |-> [b \in Books |-> m[number[b]]]] IN
              TargetsFree(j) /\ SetBuilt(r, j)
      BY <1>8 DEF Settle, SetBuilt
    <2> DEFINE j == [id |-> lastId + 1, phase |-> "rename", from |-> number, to |-> [b \in Books |-> m[number[b]]]]
    <2>2. j \in Journals /\ j.from = number
      <3>1. lastId + 1 \in Ids
        BY <1>0, <1>8, BoundsAssumption DEF Settle, TypeOK, Ids
      <3>2. number \in [Books -> Places] /\ m \in [Places -> Places]
        BY <1>0, MapsAssumption DEF TypeOK
      <3>3. [b \in Books |-> m[number[b]]] \in [Books -> Places]
        BY <3>2
      <3> QED BY <3>1, <3>2, <3>3 DEF Journals
    <2>3. TargetsFree(j) /\ SetBuilt(r, j)
      BY <2>1
    <2> HIDE DEF j
    <2>4. run'[r].j = j /\ \A q \in Runs : q # r => run'[q] = run[q]
      BY <1>0, <2>2, <2>3, SetBuiltStep
    <2>5. \A b \in Books \ Renamed(j) : j.to[b] = number[b]
      BY <2>2 DEF Renamed
    <2>6. CASE s = r
      BY <2>2, <2>3, <2>4, <2>5, <2>6 DEF Goal
    <2>7. CASE s # r
      BY <1>1, <2>4, <2>7
    <2> QED BY <2>6, <2>7
  <1>9. ASSUME NEW r \in Runs, NEW j \in Journals \cup {NoJournal}, NEW o \in BOOLEAN, Begin(r, j, o),
               o => Carrying(r) /\ j = run[r].j
        PROVE  Goal
    <2>2. /\ \A q \in Runs : q # r => run'[q] = run[q]
          /\ run'[r].pc = "wait" /\ run'[r].j = j /\ run'[r].own = o
      BY <1>0, <1>9, Begun DEF Became
    <2>3. CASE o
      BY <1>1, <1>9, <2>2, <2>3 DEF Goal
    <2>4. CASE ~o
      BY <1>4, <2>2, <2>4
    <2> QED BY <2>3, <2>4
  <1>10. ASSUME NEW r \in Runs, ReadJournal(r) \/ WriteJournal(r) PROVE Goal
    <2>1. CASE ReadJournal(r)
      <3>1. GoTo(r, "inside") \/ Begin(r, journal, FALSE)
        BY <2>1 DEF ReadJournal
      <3>2. "inside" \in Pcs /\ journal \in Journals \cup {NoJournal}
        BY <1>0 DEF Pcs, TypeOK
      <3> QED BY <1>3, <1>9, <3>1, <3>2
    <2>2. CASE WriteJournal(r)
      BY <1>0, <1>9, <2>2 DEF WriteJournal, Carrying
    <2> QED BY <1>10, <2>1, <2>2
  <1>11. ASSUME NEW r \in Runs, HoldScans(r) PROVE Goal
    <2>1. SetPcAt(r, IF run[r].own THEN "first" ELSE "reread", 1) /\ run[r].pc = "wait"
      BY <1>11 DEF HoldScans, SetPcAt
    <2>2. 1 \in 0 .. NBooks + 1 /\ (IF run[r].own THEN "first" ELSE "reread") \in Pcs
      BY MapsAssumption DEF Pcs, InJournal
    <2>3. Became(r, IF run[r].own THEN "first" ELSE "reread", run[r].j, run[r].own, 1, run[r].undo)
      BY <1>0, <2>1, <2>2, SetPcAtStep
    <2>4. CASE run[r].own
      BY <1>2, <2>1, <2>3, <2>4 DEF Carrying
    <2>5. CASE ~run[r].own
      BY <1>2, <2>3, <2>5
    <2> QED BY <2>4, <2>5
  <1>12. ASSUME NEW r \in Runs, Reread(r) PROVE Goal
    <2>1. \/ GoTo(r, "through")
          \/ journal # NoJournal /\ SetJournal(r, journal, IF journal.phase = "rename" THEN "first" ELSE "second")
      BY <1>12 DEF Reread, Current, GoTo, SetJournal
    <2>2. ASSUME NEW pc \in {"first", "second"}, SetJournal(r, journal, pc), journal # NoJournal PROVE Goal
      <3>1. Became(r, pc, journal, run[r].own, run[r].at, run[r].undo)
        BY <1>0, <2>2, SetJournalStep DEF TypeOK, Pcs, InJournal
      <3> QED BY <1>2, <2>2, <3>1
    <2>3. CASE GoTo(r, "through")
      BY <1>3, <2>3 DEF Pcs, InJournal
    <2> QED BY <2>1, <2>2, <2>3
  <1>13. ASSUME NEW r \in Runs, NEW a \in 0 .. NBooks + 1, NEW u \in SUBSET Books, run[r].pc \in {"first", "undo", "second"},
                SetAtUndo(r, a, u) \/ SetAt(r, a) \/ SetUndo(r, u)
         PROVE  Goal
    <2>1. Carrying(r)
      BY <1>13 DEF Carrying
    <2>2. CASE SetAtUndo(r, a, u)
      BY <1>0, <1>2, <2>1, <2>2, SetAtUndoStep
    <2>3. CASE SetAt(r, a)
      BY <1>0, <1>2, <2>1, <2>3, SetAtStep
    <2>4. CASE SetUndo(r, u)
      BY <1>0, <1>2, <2>1, <2>4, SetUndoStep
    <2> QED BY <1>13, <2>2, <2>3, <2>4
  <1>14. ASSUME NEW r \in Runs, FirstMove(r) PROVE Goal
    <2>1. run[r].pc = "first" /\ run[r].at + 1 \in 0 .. NBooks + 1
      BY <1>0, <1>14, MapsAssumption DEF FirstMove
    <2>2. \/ Goes(run[r].j, run[r].at) /\ SetAtUndo(r, run[r].at + 1, run[r].undo \cup {run[r].at})
          \/ SetAt(r, run[r].at + 1)
          \/ GoTo(r, "undo")
      BY <1>14 DEF FirstMove, SetAtUndo, SetAt
    <2>3. Goes(run[r].j, run[r].at) => run[r].undo \cup {run[r].at} \in SUBSET Books
      BY <1>0 DEF Goes, Renamed
    <2>4. CASE GoTo(r, "undo")
      BY <1>3, <2>1, <2>4 DEF Pcs, InJournal, Carrying
    <2> QED BY <1>0, <1>13, <2>1, <2>2, <2>3, <2>4
  <1>15. ASSUME NEW r \in Runs, PutBack(r) PROVE Goal
    <2>1. PICK b \in run[r].undo : SetUndo(r, run[r].undo \ {b})
      BY <1>15 DEF PutBack, SetUndo
    <2>2. run[r].pc = "undo" /\ run[r].undo \ {b} \in SUBSET Books
      BY <1>0, <1>15 DEF PutBack
    <2> QED BY <1>0, <1>13, <2>1, <2>2
  <1>16. ASSUME NEW r \in Runs, GoTo(r, "through") \/ GoTo(r, "end") PROVE Goal
    BY <1>3, <1>16 DEF Pcs, InJournal
  <1>17. ASSUME NEW r \in Runs, SaveFinal(r) PROVE Goal
    <2>1. run[r].pc = "first" /\ run[r].j \in Journals /\ Carrying(r)
      BY <1>17 DEF SaveFinal, Held, Loaded, LoadedRun, Carrying
    <2>2. Saved(run[r].j) \in Journals /\ 1 \in 0 .. NBooks + 1
      BY <2>1, MapsAssumption DEF Saved, Journals
    <2>3. SetFinal(r, Saved(run[r].j), 1) \/ GoTo(r, "end")
      BY <1>17 DEF SaveFinal, SetFinal
    <2>4. CASE SetFinal(r, Saved(run[r].j), 1)
      <3>1. Became(r, "second", Saved(run[r].j), run[r].own, 1, run[r].undo)
        BY <1>0, <2>2, <2>4, SetFinalStep
      <3> QED BY <1>2, <2>1, <3>1
    <2> QED BY <1>16, <2>3, <2>4
  <1>18. ASSUME NEW r \in Runs, SecondMove(r) PROVE Goal
    <2>1. run[r].pc = "second" /\ run[r].at + 1 \in 0 .. NBooks + 1
      BY <1>0, <1>18, MapsAssumption DEF SecondMove
    <2>2. SetAt(r, run[r].at + 1) \/ GoTo(r, "end")
      BY <1>18 DEF SecondMove, SetAt
    <2> QED BY <1>0, <1>13, <1>16, <2>1, <2>2
  <1>19. ASSUME NEW r \in Runs, GiveUp(r) \/ Commit(r) PROVE Goal
    BY <1>16, <1>19 DEF GiveUp, Commit
  <1>20. ASSUME NEW r \in Runs, End(r) PROVE Goal
    BY <1>0, <1>4, <1>20, Ended
  <1>21. ASSUME OthersTake \/ OthersLetGo \/ ScanLists \/ ScanIndexes \/ UNCHANGED vars PROVE Goal
    BY <1>1, <1>21 DEF OthersTake, OthersLetGo, ScanLists, ScanIndexes, vars, stored, locks, around
  <1>22. ASSUME Crash PROVE Goal
    BY <1>22, IdleRun DEF Crash, Carrying
  <1>23. Goal
    BY <1>5, <1>6, <1>7, <1>8, <1>10, <1>11, <1>12, <1>14, <1>15, <1>17, <1>18, <1>19, <1>20, <1>21, <1>22 DEF Next, Proceed
  <1> QED BY <1>23 DEF Goal

LEMMA NextCalm == ASSUME Held, Calm, ~supplanted', [Next]_vars PROVE Calm'
  <1> USE MapsAssumption, RunsAssumption, BoundsAssumption
  <1>h. TypeOK' /\ OneHolds' /\ MarkShared' /\ OneSettles'
    BY HeldNext DEF Held
  <1>0. /\ TypeOK /\ OneHolds /\ MarkShared /\ OneSettles /\ OneConfirms /\ Plans /\ Carries /\ Placed /\ Once
        /\ ScanTrue /\ NotMinted
    BY DEF Held, Calm
  <1>t. /\ run \in [Runs -> RunType] /\ \A r \in Runs : run[r] \in RunType
        /\ line \in Seq(Runs) /\ Len(line) \in Nat /\ \A i \in 1 .. Len(line) : line[i] \in Runs
        /\ number \in [Books -> Places] /\ lastId \in Nat /\ share \subseteq Runs
        /\ journal \in Journals \cup {NoJournal}
    <2>1. run \in [Runs -> RunType] /\ line \in Seq(Runs)
      BY <1>0 DEF TypeOK
    <2>2. \A i \in 1 .. Len(line) : line[i] \in Runs
      BY <2>1
    <2> QED BY <1>0, <2>1, <2>2 DEF TypeOK
  <1> USE DEF stored, locks, around
  <1>1. ASSUME NEW r \in Runs, Enter(r) \/ EnterHeld(r) PROVE Calm'
    <2>0. /\ \A s \in Runs : s # r => run'[s] = run[s]
          /\ run'[r].pc \in {"inside", "resume"} /\ run'[r].undo = {}
          /\ UNCHANGED <<disk, number, journal, held, line, lastId, scan, minted>>
      <3>1. GoTo(r, Entry) /\ Entry \in {"inside", "resume"} /\ run[r].pc \in {"idle", "asked"}
            /\ UNCHANGED <<disk, number, journal, held, line, lastId, scan, minted>>
        BY <1>1 DEF Enter, EnterHeld, Entry
      <3>2. Became(r, Entry, run[r].j, run[r].own, run[r].at, run[r].undo)
        BY <1>t, <3>1, WentTo DEF Pcs
      <3>3. run[r].undo = {}
        BY <1>0, <3>1 DEF Carries, CarriedBy
      <3> QED BY <3>1, <3>2, <3>3 DEF Became
    <2>4. OneConfirms'
      BY <1>0, <2>0 DEF OneConfirms
    <2>5. Plans'
      BY <1>0, <2>0 DEF Plans, Sound
    <2>6. Carries'
      <3>1. CarriedBy(r)'
        BY <2>0 DEF CarriedBy
      <3>2. ASSUME NEW s \in Runs, s # r PROVE CarriedBy(s)'
        BY <1>0, <2>0, <3>2 DEF Carries, CarriedBy, Renamed
      <3> QED BY <3>1, <3>2 DEF Carries
    <2>7. Placed'
      BY <1>0, <2>0 DEF Placed, NumberOf, Renamed
    <2>8. Once'
      BY <1>0, <2>0 DEF Once
    <2>9. ScanTrue'
      BY <1>0, <2>0 DEF ScanTrue
    <2>10. NotMinted'
      BY <1>0, <2>0 DEF NotMinted
    <2> QED BY <2>4, <2>5, <2>6, <2>7, <2>8, <2>9, <2>10 DEF Calm
  <1>2. ASSUME NEW r \in Runs, Confirm(r) PROVE Calm'
    <2>0. /\ run' \in [Runs -> RunType] /\ run'[r].pc = "asked" /\ run'[r].sure /\ run[r].pc = "idle"
          /\ run'[r].undo = run[r].undo
          /\ \A s \in Runs : s # r => run'[s] = run[s]
          /\ UNCHANGED <<disk, number, journal, settling, held, line, marked, share,
                         lastId, scan, minted, crashes, faults>>
        <3> DEFINE w == [run[r] EXCEPT !.pc = "asked", !.sure = TRUE]
        <3>3. w = [run[r] EXCEPT !.pc = "asked", !.sure = TRUE] /\ run' = [run EXCEPT ![r] = w]
              /\ run \in [Runs -> RunType]
          BY <1>t, <1>2 DEF Confirm
        <3> HIDE DEF w
        <3>4. /\ run' \in [Runs -> RunType] /\ \A s \in Runs : s # r => run'[s] = run[s]
              /\ run'[r].pc = "asked" /\ run'[r].sure /\ run'[r].undo = run[r].undo
          BY <3>3, StepSure
        <3> QED BY <1>2, <3>4 DEF Confirm
    <2>4. OneConfirms'
      <3>1. \A s \in Runs : run'[s].pc \in {"built", "wait"} => run'[s] = run[s]
        BY <2>0
      <3>2. UNCHANGED <<journal, held, line>>
        BY <2>0
      <3> QED BY <1>0, <3>1, <3>2 DEF OneConfirms
    <2>5. Plans'
      <3>1. \A s \in Runs : run'[s].pc = "built" => run'[s] = run[s]
        BY <2>0
      <3>2. UNCHANGED <<disk, number, journal, lastId>>
        BY <2>0
      <3> QED BY <1>0, <3>1, <3>2 DEF Plans, Sound, File
    <2>6. Carries'
      <3>1. CarriedBy(r)'
        BY <1>0, <2>0 DEF Carries, CarriedBy
      <3>2. ASSUME NEW s \in Runs, s # r PROVE CarriedBy(s)'
        <4>1. run'[s] = run[s] /\ UNCHANGED <<disk, number, journal>> /\ CarriedBy(s)
          BY <1>0, <2>0, <3>2 DEF Carries
        <4> QED BY <4>1 DEF CarriedBy, Renamed
      <3> QED BY <3>1, <3>2 DEF Carries
    <2>7. Placed'
      BY <1>0, <1>t, <2>0 DEF Placed, NumberOf, Renamed, Goes, File, Temp
    <2>8. Once'
      BY <1>0, <1>t, <2>0 DEF Once
    <2>9. ScanTrue'
      BY <1>0, <1>t, <2>0 DEF ScanTrue
    <2>10. NotMinted'
      BY <1>0, <1>t, <2>0 DEF NotMinted
    <2> QED BY <2>4, <2>5, <2>6, <2>7, <2>8, <2>9, <2>10 DEF Calm
  <1>3. ASSUME NEW r \in Runs, Refuse(r) PROVE Calm'
    <2>4. OneConfirms'
      BY <1>0, <1>3 DEF Refuse, GoTo, TypeOK, OneConfirms, RunType, Idle
    <2>5. Plans'
      BY <1>0, <1>3 DEF Refuse, GoTo, TypeOK, Plans, Sound, RunType, Idle
    <2>6. Carries'
      BY <1>0, <1>3 DEF Refuse, GoTo, TypeOK, Carries, CarriedBy, Renamed, RunType, Idle
    <2>7. Placed'
      BY <1>0, <1>3 DEF Refuse, GoTo, TypeOK, Placed, NumberOf, Renamed, RunType, Idle
    <2>8. Once'
      BY <1>0, <1>3 DEF Refuse, GoTo, TypeOK, Once, RunType, Idle
    <2>9. ScanTrue'
      BY <1>0, <1>3 DEF Refuse, GoTo, TypeOK, ScanTrue, RunType, Idle
    <2>10. NotMinted'
      BY <1>0, <1>3 DEF Refuse, GoTo, TypeOK, NotMinted
    <2> QED BY <2>4, <2>5, <2>6, <2>7, <2>8, <2>9, <2>10 DEF Calm
  <1>4. ASSUME NEW r \in Runs, Settle(r) PROVE Calm'
    <2>0. PICK j \in Journals :
                /\ run'[r].j = j /\ run'[r].pc = "built" /\ j.phase = "rename" /\ j.id = lastId + 1
                /\ j.from = number /\ \A a, b \in Books : j.to[a] = j.to[b] => a = b
                /\ TargetsFree(j)
                /\ run' \in [Runs -> RunType] /\ run'[r].undo = {}
                /\ \A s \in Runs : s # r => run'[s] = run[s] /\ run[s].pc \in {"idle", "asked"}
                /\ run[r].pc = "inside" /\ journal = NoJournal /\ held = NoRun /\ line = <<>>
                /\ lastId' = lastId + 1 /\ lastId' \in Ids /\ settling' = r
                /\ UNCHANGED <<disk, number, journal, held, line, marked, share,
                               scan, minted, crashes, faults>>
        <3>1. PICK j \in Journals :
                /\ j.phase = "rename" /\ j.id = lastId + 1 /\ j.from = number /\ TargetsFree(j)
                /\ \A a, b \in Books : j.to[a] = j.to[b] => a = b
                /\ run' = [run EXCEPT ![r] = [@ EXCEPT !.pc = "built", !.j = j]]
          <4>1. PICK m \in Maps :
                  LET j == [id |-> lastId + 1, phase |-> "rename", from |-> number, to |-> [b \in Books |-> m[number[b]]]]
                  IN  TargetsFree(j) /\ run' = [run EXCEPT ![r] = [@ EXCEPT !.pc = "built", !.j = j]]
            BY <1>4 DEF Settle
          <4> DEFINE to == [b \in Books |-> m[number[b]]]
          <4>2. lastId + 1 \in Ids
            BY <1>0, <1>4 DEF TypeOK, Settle, Ids
          <4>3. to \in [Books -> Places]
            BY <1>t
          <4>4. \A a, b \in Books : to[a] = to[b] => a = b
            BY <1>0, <1>t DEF Plans
          <4> HIDE DEF to
          <4> DEFINE j == [id |-> lastId + 1, phase |-> "rename", from |-> number, to |-> to]
          <4>5. j \in Journals
            BY <1>t, <4>2, <4>3 DEF Journals
          <4>6. TargetsFree(j) /\ run' = [run EXCEPT ![r] = [@ EXCEPT !.pc = "built", !.j = j]]
            BY <4>1 DEF to
          <4>7. j.phase = "rename" /\ j.id = lastId + 1 /\ j.from = number /\ j.to = to
            OBVIOUS
          <4> HIDE DEF j
          <4> QED BY <4>4, <4>5, <4>6, <4>7
        <3>2. /\ SetBuilt(r, j)
              /\ j \in Journals \cup {NoJournal} /\ run \in [Runs -> RunType]
          BY <1>t, <3>1 DEF SetBuilt
        <3>3. /\ run' \in [Runs -> RunType] /\ \A s \in Runs : s # r => run'[s] = run[s]
              /\ run'[r].j = j /\ run'[r].pc = "built"
              /\ run'[r].undo = run[r].undo
          BY <3>2, SetBuiltStep
        <3>7. \A s \in Runs : s # r => run[s].pc \in {"idle", "asked"}
          BY <1>4 DEF Settle, Alone, Inside
        <3>8. run[r].pc = "inside" /\ journal = NoJournal /\ run[r].undo = {}
          BY <1>0, <1>4 DEF Settle, Carries, CarriedBy
        <3>9. held = NoRun
          BY <1>0, <3>7, <3>8 DEF OneHolds, Holding, TypeOK
        <3>10. line = <<>>
          <4>1. \A i \in 1 .. Len(line) : line[i] \in Runs
            BY <1>0 DEF TypeOK
          <4>2. Len(line) = 0
            BY <1>0, <4>1, <3>7, <3>8 DEF TypeOK, MarkShared
          <4> QED BY <4>2, <1>0, EmptySeq DEF TypeOK
        <3>14. UNCHANGED <<disk, number, journal, held, line, marked, share, scan, minted, crashes, faults>>
               /\ lastId' = lastId + 1 /\ settling' = r
          BY <1>4 DEF Settle
        <3>15. lastId + 1 \in Ids
          BY <1>0, <1>4 DEF TypeOK, Settle, Ids
        <3> QED BY <3>1, <3>3, <3>7, <3>8, <3>9, <3>10, <3>14, <3>15
    <2>4. OneConfirms'
      BY <1>0, <1>t, <2>0 DEF OneConfirms
    <2>5. Plans'
      <3>2. \A b \in Books : disk[File(j.to[b])] # Stray
        <4> SUFFICES ASSUME NEW b \in Books PROVE disk[File(j.to[b])] # Stray
          OBVIOUS
        <4>1. CASE j.from[b] = j.to[b]
          BY <1>0, <2>0, <4>1 DEF Plans
        <4>2. CASE j.from[b] # j.to[b]
          <5>1. disk[File(j.to[b])] = None \/ \E a \in Books : j.from[a] = j.to[b]
            BY <2>0, <4>2 DEF TargetsFree, Renamed
          <5>2. None # Stray
            BY MapsAssumption DEF None, Stray
          <5> QED BY <1>0, <2>0, <5>1, <5>2 DEF Plans
        <4> QED BY <4>1, <4>2
      <3>3. \A p \in Places : disk'[<<p, lastId'>>] = None
        BY <1>0, <2>0 DEF Placed, TypeOK
      <3>4. Sound(j)'
        <4>1. lastId' = lastId + 1 /\ disk' = disk /\ number' = number /\ j.id = lastId + 1 /\ j.from = number
              /\ \A a, b \in Books : j.to[a] = j.to[b] => a = b
          BY <2>0
        <4>2. j.id <= lastId'
          <5>1. lastId \in Nat
            BY <1>t
          <5> QED BY ONLY <4>1, <5>1
        <4> QED BY <3>2, <4>1, <4>2 DEF Sound
      <3>5. run'[r].j = j /\ j.phase = "rename" /\ j.id = lastId' /\ \A s \in Runs : s # r => run'[s].pc # "built"
        BY <2>0
      <3>6. journal' = NoJournal /\ disk' = disk /\ number' = number
        BY <2>0
      <3>7. \A s \in Runs : run'[s].pc = "built" => s = r
        BY <3>5
      <3>8. \A a, b \in Books : number[a] = number[b] => a = b
        BY <1>0 DEF Plans
      <3>9. \A b \in Books : disk[File(number[b])] # Stray
        BY <1>0 DEF Plans
      <3>10. \A s \in Runs : run'[s].pc = "built" =>
                /\ Sound(run[s].j)' /\ run'[s].j.phase = "rename" /\ run'[s].j.id = lastId'
                /\ \A p \in Places : disk'[<<p, lastId'>>] = None
        BY <3>3, <3>4, <3>5, <3>7
      <3> QED BY <3>6, <3>8, <3>9, <3>10 DEF Plans
    <2>6. Carries'
      BY <1>0, <1>t, <2>0 DEF Carries, CarriedBy, Renamed, Goes, File, Temp
    <2>7. Placed'
      BY <1>0, <1>t, <2>0 DEF Placed, NumberOf, Renamed, Goes, File, Temp
    <2>8. Once'
      BY <1>0, <1>t, <2>0 DEF Once
    <2>9. ScanTrue'
      BY <1>0, <1>t, <2>0 DEF ScanTrue
    <2>10. NotMinted'
      BY <1>0, <1>t, <2>0 DEF NotMinted
    <2> QED BY <2>4, <2>5, <2>6, <2>7, <2>8, <2>9, <2>10 DEF Calm
  <1>5. ASSUME NEW r \in Runs, ReadJournal(r) PROVE Calm'
    <2>1. CASE journal = NoJournal
      <3>0. /\ run' \in [Runs -> RunType] /\ \A s \in Runs : s # r => run'[s] = run[s]
            /\ run'[r].pc = "inside" /\ run[r].pc = "resume" /\ run'[r].undo = run[r].undo
            /\ run'[r].sure = run[r].sure
            /\ UNCHANGED <<disk, number, journal, settling, held, line, marked, share,
                           lastId, scan, minted, crashes, faults>>
        <4>1. GoTo(r, "inside") /\ "inside" \in Pcs
          BY <2>1, <1>5 DEF ReadJournal, Pcs
        <4>2. Became(r, "inside", run[r].j, run[r].own, run[r].at, run[r].undo)
          BY <1>t, <4>1, WentTo
        <4>3. /\ run' \in [Runs -> RunType] /\ \A s \in Runs : s # r => run'[s] = run[s]
              /\ run'[r].pc = "inside" /\ run'[r].undo = run[r].undo /\ run'[r].sure = run[r].sure
          BY <4>2 DEF Became
        <4> QED BY <2>1, <4>3, <1>5 DEF ReadJournal
      <3>4. OneConfirms'
        BY <1>0, <1>t, <2>1, <3>0 DEF OneConfirms
      <3>5. Plans'
        <4>1. \A s \in Runs : run'[s].pc = "built" => s # r /\ run[s].pc = "built" /\ run'[s] = run[s]
          BY <3>0
        <4>2. disk' = disk /\ number' = number /\ journal' = journal /\ lastId' = lastId
          BY <3>0
        <4> QED BY <1>0, <4>1, <4>2 DEF Plans, Sound
      <3>6. Carries'
        BY <1>0, <1>t, <2>1, <3>0 DEF Carries, CarriedBy, Renamed, Goes, File, Temp
      <3>7. Placed'
        BY <1>0, <1>t, <2>1, <3>0 DEF Placed, NumberOf, Renamed, Goes, File, Temp
      <3>8. Once'
        BY <1>0, <1>t, <2>1, <3>0 DEF Once
      <3>9. ScanTrue'
        BY <1>0, <1>t, <2>1, <3>0 DEF ScanTrue
      <3>10. NotMinted'
        BY <1>0, <1>t, <2>1, <3>0 DEF NotMinted
      <3> QED BY <3>4, <3>5, <3>6, <3>7, <3>8, <3>9, <3>10 DEF Calm
    <2>2. CASE journal # NoJournal
      <3>0. /\ run' \in [Runs -> RunType] /\ \A s \in Runs : s # r => run'[s] = run[s]
            /\ run'[r].pc = "wait" /\ run[r].pc = "resume" /\ run'[r].undo = run[r].undo
            /\ run'[r].sure = run[r].sure /\ ~run'[r].own
            /\ line' \in Seq(Runs) /\ Len(line') = Len(line) + 1
            /\ \A i \in 1 .. Len(line) : line'[i] = line[i]
            /\ line'[Len(line) + 1] = r
            /\ \A s \in Runs : run[s].pc # "built"
            /\ UNCHANGED <<disk, number, journal, held, lastId, scan, minted>>
        <4> DEFINE w == [run[r] EXCEPT !.pc = "wait", !.j = journal, !.own = FALSE]
        <4>1. /\ w = [run[r] EXCEPT !.pc = "wait", !.j = journal, !.own = FALSE] /\ run' = [run EXCEPT ![r] = w]
              /\ run \in [Runs -> RunType] /\ journal \in Journals \cup {NoJournal} /\ FALSE \in BOOLEAN
          BY <1>t, <2>2, <1>5 DEF ReadJournal, Begin
        <4> HIDE DEF w
        <4>2. /\ run' \in [Runs -> RunType] /\ \A s \in Runs : s # r => run'[s] = run[s]
              /\ run'[r].pc = "wait" /\ run'[r].undo = run[r].undo /\ run'[r].sure = run[r].sure
              /\ run'[r].own = FALSE
          BY <4>1, StepOwn
        <4>3. line' = Append(line, r) /\ run[r].pc = "resume"
          BY <2>2, <1>5 DEF ReadJournal, Begin
        <4>4. /\ line' \in Seq(Runs) /\ Len(line') = Len(line) + 1
              /\ \A i \in 1 .. Len(line) : line'[i] = line[i]
              /\ line'[Len(line) + 1] = r
          BY <1>t, <4>3, AppendProperties
        <4>5. \A s \in Runs : run[s].pc # "built"
          BY <1>0, <2>2 DEF OneConfirms
        <4> QED BY <2>2, <4>2, <4>3, <4>4, <4>5, <1>5 DEF ReadJournal
      <3>4. OneConfirms'
        BY <1>0, <1>t, <2>2, <3>0 DEF OneConfirms
      <3>5. Plans'
        <4>1. \A s \in Runs : run'[s].pc = "built" => s # r /\ run[s].pc = "built" /\ run'[s] = run[s]
          BY <3>0
        <4>2. disk' = disk /\ number' = number /\ journal' = journal /\ lastId' = lastId
          BY <3>0
        <4> QED BY <1>0, <4>1, <4>2 DEF Plans, Sound
      <3>6. Carries'
        <4>1. CarriedBy(r)'
          BY <1>0, <3>0 DEF Carries, CarriedBy
        <4>2. ASSUME NEW s \in Runs, s # r PROVE CarriedBy(s)'
          BY <1>0, <3>0, <4>2 DEF Carries, CarriedBy, Renamed
        <4> QED BY <4>1, <4>2 DEF Carries
      <3>7. Placed'
        BY <1>0, <1>t, <2>2, <3>0 DEF Placed, NumberOf, Renamed, Goes, File, Temp
      <3>8. Once'
        BY <1>0, <1>t, <2>2, <3>0 DEF Once
      <3>9. ScanTrue'
        BY <1>0, <1>t, <2>2, <3>0 DEF ScanTrue
      <3>10. NotMinted'
        BY <1>0, <1>t, <2>2, <3>0 DEF NotMinted
      <3> QED BY <3>4, <3>5, <3>6, <3>7, <3>8, <3>9, <3>10 DEF Calm
    <2> QED BY <2>1, <2>2
  <1>6. ASSUME NEW r \in Runs, Leave(r) PROVE Calm'
    <2>4. OneConfirms'
      BY <1>0, <1>6 DEF Leave, GoTo, TypeOK, OneConfirms, RunType, Idle
    <2>5. Plans'
      BY <1>0, <1>6 DEF Leave, GoTo, TypeOK, Plans, Sound, RunType, Idle
    <2>6. Carries'
      BY <1>0, <1>6 DEF Leave, GoTo, TypeOK, Carries, CarriedBy, Renamed, RunType, Idle
    <2>7. Placed'
      BY <1>0, <1>6 DEF Leave, GoTo, TypeOK, Placed, NumberOf, Renamed, RunType, Idle
    <2>8. Once'
      BY <1>0, <1>6 DEF Leave, GoTo, TypeOK, Once, RunType, Idle
    <2>9. ScanTrue'
      BY <1>0, <1>6 DEF Leave, GoTo, TypeOK, ScanTrue, RunType, Idle
    <2>10. NotMinted'
      BY <1>0, <1>6 DEF Leave, GoTo, TypeOK, NotMinted
    <2> QED BY <2>4, <2>5, <2>6, <2>7, <2>8, <2>9, <2>10 DEF Calm
  <1>7. ASSUME NEW r \in Runs, WriteJournal(r) PROVE Calm'
    <2>0. /\ run' \in [Runs -> RunType] /\ \A s \in Runs : s # r => run'[s] = run[s]
          /\ run'[r].pc = "wait" /\ run[r].pc = "built" /\ run'[r].undo = run[r].undo
          /\ run'[r].own /\ run'[r].j = run[r].j
          /\ line' \in Seq(Runs) /\ Len(line') = 1 /\ line'[1] = r /\ line' # <<>>
          /\ line = <<>> /\ Len(line) = 0 /\ held = NoRun /\ journal = NoJournal
          /\ journal' = run[r].j /\ journal' \in Journals /\ journal' # NoJournal /\ journal'.phase = "rename"
          /\ Sound(run[r].j) /\ run[r].j.id = lastId /\ \A p \in Places : disk[<<p, lastId>>] = None
          /\ \A s \in Runs : s # r => run[s].pc # "built"
          /\ \A s \in Runs : run[s].pc \notin Holding
          /\ \A s \in Runs : ~(run[s].pc = "wait" /\ run[s].own)
          /\ UNCHANGED <<disk, number, settling, held, lastId, scan, minted, crashes, faults>>
        <3> DEFINE i == run[r].j
        <3> DEFINE w == [run[r] EXCEPT !.pc = "wait", !.j = i, !.own = TRUE]
        <3>0. i = run[r].j
          OBVIOUS
        <3> HIDE DEF i
        <3>1. run[r].pc = "built" /\ journal' = i /\ line' = Append(line, r)
          BY <1>7, <3>0 DEF WriteJournal, Begin
        <3>2. Sound(i) /\ i \in Journals /\ i.phase = "rename" /\ i.id = lastId
              /\ \A p \in Places : disk[<<p, lastId>>] = None
          BY <1>0, <3>0, <3>1 DEF Plans, Sound
        <3>3. held = NoRun /\ line = <<>> /\ journal = NoJournal
          BY <1>0, <3>1 DEF OneConfirms
        <3>4. /\ w = [run[r] EXCEPT !.pc = "wait", !.j = i, !.own = TRUE] /\ run' = [run EXCEPT ![r] = w]
              /\ run \in [Runs -> RunType] /\ i \in Journals \cup {NoJournal} /\ TRUE \in BOOLEAN
          BY <1>t, <3>0, <3>2, <1>7 DEF WriteJournal, Begin
        <3> HIDE DEF w
        <3>5. /\ run' \in [Runs -> RunType] /\ \A s \in Runs : s # r => run'[s] = run[s]
              /\ run'[r].pc = "wait" /\ run'[r].undo = run[r].undo /\ run'[r].sure = run[r].sure
              /\ run'[r].own = TRUE /\ run'[r].j = i
          BY <3>4, StepOwn
        <3>6. line' \in Seq(Runs) /\ Len(line') = 1 /\ line'[1] = r /\ line' # <<>> /\ Len(line) = 0
          BY <3>1, <3>3
        <3>7. i # NoJournal
          BY <3>2, JournalKinds
        <3>8. \A s \in Runs : s # r => run[s].pc # "built"
          BY <1>0, <3>1 DEF OneSettles, Settling
        <3>9. \A s \in Runs : run[s].pc \notin Holding
          BY <1>0, <3>3, RunsAssumption DEF OneHolds
        <3>10. \A s \in Runs : ~(run[s].pc = "wait" /\ run[s].own)
          BY <1>0, <3>1, <3>3 DEF OneConfirms
        <3>11. UNCHANGED <<disk, number, settling, held, lastId, scan, minted, crashes, faults>>
          BY <1>7 DEF WriteJournal
        <3> QED BY <3>0, <3>1, <3>2, <3>3, <3>5, <3>6, <3>7, <3>8, <3>9, <3>10, <3>11
    <2>4. OneConfirms'
      BY <1>0, <1>t, <2>0 DEF OneConfirms
    <2>5. Plans'
      BY <1>0, <1>t, <2>0 DEF Plans, Sound, Goes, File, Temp
    <2>6. Carries'
      BY <1>0, <1>t, <2>0 DEF Carries, CarriedBy, Renamed, Goes, File, Temp
    <2>7. Placed'
      BY <1>0, <1>t, <2>0 DEF Placed, NumberOf, Renamed, Goes, File, Temp
    <2>8. Once'
      BY <1>0, <1>t, <2>0 DEF Once
    <2>9. ScanTrue'
      BY <1>0, <1>t, <2>0 DEF ScanTrue
    <2>10. NotMinted'
      BY <1>0, <1>t, <2>0 DEF NotMinted
    <2> QED BY <2>4, <2>5, <2>6, <2>7, <2>8, <2>9, <2>10 DEF Calm
  <1>8. ASSUME NEW r \in Runs, HoldScans(r) PROVE Calm'
    <2>0. /\ run' \in [Runs -> RunType] /\ \A s \in Runs : s # r => run'[s] = run[s]
          /\ run[r].pc = "wait" /\ run'[r].pc \in {"first", "reread"} /\ run'[r].at = 1
          /\ run'[r].pc = "first" => run[r].own
          /\ run'[r].j = run[r].j /\ run'[r].sure = run[r].sure /\ run'[r].own = run[r].own
          /\ run'[r].undo = {}
          /\ run[r].own => journal = run[r].j /\ journal # NoJournal /\ journal.phase = "rename"
          /\ line # <<>> /\ r = line[1] /\ Len(line) >= 1 /\ line' \in Seq(Runs) /\ Len(line') = Len(line) - 1
          /\ \A i \in 1 .. Len(line') : line'[i] = line[i + 1] /\ i + 1 \in 1 .. Len(line)
          /\ held = NoRun /\ held' = r /\ scan = NotScanning
          /\ \A s \in Runs : run[s].pc \notin Holding /\ run[s].pc # "built"
          /\ \A s \in Runs : run[s].pc = "wait" /\ run[s].own => s = r
          /\ UNCHANGED <<disk, number, journal, settling, marked, share,
                         lastId, scan, minted, crashes, faults>>
        <3> DEFINE pc == IF run[r].own THEN "first" ELSE "reread"
        <3>1. pc \in {"first", "reread"} /\ (pc = "first" => run[r].own)
          OBVIOUS
        <3>2. 1 \in 0 .. NBooks + 1 /\ pc \in Pcs
          BY MapsAssumption, <3>1 DEF Pcs, InJournal
        <3>3. SetPcAt(r, pc, 1)
          BY <1>8 DEF HoldScans, SetPcAt
        <3> HIDE DEF pc
        <3>4. Became(r, pc, run[r].j, run[r].own, 1, run[r].undo)
          BY <1>t, <3>2, <3>3, SetPcAtStep
        <3>5. run[r].pc = "wait" /\ line # <<>> /\ r = Head(line) /\ held = NoRun /\ scan = NotScanning
              /\ held' = r /\ line' = Tail(line)
          BY <1>8 DEF HoldScans, Woken
        <3>6. /\ r = line[1] /\ Len(line) >= 1 /\ line' \in Seq(Runs) /\ Len(line') = Len(line) - 1
              /\ \A i \in 1 .. Len(line') : line'[i] = line[i + 1] /\ i + 1 \in 1 .. Len(line)
          BY <1>t, <3>5, HeadTailProperties
        <3>7. run[r].undo = {}
          BY <1>0, <3>5 DEF Carries, CarriedBy
        <3>8. run[r].own => journal = run[r].j /\ journal # NoJournal /\ journal.phase = "rename"
          BY <1>0, <3>5 DEF OneConfirms
        <3>9. \A s \in Runs : run[s].pc \notin Holding /\ run[s].pc # "built"
          BY <1>0, <3>5, RunsAssumption DEF OneHolds, OneConfirms
        <3>10. \A s \in Runs : run[s].pc = "wait" /\ run[s].own => s = r
          BY <1>0, <3>6 DEF OneConfirms
        <3>11. UNCHANGED <<disk, number, journal, settling, marked, share,
                         lastId, scan, minted, crashes, faults>>
          BY <1>8 DEF HoldScans
        <3> QED BY <3>1, <3>4, <3>5, <3>6, <3>7, <3>8, <3>9, <3>10, <3>11 DEF Became
    <2>4. OneConfirms'
      BY <1>0, <1>t, <2>0 DEF OneConfirms
    <2>5. Plans'
      <3>1. \A s \in Runs : run'[s].pc # "built"
        BY <2>0
      <3> QED BY <1>0, <2>0, <3>1 DEF Plans, Sound
    <2>6. Carries'
      <3>1. CarriedBy(r)'
        <4>1. \A b \in Books : ~(b < 1)
          BY DEF Books
        <4> QED BY <2>0, <4>1 DEF CarriedBy, Renamed
      <3>2. ASSUME NEW s \in Runs, s # r PROVE CarriedBy(s)'
        <4>1. CarriedBy(s)
          BY <1>0 DEF Carries
        <4> QED BY <3>2, <4>1, <2>0 DEF CarriedBy
      <3> QED BY <3>1, <3>2 DEF Carries
    <2>7. Placed'
      BY <1>0, <1>t, <2>0 DEF Placed, NumberOf, Renamed, Goes, File, Temp
    <2>8. Once'
      BY <1>0, <1>t, <2>0 DEF Once
    <2>9. ScanTrue'
      BY <1>0, <1>t, <2>0 DEF ScanTrue
    <2>10. NotMinted'
      BY <1>0, <1>t, <2>0 DEF NotMinted
    <2> QED BY <2>4, <2>5, <2>6, <2>7, <2>8, <2>9, <2>10 DEF Calm
  <1>9. ASSUME NEW r \in Runs, Reread(r) PROVE Calm'
    <2>0. /\ run' \in [Runs -> RunType] /\ \A s \in Runs : s # r => run'[s] = run[s]
          /\ run[r].pc = "reread" /\ run'[r].at = 1 /\ run'[r].undo = {}
          /\ run'[r].sure = run[r].sure /\ run'[r].own = run[r].own
          /\ \/ run'[r].pc = "through"
             \/ /\ journal # NoJournal /\ run'[r].j = journal
                /\ \/ run'[r].pc = "first" /\ journal.phase = "rename"
                   \/ run'[r].pc = "second" /\ journal.phase = "final"
          /\ held = r /\ held # NoRun /\ scan = NotScanning
          /\ \A s \in Runs : s # r => run[s].pc \notin Holding
          /\ \A s \in Runs : run[s].pc # "built" /\ ~(run[s].pc = "wait" /\ run[s].own)
          /\ UNCHANGED <<disk, number, journal, settling, held, line, marked, share,
                         lastId, scan, minted, crashes, faults>>
        <3>1. run[r].pc = "reread" /\ run[r].pc \in Holding
          BY <1>9 DEF Reread, Holding
        <3>2. /\ held = r /\ held # NoRun /\ scan = NotScanning
              /\ \A s \in Runs : s # r => run[s].pc \notin Holding
              /\ \A s \in Runs : run[s].pc # "built" /\ ~(run[s].pc = "wait" /\ run[s].own)
          BY <1>0, <3>1, Holder
        <3>3. run[r].at = 1 /\ run[r].undo = {}
          BY <1>0, <3>1 DEF Carries, CarriedBy
        <3>4. /\ run' \in [Runs -> RunType] /\ \A s \in Runs : s # r => run'[s] = run[s]
              /\ run'[r].at = run[r].at /\ run'[r].undo = run[r].undo
              /\ run'[r].sure = run[r].sure /\ run'[r].own = run[r].own
              /\ \/ run'[r].pc = "through"
                 \/ /\ journal # NoJournal /\ run'[r].j = journal
                    /\ \/ run'[r].pc = "first" /\ journal.phase = "rename"
                       \/ run'[r].pc = "second" /\ journal.phase = "final"
          <4>1. CASE journal = NoJournal \/ journal.id # run[r].j.id
            <5>1. GoTo(r, "through") /\ "through" \in Pcs
              BY <1>9, <4>1 DEF Reread, Current, GoTo, Pcs, InJournal
            <5>2. Became(r, "through", run[r].j, run[r].own, run[r].at, run[r].undo)
              BY <1>t, <5>1, WentTo
            <5> QED BY <5>2 DEF Became
          <4>2. CASE ~(journal = NoJournal \/ journal.id # run[r].j.id)
            <5>1. journal \in Journals /\ journal # NoJournal /\ journal.phase \in {"rename", "final"}
              BY <1>t, <4>2, JournalKinds
            <5> DEFINE pc == IF journal.phase = "rename" THEN "first" ELSE "second"
            <5>2. SetJournal(r, journal, pc)
              BY <1>9, <4>2 DEF Reread, Current, SetJournal
            <5>3. pc \in Pcs /\ journal \in Journals \cup {NoJournal}
              BY <5>1 DEF Pcs, InJournal
            <5>4. (pc = "first" /\ journal.phase = "rename") \/ (pc = "second" /\ journal.phase = "final")
              BY <5>1
            <5> HIDE DEF pc
            <5>5. Became(r, pc, journal, run[r].own, run[r].at, run[r].undo)
              BY <1>t, <5>2, <5>3, SetJournalStep
            <5> QED BY <5>1, <5>4, <5>5 DEF Became
          <4> QED BY <4>1, <4>2
        <3>5. UNCHANGED <<disk, number, journal, settling, held, line, marked, share,
                         lastId, scan, minted, crashes, faults>>
          BY <1>9 DEF Reread
        <3> QED BY <3>1, <3>2, <3>3, <3>4, <3>5
    <2>4. OneConfirms'
      BY <1>0, <1>t, <2>0 DEF OneConfirms
    <2>5. Plans'
      BY <1>0, <1>t, <2>0 DEF Plans, Sound, Goes, File, Temp
    <2>6. Carries'
      <3>1. CarriedBy(r)'
        <4>1. \A b \in Books : ~(b < 1)
          BY DEF Books
        <4> QED BY <2>0, <4>1 DEF CarriedBy, Renamed
      <3>2. ASSUME NEW s \in Runs, s # r PROVE CarriedBy(s)'
        <4>1. CarriedBy(s)
          BY <1>0 DEF Carries
        <4> QED BY <3>2, <4>1, <2>0 DEF CarriedBy
      <3> QED BY <3>1, <3>2 DEF Carries
    <2>7. Placed'
      BY <1>0, <1>t, <2>0 DEF Placed, NumberOf, Renamed, Goes, File, Temp
    <2>8. Once'
      BY <1>0, <1>t, <2>0 DEF Once
    <2>9. ScanTrue'
      BY <1>0, <1>t, <2>0 DEF ScanTrue
    <2>10. NotMinted'
      BY <1>0, <1>t, <2>0 DEF NotMinted
    <2> QED BY <2>4, <2>5, <2>6, <2>7, <2>8, <2>9, <2>10 DEF Calm
  <1>10. ASSUME NEW r \in Runs, FirstMove(r) PROVE Calm'
    <2>0. /\ held = r /\ held # NoRun /\ scan = NotScanning
          /\ \A s \in Runs : s # r => run[s].pc \notin Holding
          /\ \A s \in Runs : run[s].pc # "built" /\ ~(run[s].pc = "wait" /\ run[s].own)
          /\ run[r].j = journal /\ journal \in Journals /\ journal # NoJournal /\ CarriedBy(r)
          /\ Sound(journal) /\ journal.id <= lastId /\ journal.from = number
          /\ \A a, b \in Books : journal.from[a] = journal.from[b] => a = b
          /\ \A a, b \in Books : journal.to[a] = journal.to[b] => a = b
          /\ \A b \in Books : disk[File(journal.from[b])] # Stray /\ disk[File(journal.to[b])] # Stray
          /\ run[r].pc = "first" /\ journal.phase = "rename"
          /\ run[r].at \in Books /\ run[r].at + 1 \in 0 .. NBooks + 1
          /\ File(journal.from[run[r].at]) \in Names /\ Temp(journal, run[r].at) \in Names
          /\ File(journal.from[run[r].at]) # Temp(journal, run[r].at)
          /\ disk \in [Names -> Books \cup {Stray, None}]
      <3>1. run[r].pc = "first" /\ run[r].at <= NBooks
        BY <1>10 DEF FirstMove
      <3>2. /\ journal.phase = "rename" /\ run[r].at >= 1
        BY <1>0, <3>1 DEF Carries, CarriedBy
      <3>3. run[r].at \in 0 .. NBooks + 1
        BY <1>t DEF RunType
      <3>4. run[r].at \in Books /\ run[r].at + 1 \in 0 .. NBooks + 1
        BY <3>1, <3>2, <3>3, MapsAssumption DEF Books
      <3>5. journal \in Journals
        BY <1>0, <3>1, Renaming
      <3>6. /\ File(journal.from[run[r].at]) \in Names /\ Temp(journal, run[r].at) \in Names
            /\ File(journal.from[run[r].at]) # Temp(journal, run[r].at)
        BY <3>4, <3>5, JournalKinds, NamesOf
      <3>7. disk \in [Names -> Books \cup {Stray, None}]
        BY <1>0 DEF TypeOK
      <3> QED BY <1>0, <3>1, <3>2, <3>4, <3>6, <3>7, Renaming
    <2> DEFINE b == run[r].at
               n == File(journal.from[b])
               m == Temp(journal, b)
    <2>1. CASE Goes(journal, b) /\ Rename(n, m) /\ SetAtUndo(r, b + 1, run[r].undo \cup {b}) /\ UNCHANGED faults
      <3>0. /\ run' \in [Runs -> RunType] /\ \A s \in Runs : s # r => run'[s] = run[s]
            /\ run'[r].pc = "first" /\ run'[r].j = journal /\ run'[r].at = b + 1
            /\ run'[r].undo = run[r].undo \cup {b} /\ b \in Renamed(journal)
            /\ run'[r].sure = run[r].sure /\ run'[r].own = run[r].own
            /\ disk' \in [Names -> Books \cup {Stray, None}] /\ disk'[n] = None /\ disk'[m] = b
            /\ \A k \in Names : k # n /\ k # m => disk'[k] = disk[k]
            /\ disk[n] = b /\ disk[m] = None /\ Once'
            /\ \A p \in Places : disk'[File(p)] = disk[File(p)] \/ disk'[File(p)] = None
            /\ UNCHANGED <<number, journal, settling, held, line, marked, share,
                           lastId, scan, minted, crashes, faults>>
        <4>1. b \in Renamed(journal) /\ disk[m] = None /\ disk[n] # None
          BY <2>1 DEF Goes
        <4>2. disk[n] = b
          BY <1>0, <2>0, <4>1, OwnPlace
        <4>3. Became(r, run[r].pc, run[r].j, run[r].own, b + 1, run[r].undo \cup {b})
          <5>1. run[r].undo \cup {b} \in SUBSET Books
            BY <1>t, <2>0 DEF RunType
          <5> QED BY <1>t, <2>0, <2>1, <5>1, SetAtUndoStep
        <4>4. /\ disk' \in [Names -> Books \cup {Stray, None}] /\ disk'[n] = None /\ disk'[m] = disk[n]
              /\ \A k \in Names : k # n /\ k # m => disk'[k] = disk[k]
          BY <2>0, <2>1, Moved
        <4>5. Once'
          BY <1>0, <2>0, <2>1, <4>1, MovedOnce
        <4>6. \A p \in Places : disk'[File(p)] = disk[File(p)] \/ disk'[File(p)] = None
          BY <2>0, <4>4, JournalKinds, NamesOf
        <4>7. UNCHANGED <<number, journal, settling, held, line, marked, share,
                           lastId, scan, minted, crashes, faults>>
          BY <1>10, <2>1 DEF FirstMove
        <4> HIDE DEF b, n, m
        <4> QED BY <2>0, <4>1, <4>2, <4>3, <4>4, <4>5, <4>6, <4>7 DEF Became
      <3>4. OneConfirms'
        <4>1. \A s \in Runs : run'[s].pc # "built" /\ ~(run'[s].pc = "wait" /\ run'[s].own)
          BY <2>0, <3>0
        <4> QED BY <4>1 DEF OneConfirms
      <3>5. Plans'
        <4>1. /\ \A bk \in Books : disk[File(number[bk])] # Stray => disk'[File(number[bk])] # Stray
              /\ \A bk \in Books : disk[File(journal.to[bk])] # Stray => disk'[File(journal.to[bk])] # Stray
          <5>1. \A bk \in Books : number[bk] \in Places /\ journal.to[bk] \in Places
            BY <1>t, <2>0, JournalKinds
          <5>2. None # Stray
            BY MapsAssumption DEF None, Stray
          <5> QED BY <2>0, <3>0, <5>1, <5>2
        <4>2. UNCHANGED <<number, journal, lastId>> /\ \A s \in Runs : run'[s].pc # "built"
          BY <2>0, <3>0
        <4>3. Sound(journal)'
          BY <2>0, <4>1, <4>2 DEF Sound
        <4>4. \A bk \in Books : disk'[File(number'[bk])] # Stray
          BY <1>0, <4>1, <4>2 DEF Plans
        <4>5. \A a, bk \in Books : number'[a] = number'[bk] => a = bk
          BY <1>0, <4>2 DEF Plans
        <4> QED BY <4>2, <4>3, <4>4, <4>5 DEF Plans
      <3>6. Carries'
        <4>1. CarriedBy(r)'
          <5>1. \A c \in Renamed(journal) : c < b + 1 => disk'[File(journal.from[c])] = None
            <6> SUFFICES ASSUME NEW c \in Renamed(journal), c < b + 1 PROVE disk'[File(journal.from[c])] = None
              OBVIOUS
            <6>1. c \in Books /\ journal.from[c] \in Places
              BY <2>0, JournalKinds DEF Renamed
            <6>2. c = b \/ c < b
              BY <2>0, <6>1 DEF Books
            <6>3. CASE c = b
              BY <3>0, <6>3
            <6>4. CASE c < b
              BY <2>0, <3>0, <6>1, <6>4 DEF CarriedBy
            <6> QED BY <6>2, <6>3, <6>4
          <5>2. \A c \in run[r].undo \cup {b} : c \in Renamed(journal) /\ disk'[Temp(journal, c)] = c
            <6> SUFFICES ASSUME NEW c \in run[r].undo \cup {b} PROVE c \in Renamed(journal) /\ disk'[Temp(journal, c)] = c
              OBVIOUS
            <6>1. CASE c = b
              BY <3>0, <6>1
            <6>2. CASE c \in run[r].undo /\ c # b
              <7>1. c \in Renamed(journal) /\ disk[Temp(journal, c)] = c
                BY <2>0, <6>2 DEF CarriedBy
              <7>2. c \in Books /\ c # None /\ Temp(journal, c) \in Names
                BY <2>0, <7>1, JournalKinds, MapsAssumption DEF Renamed, Books, None
              <7> QED BY <3>0, <7>1, <7>2
            <6> QED BY <6>1, <6>2
          <5>3. 1 <= b + 1
            BY <2>0 DEF Books
          <5> HIDE DEF b, n, m
          <5> QED BY <2>0, <3>0, <5>1, <5>2, <5>3 DEF CarriedBy
        <4>2. ASSUME NEW s \in Runs, s # r PROVE CarriedBy(s)'
          <5>1. CarriedBy(s) /\ run'[s] = run[s] /\ run[s].pc \notin Holding
            BY <1>0, <2>0, <3>0, <4>2 DEF Carries
          <5> QED BY <5>1 DEF CarriedBy, Holding
        <4> QED BY <4>1, <4>2 DEF Carries
      <3>7. Placed'
        <4>1. \A p \in Places : disk'[File(p)] \in Books => p = NumberOf(disk[File(p)])'
          <5>1. \A p \in Places : disk'[File(p)] \in Books => disk'[File(p)] = disk[File(p)]
            BY <3>0, MapsAssumption DEF Books, None
          <5> QED BY <1>0, <2>0, <3>0, <5>1 DEF Placed, NumberOf
        <4>2. ASSUME NEW p \in Places, NEW i \in Ids, disk'[<<p, i>>] # None
              PROVE  /\ i <= lastId' /\ disk'[<<p, i>>] \in Books
                     /\ journal' # NoJournal /\ i = journal'.id =>
                          disk'[<<p, i>>] \in Renamed(journal)' /\ p = journal'.from[disk'[<<p, i>>]]
          <5>1. CASE <<p, i>> = m
            <6>1. p = journal.from[b] /\ i = journal.id
              BY <2>0, <5>1, JournalKinds DEF Temp
            <6>2. b \in Books
              BY <2>0
            <6>3. disk'[<<p, i>>] = b /\ b \in Renamed(journal) /\ i <= lastId /\ UNCHANGED <<journal, lastId>>
              BY <2>0, <3>0, <5>1, <6>1
            <6> HIDE DEF n, m, b
            <6> QED BY <6>1, <6>2, <6>3 DEF Renamed
          <5>2. CASE <<p, i>> # m
            <6>1. disk'[<<p, i>>] = disk[<<p, i>>]
              BY <2>0, <3>0, <4>2, <5>2, NamesOf
            <6> QED BY <1>0, <2>0, <3>0, <4>2, <6>1 DEF Placed
          <5> QED BY <5>1, <5>2
        <4> QED BY <4>1, <4>2 DEF Placed
      <3>8. Once'
        BY <3>0
      <3>9. ScanTrue'
        BY <1>0, <1>t, <2>0, <3>0 DEF ScanTrue
      <3>10. NotMinted'
        BY <1>0, <1>t, <2>0, <3>0 DEF NotMinted
      <3> QED BY <3>4, <3>5, <3>6, <3>7, <3>8, <3>9, <3>10 DEF Calm
    <2>2. CASE ~Goes(journal, b) /\ SetAt(r, b + 1) /\ UNCHANGED <<disk, faults>>
      <3>0. /\ run' \in [Runs -> RunType] /\ \A s \in Runs : s # r => run'[s] = run[s]
            /\ run'[r].pc = "first" /\ run'[r].j = journal /\ run'[r].at = b + 1
            /\ run'[r].undo = run[r].undo
            /\ run'[r].sure = run[r].sure /\ run'[r].own = run[r].own
            /\ b \in Renamed(journal) => disk[n] = None
            /\ UNCHANGED <<number, journal, settling, held, line, marked, share,
                           lastId, scan, minted, crashes, disk, faults>>
        <4>1. Became(r, run[r].pc, run[r].j, run[r].own, b + 1, run[r].undo)
          BY <1>t, <2>0, <2>2, SetAtStep
        <4>2. ASSUME b \in Renamed(journal), disk[n] # None PROVE FALSE
          <5>1. disk[m] # None
            BY <2>2, <4>2 DEF Goes
          <5>2. disk[m] = b /\ disk[n] = b
            BY <1>0, <2>0, <4>2, <5>1, OwnPlace, OwnTemp
          <5> QED BY <1>0, <2>0, <4>2, <5>2 DEF Once
        <4>3. UNCHANGED <<number, journal, settling, held, line, marked, share,
                           lastId, scan, minted, crashes, disk, faults>>
          BY <1>10, <2>2 DEF FirstMove
        <4> HIDE DEF b, n, m
        <4> QED BY <2>0, <4>1, <4>2, <4>3 DEF Became
      <3>4. OneConfirms'
        <4>1. \A s \in Runs : run'[s].pc # "built" /\ ~(run'[s].pc = "wait" /\ run'[s].own)
          BY <2>0, <3>0
        <4> QED BY <4>1 DEF OneConfirms
      <3>5. Plans'
        <4>1. /\ \A bk \in Books : disk[File(number[bk])] # Stray => disk'[File(number[bk])] # Stray
              /\ \A bk \in Books : disk[File(journal.to[bk])] # Stray => disk'[File(journal.to[bk])] # Stray
          <5>1. \A bk \in Books : number[bk] \in Places /\ journal.to[bk] \in Places
            BY <1>t, <2>0, JournalKinds
          <5>2. None # Stray
            BY MapsAssumption DEF None, Stray
          <5> QED BY <2>0, <3>0, <5>1, <5>2
        <4>2. UNCHANGED <<number, journal, lastId>> /\ \A s \in Runs : run'[s].pc # "built"
          BY <2>0, <3>0
        <4>3. Sound(journal)'
          BY <2>0, <4>1, <4>2 DEF Sound
        <4>4. \A bk \in Books : disk'[File(number'[bk])] # Stray
          BY <1>0, <4>1, <4>2 DEF Plans
        <4>5. \A a, bk \in Books : number'[a] = number'[bk] => a = bk
          BY <1>0, <4>2 DEF Plans
        <4> QED BY <4>2, <4>3, <4>4, <4>5 DEF Plans
      <3>6. Carries'
        <4>1. CarriedBy(r)'
          <5>1. \A c \in Renamed(journal) : c < b + 1 => disk'[File(journal.from[c])] = None
            <6> SUFFICES ASSUME NEW c \in Renamed(journal), c < b + 1 PROVE disk'[File(journal.from[c])] = None
              OBVIOUS
            <6>1. c \in Books
              BY DEF Renamed
            <6>2. c = b \/ c < b
              BY <2>0, <6>1 DEF Books
            <6> QED BY <2>0, <3>0, <6>2 DEF CarriedBy
          <5>2. 1 <= b + 1
            BY <2>0 DEF Books
          <5> HIDE DEF b, n, m
          <5> QED BY <2>0, <3>0, <5>1, <5>2 DEF CarriedBy
        <4>2. ASSUME NEW s \in Runs, s # r PROVE CarriedBy(s)'
          <5>1. CarriedBy(s) /\ run'[s] = run[s] /\ run[s].pc \notin Holding
            BY <1>0, <2>0, <3>0, <4>2 DEF Carries
          <5> QED BY <5>1 DEF CarriedBy, Holding
        <4> QED BY <4>1, <4>2 DEF Carries
      <3>7. Placed'
        BY <1>0, <1>t, <2>0, <3>0 DEF Placed, NumberOf, Renamed, Goes, File, Temp
      <3>8. Once'
        BY <1>0, <1>t, <2>0, <3>0 DEF Once
      <3>9. ScanTrue'
        BY <1>0, <1>t, <2>0, <3>0 DEF ScanTrue
      <3>10. NotMinted'
        BY <1>0, <1>t, <2>0, <3>0 DEF NotMinted
      <3> QED BY <3>4, <3>5, <3>6, <3>7, <3>8, <3>9, <3>10 DEF Calm
    <2>3. CASE Fault /\ GoTo(r, "undo") /\ UNCHANGED disk
      <3>0. /\ run' \in [Runs -> RunType] /\ \A s \in Runs : s # r => run'[s] = run[s]
            /\ run'[r].pc = "undo" /\ run'[r].j = journal
            /\ run'[r].undo = run[r].undo
            /\ run'[r].sure = run[r].sure /\ run'[r].own = run[r].own
            /\ faults' \in 0 .. MaxFaults
            /\ UNCHANGED <<number, journal, settling, held, line, marked, share,
                           lastId, scan, minted, crashes, disk>>
        <4>1. Became(r, "undo", run[r].j, run[r].own, run[r].at, run[r].undo)
          BY <1>t, <2>3, WentTo DEF Pcs, InJournal
        <4>2. faults' \in 0 .. MaxFaults
          BY <1>0, <2>3 DEF Fault, TypeOK
        <4>3. UNCHANGED <<number, journal, settling, held, line, marked, share,
                           lastId, scan, minted, crashes, disk>>
          BY <1>10, <2>3 DEF FirstMove
        <4> HIDE DEF b, n, m
        <4> QED BY <2>0, <4>1, <4>2, <4>3 DEF Became
      <3>4. OneConfirms'
        <4>1. \A s \in Runs : run'[s].pc # "built" /\ ~(run'[s].pc = "wait" /\ run'[s].own)
          BY <2>0, <3>0
        <4> QED BY <4>1 DEF OneConfirms
      <3>5. Plans'
        <4>1. /\ \A bk \in Books : disk[File(number[bk])] # Stray => disk'[File(number[bk])] # Stray
              /\ \A bk \in Books : disk[File(journal.to[bk])] # Stray => disk'[File(journal.to[bk])] # Stray
          <5>1. \A bk \in Books : number[bk] \in Places /\ journal.to[bk] \in Places
            BY <1>t, <2>0, JournalKinds
          <5>2. None # Stray
            BY MapsAssumption DEF None, Stray
          <5> QED BY <2>0, <3>0, <5>1, <5>2
        <4>2. UNCHANGED <<number, journal, lastId>> /\ \A s \in Runs : run'[s].pc # "built"
          BY <2>0, <3>0
        <4>3. Sound(journal)'
          BY <2>0, <4>1, <4>2 DEF Sound
        <4>4. \A bk \in Books : disk'[File(number'[bk])] # Stray
          BY <1>0, <4>1, <4>2 DEF Plans
        <4>5. \A a, bk \in Books : number'[a] = number'[bk] => a = bk
          BY <1>0, <4>2 DEF Plans
        <4> QED BY <4>2, <4>3, <4>4, <4>5 DEF Plans
      <3>6. Carries'
        <4>1. CarriedBy(r)'
          BY <2>0, <3>0 DEF CarriedBy
        <4>2. ASSUME NEW s \in Runs, s # r PROVE CarriedBy(s)'
          <5>1. CarriedBy(s) /\ run'[s] = run[s] /\ run[s].pc \notin Holding
            BY <1>0, <2>0, <3>0, <4>2 DEF Carries
          <5> QED BY <5>1 DEF CarriedBy, Holding
        <4> QED BY <4>1, <4>2 DEF Carries
      <3>7. Placed'
        BY <1>0, <1>t, <2>0, <3>0 DEF Placed, NumberOf, Renamed, Goes, File, Temp
      <3>8. Once'
        BY <1>0, <1>t, <2>0, <3>0 DEF Once
      <3>9. ScanTrue'
        BY <1>0, <1>t, <2>0, <3>0 DEF ScanTrue
      <3>10. NotMinted'
        BY <1>0, <1>t, <2>0, <3>0 DEF NotMinted
      <3> QED BY <3>4, <3>5, <3>6, <3>7, <3>8, <3>9, <3>10 DEF Calm
    <2>4. \/ Goes(journal, b) /\ Rename(n, m) /\ SetAtUndo(r, b + 1, run[r].undo \cup {b}) /\ UNCHANGED faults
          \/ ~Goes(journal, b) /\ SetAt(r, b + 1) /\ UNCHANGED <<disk, faults>>
          \/ Fault /\ GoTo(r, "undo") /\ UNCHANGED disk
      <3>1. run[r].j = journal
        BY <2>0
      <3> QED BY <1>10, <3>1 DEF FirstMove, SetAtUndo, SetAt
    <2> QED BY <2>1, <2>2, <2>3, <2>4
  <1>11. ASSUME NEW r \in Runs, PutBack(r) PROVE Calm'
    <2>0. /\ held = r /\ held # NoRun /\ scan = NotScanning
          /\ \A s \in Runs : s # r => run[s].pc \notin Holding
          /\ \A s \in Runs : run[s].pc # "built" /\ ~(run[s].pc = "wait" /\ run[s].own)
          /\ run[r].j = journal /\ journal \in Journals /\ journal # NoJournal /\ CarriedBy(r)
          /\ Sound(journal) /\ journal.id <= lastId /\ journal.from = number
          /\ \A a, b \in Books : journal.from[a] = journal.from[b] => a = b
          /\ \A a, b \in Books : journal.to[a] = journal.to[b] => a = b
          /\ \A b \in Books : disk[File(journal.from[b])] # Stray /\ disk[File(journal.to[b])] # Stray
          /\ run[r].pc = "undo" /\ journal.phase = "rename" /\ run[r].undo \in SUBSET Books
          /\ disk \in [Names -> Books \cup {Stray, None}]
      <3>1. run[r].pc = "undo"
        BY <1>11 DEF PutBack
      <3>2. journal.phase = "rename"
        BY <1>0, <3>1 DEF Carries, CarriedBy
      <3>3. run[r].undo \in SUBSET Books
        BY <1>t DEF RunType
      <3>4. disk \in [Names -> Books \cup {Stray, None}]
        BY <1>0 DEF TypeOK
      <3> QED BY <1>0, <3>1, <3>2, <3>3, <3>4, Renaming
    <2>p. PICK b \in run[r].undo :
            /\ SetUndo(r, run[r].undo \ {b})
            /\ \/ Rename(Temp(journal, b), File(journal.from[b])) /\ UNCHANGED <<stranded, faults>>
               \/ Fault /\ stranded' = TRUE /\ UNCHANGED disk
      <3>1. run[r].j = journal
        BY <2>0
      <3> QED BY <1>11, <3>1 DEF PutBack, SetUndo
    <2> DEFINE n == File(journal.from[b])
               m == Temp(journal, b)
    <2>n. /\ b \in Books /\ n \in Names /\ m \in Names /\ n # m /\ disk[m] = b /\ b \in Renamed(journal)
          /\ Became(r, run[r].pc, run[r].j, run[r].own, run[r].at, run[r].undo \ {b})
      <3>1. b \in Books /\ disk[m] = b /\ b \in Renamed(journal)
        BY <2>0, <2>p DEF CarriedBy, Renamed
      <3>2. n \in Names /\ m \in Names /\ n # m
        BY <2>0, <3>1, JournalKinds, NamesOf
      <3>3. run[r].undo \ {b} \in SUBSET Books
        BY <2>0
      <3>4. SetUndo(r, run[r].undo \ {b})
        BY <2>p
      <3> HIDE DEF n, m
      <3> QED BY <1>t, <3>1, <3>2, <3>3, <3>4, SetUndoStep
    <2>1. CASE Rename(m, n) /\ UNCHANGED <<stranded, faults>>
      <3>0. /\ run' \in [Runs -> RunType] /\ \A s \in Runs : s # r => run'[s] = run[s]
            /\ run'[r].pc = "undo" /\ run'[r].j = journal /\ run'[r].undo = run[r].undo \ {b}
            /\ run'[r].sure = run[r].sure /\ run'[r].own = run[r].own
            /\ b \in Books /\ disk' \in [Names -> Books \cup {Stray, None}] /\ disk'[m] = None /\ disk'[n] = b
            /\ \A k \in Names : k # n /\ k # m => disk'[k] = disk[k]
            /\ disk[m] = b /\ disk[n] = None /\ Once'
            /\ \A p \in Places : disk'[File(p)] = disk[File(p)] \/ disk'[File(p)] \in Books
            /\ UNCHANGED <<number, journal, settling, held, line, marked, share,
                           lastId, scan, minted, crashes, faults>>
        <4>1. disk[n] = None
          <5> SUFFICES ASSUME disk[n] # None PROVE FALSE
            OBVIOUS
          <5>1. disk[n] = b
            BY <1>0, <2>0, <2>n, OwnPlace
          <5>2. disk[n] = disk[m] /\ disk[n] # None
            BY <2>n, <5>1
          <5> HIDE DEF n, m
          <5> QED BY <1>0, <2>n, <5>2 DEF Once
        <4>2. /\ disk' \in [Names -> Books \cup {Stray, None}] /\ disk'[m] = None /\ disk'[n] = disk[m]
              /\ \A k \in Names : k # n /\ k # m => disk'[k] = disk[k]
          <5> HIDE DEF n, m
          <5> QED BY <2>0, <2>n, <2>1, Moved
        <4>3. Once'
          <5> HIDE DEF n, m
          <5> QED BY <1>0, <2>0, <2>n, <2>1, <4>1, MovedOnce
        <4>4. \A p \in Places : File(p) \in Names /\ File(p) # m
          BY <2>0, <2>n, JournalKinds, NamesOf
        <4>5. \A p \in Places : disk'[File(p)] = disk[File(p)] \/ disk'[File(p)] \in Books
          <5> HIDE DEF n, m
          <5> QED BY <2>n, <4>2, <4>4
        <4>6. UNCHANGED <<number, journal, settling, held, line, marked, share,
                           lastId, scan, minted, crashes, faults>>
          BY <1>11, <2>1 DEF PutBack
        <4> HIDE DEF n, m
        <4> QED BY <2>0, <2>n, <4>1, <4>2, <4>3, <4>5, <4>6 DEF Became
      <3>4. OneConfirms'
        <4>1. \A s \in Runs : run'[s].pc # "built" /\ ~(run'[s].pc = "wait" /\ run'[s].own)
          BY <2>0, <3>0
        <4> QED BY <4>1 DEF OneConfirms
      <3>5. Plans'
        <4>1. /\ \A bk \in Books : disk[File(number[bk])] # Stray => disk'[File(number[bk])] # Stray
              /\ \A bk \in Books : disk[File(journal.to[bk])] # Stray => disk'[File(journal.to[bk])] # Stray
          <5>1. \A bk \in Books : number[bk] \in Places /\ journal.to[bk] \in Places
            BY <1>t, <2>0, JournalKinds
          <5>2. \A c \in Books : c # Stray
            BY MapsAssumption DEF Books, Stray
          <5> QED BY <2>0, <3>0, <5>1, <5>2
        <4>2. UNCHANGED <<number, journal, lastId>> /\ \A s \in Runs : run'[s].pc # "built"
          BY <2>0, <3>0
        <4>3. Sound(journal)'
          BY <2>0, <4>1, <4>2 DEF Sound
        <4>4. \A bk \in Books : disk'[File(number'[bk])] # Stray
          BY <1>0, <4>1, <4>2 DEF Plans
        <4>5. \A a, bk \in Books : number'[a] = number'[bk] => a = bk
          BY <1>0, <4>2 DEF Plans
        <4> QED BY <4>2, <4>3, <4>4, <4>5 DEF Plans
      <3>6. Carries'
        <4>1. CarriedBy(r)'
          <5>1. ASSUME NEW c \in run[r].undo \ {b} PROVE c \in Renamed(journal) /\ disk'[Temp(journal, c)] = c
            <6>1. c \in Renamed(journal) /\ disk[Temp(journal, c)] = c /\ c \in Books
              BY <2>0, <5>1 DEF CarriedBy
            <6>2. Temp(journal, c) \in Names /\ Temp(journal, c) # n
              BY <2>0, <2>n, <6>1, JournalKinds, NamesOf
            <6>3. Temp(journal, c) # m
              BY <2>n, <5>1, <6>1
            <6> QED BY <3>0, <6>1, <6>2, <6>3
          <5> HIDE DEF n, m
          <5> QED BY <2>0, <3>0, <5>1 DEF CarriedBy
        <4>2. ASSUME NEW s \in Runs, s # r PROVE CarriedBy(s)'
          <5>1. CarriedBy(s) /\ run'[s] = run[s] /\ run[s].pc \notin Holding
            BY <1>0, <2>0, <3>0, <4>2 DEF Carries
          <5> QED BY <5>1 DEF CarriedBy, Holding
        <4> QED BY <4>1, <4>2 DEF Carries
      <3>7. Placed'
        <4>1. \A p \in Places : disk'[File(p)] \in Books => p = NumberOf(disk[File(p)])'
          <5> SUFFICES ASSUME NEW p \in Places, disk'[File(p)] \in Books PROVE p = NumberOf(disk[File(p)])'
            OBVIOUS
          <5>1. CASE File(p) = n
            <6>1. p = journal.from[b]
              BY <2>0, <5>1, NamesOf, JournalKinds
            <6>2. disk'[File(p)] = b /\ UNCHANGED <<journal, number>> /\ b \in Books
              BY <2>0, <3>0, <5>1
            <6> HIDE DEF n, m
            <6> QED BY <2>0, <6>1, <6>2 DEF NumberOf
          <5>2. CASE File(p) # n
            <6>1. disk'[File(p)] = disk[File(p)]
              BY <2>0, <3>0, <5>2, JournalKinds, NamesOf
            <6> QED BY <1>0, <2>0, <3>0, <6>1 DEF Placed, NumberOf
          <5> QED BY <5>1, <5>2
        <4>2. ASSUME NEW p \in Places, NEW i \in Ids, disk'[<<p, i>>] # None
              PROVE  /\ i <= lastId' /\ disk'[<<p, i>>] \in Books
                     /\ journal' # NoJournal /\ i = journal'.id =>
                          disk'[<<p, i>>] \in Renamed(journal)' /\ p = journal'.from[disk'[<<p, i>>]]
          <5>1. <<p, i>> # m
            BY <3>0, <4>2
          <5>0. <<p, i>> \in Names /\ <<p, i>> # n
            BY <2>0, NamesOf, JournalKinds, <2>n
          <5>2. disk'[<<p, i>>] = disk[<<p, i>>]
            BY <3>0, <5>0, <5>1
          <5> QED BY <1>0, <2>0, <3>0, <4>2, <5>2 DEF Placed
        <4> QED BY <4>1, <4>2 DEF Placed
      <3>8. Once'
        BY <3>0
      <3>9. ScanTrue'
        BY <1>0, <1>t, <2>0, <3>0 DEF ScanTrue
      <3>10. NotMinted'
        BY <1>0, <1>t, <2>0, <3>0 DEF NotMinted
      <3> QED BY <3>4, <3>5, <3>6, <3>7, <3>8, <3>9, <3>10 DEF Calm
    <2>2. CASE Fault /\ stranded' = TRUE /\ UNCHANGED disk
      <3>0. /\ run' \in [Runs -> RunType] /\ \A s \in Runs : s # r => run'[s] = run[s]
            /\ run'[r].pc = "undo" /\ run'[r].j = journal /\ run'[r].undo = run[r].undo \ {b}
            /\ run'[r].sure = run[r].sure /\ run'[r].own = run[r].own
            /\ faults' \in 0 .. MaxFaults
            /\ UNCHANGED <<number, journal, settling, held, line, marked, share,
                           lastId, scan, minted, crashes, disk>>
        <4>2. faults' \in 0 .. MaxFaults
          BY <1>0, <2>2 DEF Fault, TypeOK
        <4>3. UNCHANGED <<number, journal, settling, held, line, marked, share,
                           lastId, scan, minted, crashes, disk>>
          BY <1>11, <2>2 DEF PutBack
        <4> HIDE DEF n, m
        <4> QED BY <2>0, <2>n, <4>2, <4>3 DEF Became
      <3>4. OneConfirms'
        <4>1. \A s \in Runs : run'[s].pc # "built" /\ ~(run'[s].pc = "wait" /\ run'[s].own)
          BY <2>0, <3>0
        <4> QED BY <4>1 DEF OneConfirms
      <3>5. Plans'
        <4>1. /\ \A bk \in Books : disk[File(number[bk])] # Stray => disk'[File(number[bk])] # Stray
              /\ \A bk \in Books : disk[File(journal.to[bk])] # Stray => disk'[File(journal.to[bk])] # Stray
          <5>1. \A bk \in Books : number[bk] \in Places /\ journal.to[bk] \in Places
            BY <1>t, <2>0, JournalKinds
          <5>2. None # Stray
            BY MapsAssumption DEF None, Stray
          <5> QED BY <2>0, <3>0, <5>1, <5>2
        <4>2. UNCHANGED <<number, journal, lastId>> /\ \A s \in Runs : run'[s].pc # "built"
          BY <2>0, <3>0
        <4>3. Sound(journal)'
          BY <2>0, <4>1, <4>2 DEF Sound
        <4>4. \A bk \in Books : disk'[File(number'[bk])] # Stray
          BY <1>0, <4>1, <4>2 DEF Plans
        <4>5. \A a, bk \in Books : number'[a] = number'[bk] => a = bk
          BY <1>0, <4>2 DEF Plans
        <4> QED BY <4>2, <4>3, <4>4, <4>5 DEF Plans
      <3>6. Carries'
        <4>1. CarriedBy(r)'
          BY <2>0, <3>0 DEF CarriedBy
        <4>2. ASSUME NEW s \in Runs, s # r PROVE CarriedBy(s)'
          <5>1. CarriedBy(s) /\ run'[s] = run[s] /\ run[s].pc \notin Holding
            BY <1>0, <2>0, <3>0, <4>2 DEF Carries
          <5> QED BY <5>1 DEF CarriedBy, Holding
        <4> QED BY <4>1, <4>2 DEF Carries
      <3>7. Placed'
        BY <1>0, <1>t, <2>0, <3>0 DEF Placed, NumberOf, Renamed, Goes, File, Temp
      <3>8. Once'
        BY <1>0, <1>t, <2>0, <3>0 DEF Once
      <3>9. ScanTrue'
        BY <1>0, <1>t, <2>0, <3>0 DEF ScanTrue
      <3>10. NotMinted'
        BY <1>0, <1>t, <2>0, <3>0 DEF NotMinted
      <3> QED BY <3>4, <3>5, <3>6, <3>7, <3>8, <3>9, <3>10 DEF Calm
    <2> QED BY <2>p, <2>1, <2>2
  <1>12. ASSUME NEW r \in Runs, GiveUp(r) PROVE Calm'
    <2>0. /\ held = r /\ held # NoRun /\ scan = NotScanning
          /\ \A s \in Runs : s # r => run[s].pc \notin Holding
          /\ \A s \in Runs : run[s].pc # "built" /\ ~(run[s].pc = "wait" /\ run[s].own)
          /\ run[r].j = journal /\ journal \in Journals /\ journal # NoJournal /\ CarriedBy(r)
          /\ Sound(journal) /\ journal.id <= lastId /\ journal.from = number
          /\ \A a, b \in Books : journal.from[a] = journal.from[b] => a = b
          /\ \A a, b \in Books : journal.to[a] = journal.to[b] => a = b
          /\ \A b \in Books : disk[File(journal.from[b])] # Stray /\ disk[File(journal.to[b])] # Stray
          /\ run[r].pc = "undo" /\ journal.phase = "rename"
      <3>1. run[r].pc = "undo"
        BY <1>12 DEF GiveUp
      <3>2. journal.phase = "rename"
        BY <1>0, <3>1 DEF Carries, CarriedBy
      <3> QED BY <1>0, <3>1, <3>2, Renaming
    <2>1. CASE journal' = NoJournal /\ UNCHANGED faults
      <3>0. /\ run' \in [Runs -> RunType] /\ \A s \in Runs : s # r => run'[s] = run[s]
            /\ run'[r].pc = "end" /\ run'[r].j = journal /\ run'[r].undo = run[r].undo
            /\ run'[r].sure = run[r].sure /\ run'[r].own = run[r].own
            /\ journal' = NoJournal
            /\ UNCHANGED <<disk, number, settling, held, line, marked, share,
                           lastId, scan, minted, crashes, faults>>
        <4>1. GoTo(r, "end") /\ "end" \in Pcs
          BY <1>12 DEF GiveUp, Pcs, InJournal
        <4>2. Became(r, "end", run[r].j, run[r].own, run[r].at, run[r].undo)
          BY <1>t, <4>1, WentTo
        <4>3. UNCHANGED <<disk, number, settling, held, line, marked, share,
                           lastId, scan, minted, crashes, faults>>
          BY <1>12, <2>1 DEF GiveUp
        <4> QED BY <2>0, <2>1, <4>2, <4>3 DEF Became
      <3>4. OneConfirms'
        <4>1. \A s \in Runs : run'[s].pc # "built" /\ ~(run'[s].pc = "wait" /\ run'[s].own)
          BY <2>0, <3>0
        <4> QED BY <4>1 DEF OneConfirms
      <3>5. Plans'
        <4>1. UNCHANGED <<number, disk>> /\ journal' = NoJournal /\ \A s \in Runs : run'[s].pc # "built"
          BY <2>0, <3>0
        <4> QED BY <1>0, <4>1 DEF Plans
      <3>6. Carries'
        <4>1. CarriedBy(r)'
          BY <2>0, <3>0 DEF CarriedBy
        <4>2. ASSUME NEW s \in Runs, s # r PROVE CarriedBy(s)'
          <5>1. CarriedBy(s) /\ run'[s] = run[s] /\ run[s].pc \notin Holding
            BY <1>0, <2>0, <3>0, <4>2 DEF Carries
          <5> QED BY <5>1 DEF CarriedBy, Holding
        <4> QED BY <4>1, <4>2 DEF Carries
      <3>7. Placed'
        BY <1>0, <2>0, <3>0 DEF Placed, NumberOf
      <3>8. Once'
        BY <1>0, <1>t, <2>0, <3>0 DEF Once
      <3>9. ScanTrue'
        BY <1>0, <1>t, <2>0, <3>0 DEF ScanTrue
      <3>10. NotMinted'
        BY <1>0, <1>t, <2>0, <3>0 DEF NotMinted
      <3> QED BY <3>4, <3>5, <3>6, <3>7, <3>8, <3>9, <3>10 DEF Calm
    <2>2. CASE UNCHANGED journal /\ faults' \in 0 .. MaxFaults
      <3>0. /\ run' \in [Runs -> RunType] /\ \A s \in Runs : s # r => run'[s] = run[s]
            /\ run'[r].pc = "end" /\ run'[r].j = journal /\ run'[r].undo = run[r].undo
            /\ run'[r].sure = run[r].sure /\ run'[r].own = run[r].own
            /\ faults' \in 0 .. MaxFaults
            /\ UNCHANGED <<number, journal, settling, held, line, marked, share,
                           lastId, scan, minted, crashes, disk>>
        <4>1. GoTo(r, "end") /\ "end" \in Pcs
          BY <1>12 DEF GiveUp, Pcs, InJournal
        <4>2. Became(r, "end", run[r].j, run[r].own, run[r].at, run[r].undo)
          BY <1>t, <4>1, WentTo
        <4>3. UNCHANGED <<number, journal, settling, held, line, marked, share,
                           lastId, scan, minted, crashes, disk>>
          BY <1>12, <2>2 DEF GiveUp
        <4> QED BY <2>0, <2>2, <4>2, <4>3 DEF Became
      <3>4. OneConfirms'
        <4>1. \A s \in Runs : run'[s].pc # "built" /\ ~(run'[s].pc = "wait" /\ run'[s].own)
          BY <2>0, <3>0
        <4> QED BY <4>1 DEF OneConfirms
      <3>5. Plans'
        <4>1. /\ \A b \in Books : disk[File(number[b])] # Stray => disk'[File(number[b])] # Stray
              /\ \A b \in Books : disk[File(journal.to[b])] # Stray => disk'[File(journal.to[b])] # Stray
          <5>1. \A b \in Books : number[b] \in Places /\ journal.to[b] \in Places
            BY <1>t, <2>0, JournalKinds
          <5>2. None # Stray
            BY MapsAssumption DEF None, Stray
          <5> QED BY <2>0, <3>0, <5>1, <5>2
        <4>2. UNCHANGED <<number, journal, lastId>> /\ \A s \in Runs : run'[s].pc # "built"
          BY <2>0, <3>0
        <4>3. Sound(journal)'
          BY <2>0, <4>1, <4>2 DEF Sound
        <4>4. \A b \in Books : disk'[File(number'[b])] # Stray
          BY <1>0, <4>1, <4>2 DEF Plans
        <4>5. \A a, b \in Books : number'[a] = number'[b] => a = b
          BY <1>0, <4>2 DEF Plans
        <4> QED BY <4>2, <4>3, <4>4, <4>5 DEF Plans
      <3>6. Carries'
        <4>1. CarriedBy(r)'
          BY <2>0, <3>0 DEF CarriedBy
        <4>2. ASSUME NEW s \in Runs, s # r PROVE CarriedBy(s)'
          <5>1. CarriedBy(s) /\ run'[s] = run[s] /\ run[s].pc \notin Holding
            BY <1>0, <2>0, <3>0, <4>2 DEF Carries
          <5> QED BY <5>1 DEF CarriedBy, Holding
        <4> QED BY <4>1, <4>2 DEF Carries
      <3>7. Placed'
        BY <1>0, <1>t, <2>0, <3>0 DEF Placed, NumberOf, Renamed, Goes, File, Temp
      <3>8. Once'
        BY <1>0, <1>t, <2>0, <3>0 DEF Once
      <3>9. ScanTrue'
        BY <1>0, <1>t, <2>0, <3>0 DEF ScanTrue
      <3>10. NotMinted'
        BY <1>0, <1>t, <2>0, <3>0 DEF NotMinted
      <3> QED BY <3>4, <3>5, <3>6, <3>7, <3>8, <3>9, <3>10 DEF Calm
    <2>3. (journal' = NoJournal /\ UNCHANGED faults) \/ (UNCHANGED journal /\ faults' \in 0 .. MaxFaults)
      BY <1>0, <1>12 DEF GiveUp, Fault, TypeOK
    <2> QED BY <2>1, <2>2, <2>3
  <1>13. ASSUME NEW r \in Runs, SaveFinal(r) PROVE Calm'
    <2>0. /\ held = r /\ held # NoRun /\ scan = NotScanning
          /\ \A s \in Runs : s # r => run[s].pc \notin Holding
          /\ \A s \in Runs : run[s].pc # "built" /\ ~(run[s].pc = "wait" /\ run[s].own)
          /\ run[r].j = journal /\ journal \in Journals /\ journal # NoJournal /\ CarriedBy(r)
          /\ Sound(journal) /\ journal.id <= lastId /\ journal.from = number
          /\ \A a, b \in Books : journal.from[a] = journal.from[b] => a = b
          /\ \A a, b \in Books : journal.to[a] = journal.to[b] => a = b
          /\ \A b \in Books : disk[File(journal.from[b])] # Stray /\ disk[File(journal.to[b])] # Stray
          /\ run[r].pc = "first" /\ journal.phase = "rename" /\ run[r].at > NBooks
      <3>1. run[r].pc = "first" /\ run[r].at > NBooks
        BY <1>13 DEF SaveFinal
      <3>2. journal.phase = "rename"
        BY <1>0, <3>1 DEF Carries, CarriedBy
      <3> QED BY <1>0, <3>1, <3>2, Renaming
    <2> DEFINE final == Saved(journal)
    <2>1. CASE journal' = final /\ SetFinal(r, final, 1) /\ UNCHANGED faults
      <3>0. /\ run' \in [Runs -> RunType] /\ \A s \in Runs : s # r => run'[s] = run[s]
            /\ run'[r].pc = "second" /\ run'[r].j = journal' /\ run'[r].at = 1
            /\ run'[r].undo = run[r].undo
            /\ run'[r].sure = run[r].sure /\ run'[r].own = run[r].own
            /\ journal' \in Journals /\ journal' # NoJournal /\ journal'.phase = "final"
            /\ journal'.id = journal.id /\ journal'.from = journal.from /\ journal'.to = journal.to
            /\ Renamed(journal)' = Renamed(journal)
            /\ UNCHANGED <<disk, number, settling, held, line, marked, share,
                           lastId, scan, minted, crashes, faults>>
        <4>1. /\ final \in Journals /\ final.phase = "final"
              /\ final.id = journal.id /\ final.from = journal.from /\ final.to = journal.to
          <5> DEFINE j == journal
          <5>1. j \in Journals /\ final = [j EXCEPT !.phase = "final"] /\ j = journal
            BY <2>0 DEF Saved
          <5> HIDE DEF j, final
          <5>2. /\ final \in Journals /\ final.phase = "final"
                /\ final.id = j.id /\ final.from = j.from /\ final.to = j.to
            BY <5>1 DEF Journals
          <5> QED BY <5>1, <5>2
        <4>2. 1 \in 0 .. NBooks + 1
          BY MapsAssumption
        <4> HIDE DEF final
        <4>3. Became(r, "second", final, run[r].own, 1, run[r].undo)
          BY <1>t, <2>1, <4>1, <4>2, SetFinalStep
        <4>4. final # NoJournal
          BY <4>1, JournalKinds
        <4>5. Renamed(journal)' = Renamed(journal)
          BY <2>1, <4>1 DEF Renamed
        <4>6. UNCHANGED <<disk, number, settling, held, line, marked, share,
                           lastId, scan, minted, crashes, faults>>
          BY <1>13, <2>1 DEF SaveFinal
        <4> QED BY <2>0, <2>1, <4>1, <4>3, <4>4, <4>5, <4>6 DEF Became
      <3> HIDE DEF final
      <3>4. OneConfirms'
        <4>1. \A s \in Runs : run'[s].pc # "built" /\ ~(run'[s].pc = "wait" /\ run'[s].own)
          BY <2>0, <3>0
        <4> QED BY <4>1 DEF OneConfirms
      <3>5. Plans'
        <4>1. Sound(journal)'
          BY <2>0, <3>0 DEF Sound
        <4>2. UNCHANGED <<number, disk>> /\ \A s \in Runs : run'[s].pc # "built"
          <5>1. \A s \in Runs : s # r => run'[s].pc # "built"
            BY <2>0, <3>0
          <5> QED BY <3>0, <5>1
        <4> QED BY <1>0, <4>1, <4>2 DEF Plans
      <3>6. Carries'
        <4>1. CarriedBy(r)'
          <5>1. 1 >= 1
            OBVIOUS
          <5> QED BY <2>0, <3>0, <5>1 DEF CarriedBy
        <4>2. ASSUME NEW s \in Runs, s # r PROVE CarriedBy(s)'
          <5>1. CarriedBy(s) /\ run'[s] = run[s] /\ run[s].pc \notin Holding
            BY <1>0, <2>0, <3>0, <4>2 DEF Carries
          <5> QED BY <5>1 DEF CarriedBy, Holding
        <4> QED BY <4>1, <4>2 DEF Carries
      <3>7. Placed'
        <4>1. \A p \in Places : disk'[File(p)] \in Books => p = NumberOf(disk[File(p)])'
          <5> SUFFICES ASSUME NEW p \in Places, disk'[File(p)] \in Books PROVE p = NumberOf(disk[File(p)])'
            OBVIOUS
          <5> DEFINE y == disk[File(p)]
          <5>1. y \in Books /\ p = number[y] /\ p = journal.from[y]
            BY <1>0, <2>0, <3>0 DEF Placed, NumberOf
          <5>2. y # None
            BY <5>1, MapsAssumption DEF Books, None
          <5>3. y < run[r].at
            <6>1. y <= NBooks /\ y \in Nat /\ NBooks \in Nat /\ run[r].at \in Nat
              BY <1>t, <5>1, MapsAssumption DEF Books, RunType
            <6> HIDE DEF y
            <6> QED BY <2>0, <6>1
          <5>4. y \notin Renamed(journal)
            <6>1. disk[File(journal.from[y])] = y
              BY <5>1
            <6> HIDE DEF y
            <6> QED BY <2>0, <5>2, <5>3, <6>1 DEF CarriedBy
          <5>5. journal'.to[y] = journal.from[y]
            BY <3>0, <5>1, <5>4 DEF Renamed
          <5> QED BY <3>0, <5>1, <5>5 DEF NumberOf
        <4>2. ASSUME NEW p \in Places, NEW i \in Ids, disk'[<<p, i>>] # None
              PROVE  /\ i <= lastId' /\ disk'[<<p, i>>] \in Books
                     /\ journal' # NoJournal /\ i = journal'.id =>
                          disk'[<<p, i>>] \in Renamed(journal)' /\ p = journal'.from[disk'[<<p, i>>]]
          BY <1>0, <2>0, <3>0, <4>2 DEF Placed
        <4> QED BY <4>1, <4>2 DEF Placed
      <3>8. Once'
        BY <1>0, <1>t, <2>0, <3>0 DEF Once
      <3>9. ScanTrue'
        BY <1>0, <1>t, <2>0, <3>0 DEF ScanTrue
      <3>10. NotMinted'
        BY <1>0, <1>t, <2>0, <3>0 DEF NotMinted
      <3> QED BY <3>4, <3>5, <3>6, <3>7, <3>8, <3>9, <3>10 DEF Calm
    <2>2. CASE Fault /\ GoTo(r, "end") /\ UNCHANGED journal
      <3>0. /\ run' \in [Runs -> RunType] /\ \A s \in Runs : s # r => run'[s] = run[s]
            /\ run'[r].pc = "end" /\ run'[r].j = journal /\ run'[r].undo = run[r].undo
            /\ run'[r].sure = run[r].sure /\ run'[r].own = run[r].own
            /\ faults' \in 0 .. MaxFaults
            /\ UNCHANGED <<number, journal, settling, held, line, marked, share,
                           lastId, scan, minted, crashes, disk>>
        <4>1. Became(r, "end", run[r].j, run[r].own, run[r].at, run[r].undo)
          BY <1>t, <2>2, WentTo DEF Pcs, InJournal
        <4>2. faults' \in 0 .. MaxFaults
          BY <1>0, <2>2 DEF Fault, TypeOK
        <4>3. UNCHANGED <<number, journal, settling, held, line, marked, share,
                           lastId, scan, minted, crashes, disk>>
          BY <1>13, <2>2 DEF SaveFinal
        <4> QED BY <2>0, <4>1, <4>2, <4>3 DEF Became
      <3>4. OneConfirms'
        <4>1. \A s \in Runs : run'[s].pc # "built" /\ ~(run'[s].pc = "wait" /\ run'[s].own)
          BY <2>0, <3>0
        <4> QED BY <4>1 DEF OneConfirms
      <3>5. Plans'
        <4>1. /\ \A b \in Books : disk[File(number[b])] # Stray => disk'[File(number[b])] # Stray
              /\ \A b \in Books : disk[File(journal.to[b])] # Stray => disk'[File(journal.to[b])] # Stray
          <5>1. \A b \in Books : number[b] \in Places /\ journal.to[b] \in Places
            BY <1>t, <2>0, JournalKinds
          <5>2. None # Stray
            BY MapsAssumption DEF None, Stray
          <5> QED BY <2>0, <3>0, <5>1, <5>2
        <4>2. UNCHANGED <<number, journal, lastId>> /\ \A s \in Runs : run'[s].pc # "built"
          BY <2>0, <3>0
        <4>3. Sound(journal)'
          BY <2>0, <4>1, <4>2 DEF Sound
        <4>4. \A b \in Books : disk'[File(number'[b])] # Stray
          BY <1>0, <4>1, <4>2 DEF Plans
        <4>5. \A a, b \in Books : number'[a] = number'[b] => a = b
          BY <1>0, <4>2 DEF Plans
        <4> QED BY <4>2, <4>3, <4>4, <4>5 DEF Plans
      <3>6. Carries'
        <4>1. CarriedBy(r)'
          BY <2>0, <3>0 DEF CarriedBy
        <4>2. ASSUME NEW s \in Runs, s # r PROVE CarriedBy(s)'
          <5>1. CarriedBy(s) /\ run'[s] = run[s] /\ run[s].pc \notin Holding
            BY <1>0, <2>0, <3>0, <4>2 DEF Carries
          <5> QED BY <5>1 DEF CarriedBy, Holding
        <4> QED BY <4>1, <4>2 DEF Carries
      <3>7. Placed'
        BY <1>0, <1>t, <2>0, <3>0 DEF Placed, NumberOf, Renamed, Goes, File, Temp
      <3>8. Once'
        BY <1>0, <1>t, <2>0, <3>0 DEF Once
      <3>9. ScanTrue'
        BY <1>0, <1>t, <2>0, <3>0 DEF ScanTrue
      <3>10. NotMinted'
        BY <1>0, <1>t, <2>0, <3>0 DEF NotMinted
      <3> QED BY <3>4, <3>5, <3>6, <3>7, <3>8, <3>9, <3>10 DEF Calm
    <2>3. \/ journal' = final /\ SetFinal(r, final, 1) /\ UNCHANGED faults
          \/ Fault /\ GoTo(r, "end") /\ UNCHANGED journal
      <3>1. run[r].j = journal
        BY <2>0
      <3> QED BY <1>13, <3>1 DEF SaveFinal, SetFinal
    <2> QED BY <2>1, <2>2, <2>3
  <1>14. ASSUME NEW r \in Runs, SecondMove(r) PROVE Calm'
    <2>0. /\ held = r /\ held # NoRun /\ scan = NotScanning
          /\ \A s \in Runs : s # r => run[s].pc \notin Holding
          /\ \A s \in Runs : run[s].pc # "built" /\ ~(run[s].pc = "wait" /\ run[s].own)
          /\ run[r].j = journal /\ journal \in Journals /\ journal # NoJournal /\ CarriedBy(r)
          /\ Sound(journal) /\ journal.id <= lastId /\ journal.from = number
          /\ \A a, b \in Books : journal.from[a] = journal.from[b] => a = b
          /\ \A a, b \in Books : journal.to[a] = journal.to[b] => a = b
          /\ \A b \in Books : disk[File(journal.from[b])] # Stray /\ disk[File(journal.to[b])] # Stray
          /\ run[r].pc = "second" /\ journal.phase = "final"
          /\ run[r].at \in Books /\ run[r].at + 1 \in 0 .. NBooks + 1
          /\ File(journal.to[run[r].at]) \in Names /\ Temp(journal, run[r].at) \in Names
          /\ File(journal.to[run[r].at]) # Temp(journal, run[r].at)
          /\ disk \in [Names -> Books \cup {Stray, None}]
      <3>1. run[r].pc = "second" /\ run[r].at <= NBooks
        BY <1>14 DEF SecondMove
      <3>2. /\ journal.phase = "final" /\ run[r].at >= 1
        BY <1>0, <3>1 DEF Carries, CarriedBy
      <3>3. run[r].at \in 0 .. NBooks + 1
        BY <1>t DEF RunType
      <3>4. run[r].at \in Books /\ run[r].at + 1 \in 0 .. NBooks + 1
        BY <3>1, <3>2, <3>3, MapsAssumption DEF Books
      <3>5. journal \in Journals
        BY <1>0, <3>1, Renaming
      <3>6. /\ File(journal.to[run[r].at]) \in Names /\ Temp(journal, run[r].at) \in Names
            /\ File(journal.to[run[r].at]) # Temp(journal, run[r].at)
        BY <3>4, <3>5, JournalKinds, NamesOf
      <3>7. disk \in [Names -> Books \cup {Stray, None}]
        BY <1>0 DEF TypeOK
      <3> QED BY <1>0, <3>1, <3>2, <3>4, <3>6, <3>7, Renaming
    <2> DEFINE b == run[r].at
               n == File(journal.to[b])
               m == Temp(journal, b)
    <2>1. CASE disk[m] # None /\ Rename(m, n) /\ SetAt(r, b + 1) /\ UNCHANGED faults
      <3>0. /\ run' \in [Runs -> RunType] /\ \A s \in Runs : s # r => run'[s] = run[s]
            /\ run'[r].pc = "second" /\ run'[r].j = journal /\ run'[r].at = b + 1
            /\ run'[r].undo = run[r].undo
            /\ run'[r].sure = run[r].sure /\ run'[r].own = run[r].own
            /\ b \in Books /\ disk' \in [Names -> Books \cup {Stray, None}] /\ disk'[m] = None /\ disk'[n] = b
            /\ \A k \in Names : k # n /\ k # m => disk'[k] = disk[k]
            /\ disk[m] = b /\ disk[n] = None /\ Once'
            /\ \A p \in Places : disk'[File(p)] = disk[File(p)] \/ disk'[File(p)] \in Books
            /\ UNCHANGED <<number, journal, settling, held, line, marked, share,
                           lastId, scan, minted, crashes, faults>>
        <4>1. disk[m] = b /\ b \in Renamed(journal)
          BY <1>0, <2>0, <2>1, OwnTemp
        <4>2. disk[n] = None
          <5> SUFFICES ASSUME disk[n] # None PROVE FALSE
            OBVIOUS
          <5>1. disk[n] \in Books
            BY <2>0
          <5>2. journal.to[b] = NumberOf(disk[n]) /\ journal.to[b] \in Places
            BY <1>0, <2>0, <5>1, JournalKinds DEF Placed
          <5>3. journal.to[b] = journal.to[disk[n]]
            BY <2>0, <5>2 DEF NumberOf
          <5>4. disk[n] = b
            BY <2>0, <5>1, <5>3
          <5>5. n \in Names /\ m \in Names /\ n # m /\ disk[n] = disk[m]
            BY <2>0, <4>1, <5>4
          <5> HIDE DEF b, n, m
          <5> QED BY <1>0, <5>5 DEF Once
        <4>3. n \in Names /\ m \in Names /\ n # m /\ b \in Books
          BY <2>0
        <4>4. /\ disk' \in [Names -> Books \cup {Stray, None}] /\ disk'[m] = None /\ disk'[n] = disk[m]
              /\ \A k \in Names : k # n /\ k # m => disk'[k] = disk[k]
          <5> HIDE DEF b, n, m
          <5> QED BY <2>0, <2>1, <4>3, Moved
        <4>5. Once'
          <5> HIDE DEF b, n, m
          <5> QED BY <1>0, <2>0, <2>1, <4>2, <4>3, MovedOnce
        <4>6. \A p \in Places : File(p) \in Names /\ File(p) # m
          BY <2>0, JournalKinds, NamesOf
        <4>7. Became(r, run[r].pc, run[r].j, run[r].own, b + 1, run[r].undo)
          BY <1>t, <2>0, <2>1, SetAtStep
        <4>8. UNCHANGED <<number, journal, settling, held, line, marked, share,
                           lastId, scan, minted, crashes, faults>>
          BY <1>14, <2>1 DEF SecondMove
        <4> HIDE DEF b, n, m
        <4>9. \A p \in Places : disk'[File(p)] = disk[File(p)] \/ disk'[File(p)] \in Books
          BY <4>1, <4>3, <4>4, <4>6
        <4> QED BY <2>0, <4>1, <4>2, <4>3, <4>4, <4>5, <4>7, <4>8, <4>9 DEF Became
      <3>4. OneConfirms'
        <4>1. \A s \in Runs : run'[s].pc # "built" /\ ~(run'[s].pc = "wait" /\ run'[s].own)
          BY <2>0, <3>0
        <4> QED BY <4>1 DEF OneConfirms
      <3>5. Plans'
        <4>1. /\ \A bk \in Books : disk[File(number[bk])] # Stray => disk'[File(number[bk])] # Stray
              /\ \A bk \in Books : disk[File(journal.to[bk])] # Stray => disk'[File(journal.to[bk])] # Stray
          <5>1. \A bk \in Books : number[bk] \in Places /\ journal.to[bk] \in Places
            BY <1>t, <2>0, JournalKinds
          <5>2. \A c \in Books : c # Stray
            BY MapsAssumption DEF Books, Stray
          <5> QED BY <2>0, <3>0, <5>1, <5>2
        <4>2. UNCHANGED <<number, journal, lastId>> /\ \A s \in Runs : run'[s].pc # "built"
          BY <2>0, <3>0
        <4>3. Sound(journal)'
          BY <2>0, <4>1, <4>2 DEF Sound
        <4>4. \A bk \in Books : disk'[File(number'[bk])] # Stray
          BY <1>0, <4>1, <4>2 DEF Plans
        <4>5. \A a, bk \in Books : number'[a] = number'[bk] => a = bk
          BY <1>0, <4>2 DEF Plans
        <4> QED BY <4>2, <4>3, <4>4, <4>5 DEF Plans
      <3>6. Carries'
        <4>1. CarriedBy(r)'
          <5>1. b + 1 >= 1
            BY <2>0 DEF Books
          <5> HIDE DEF b, n, m
          <5> QED BY <2>0, <3>0, <5>1 DEF CarriedBy
        <4>2. ASSUME NEW s \in Runs, s # r PROVE CarriedBy(s)'
          <5>1. CarriedBy(s) /\ run'[s] = run[s] /\ run[s].pc \notin Holding
            BY <1>0, <2>0, <3>0, <4>2 DEF Carries
          <5> QED BY <5>1 DEF CarriedBy, Holding
        <4> QED BY <4>1, <4>2 DEF Carries
      <3>7. Placed'
        <4>1. \A p \in Places : disk'[File(p)] \in Books => p = NumberOf(disk[File(p)])'
          <5> SUFFICES ASSUME NEW p \in Places, disk'[File(p)] \in Books PROVE p = NumberOf(disk[File(p)])'
            OBVIOUS
          <5>1. CASE File(p) = n
            <6>1. p = journal.to[b]
              BY <2>0, <5>1, NamesOf, JournalKinds
            <6>2. disk'[File(p)] = b /\ UNCHANGED <<journal, number>> /\ b \in Books
              BY <2>0, <3>0, <5>1
            <6> HIDE DEF b, n, m
            <6> QED BY <2>0, <6>1, <6>2 DEF NumberOf
          <5>2. CASE File(p) # n
            <6>1. disk'[File(p)] = disk[File(p)]
              BY <2>0, <3>0, <5>2, JournalKinds, NamesOf
            <6> QED BY <1>0, <2>0, <3>0, <6>1 DEF Placed, NumberOf
          <5> QED BY <5>1, <5>2
        <4>2. ASSUME NEW p \in Places, NEW i \in Ids, disk'[<<p, i>>] # None
              PROVE  /\ i <= lastId' /\ disk'[<<p, i>>] \in Books
                     /\ journal' # NoJournal /\ i = journal'.id =>
                          disk'[<<p, i>>] \in Renamed(journal)' /\ p = journal'.from[disk'[<<p, i>>]]
          <5>1. <<p, i>> # m
            BY <3>0, <4>2
          <5>0. <<p, i>> \in Names /\ <<p, i>> # n
            BY <2>0, NamesOf, JournalKinds
          <5>2. disk'[<<p, i>>] = disk[<<p, i>>]
            BY <3>0, <5>0, <5>1
          <5> QED BY <1>0, <2>0, <3>0, <4>2, <5>2 DEF Placed
        <4> QED BY <4>1, <4>2 DEF Placed
      <3>8. Once'
        BY <3>0
      <3>9. ScanTrue'
        BY <1>0, <1>t, <2>0, <3>0 DEF ScanTrue
      <3>10. NotMinted'
        BY <1>0, <1>t, <2>0, <3>0 DEF NotMinted
      <3> QED BY <3>4, <3>5, <3>6, <3>7, <3>8, <3>9, <3>10 DEF Calm
    <2>2. CASE SetAt(r, b + 1) /\ UNCHANGED <<disk, faults>>
      <3>0. /\ run' \in [Runs -> RunType] /\ \A s \in Runs : s # r => run'[s] = run[s]
            /\ run'[r].pc = "second" /\ run'[r].j = journal /\ run'[r].at = b + 1
            /\ run'[r].undo = run[r].undo
            /\ run'[r].sure = run[r].sure /\ run'[r].own = run[r].own
            /\ UNCHANGED <<number, journal, settling, held, line, marked, share,
                           lastId, scan, minted, crashes, disk, faults>>
        <4>1. Became(r, run[r].pc, run[r].j, run[r].own, b + 1, run[r].undo)
          BY <1>t, <2>0, <2>2, SetAtStep
        <4>3. UNCHANGED <<number, journal, settling, held, line, marked, share,
                           lastId, scan, minted, crashes, disk, faults>>
          BY <1>14, <2>2 DEF SecondMove
        <4> HIDE DEF b, n, m
        <4> QED BY <2>0, <4>1, <4>3 DEF Became
      <3>4. OneConfirms'
        <4>1. \A s \in Runs : run'[s].pc # "built" /\ ~(run'[s].pc = "wait" /\ run'[s].own)
          BY <2>0, <3>0
        <4> QED BY <4>1 DEF OneConfirms
      <3>5. Plans'
        <4>1. /\ \A bk \in Books : disk[File(number[bk])] # Stray => disk'[File(number[bk])] # Stray
              /\ \A bk \in Books : disk[File(journal.to[bk])] # Stray => disk'[File(journal.to[bk])] # Stray
          <5>1. \A bk \in Books : number[bk] \in Places /\ journal.to[bk] \in Places
            BY <1>t, <2>0, JournalKinds
          <5>2. None # Stray
            BY MapsAssumption DEF None, Stray
          <5> QED BY <2>0, <3>0, <5>1, <5>2
        <4>2. UNCHANGED <<number, journal, lastId>> /\ \A s \in Runs : run'[s].pc # "built"
          BY <2>0, <3>0
        <4>3. Sound(journal)'
          BY <2>0, <4>1, <4>2 DEF Sound
        <4>4. \A bk \in Books : disk'[File(number'[bk])] # Stray
          BY <1>0, <4>1, <4>2 DEF Plans
        <4>5. \A a, bk \in Books : number'[a] = number'[bk] => a = bk
          BY <1>0, <4>2 DEF Plans
        <4> QED BY <4>2, <4>3, <4>4, <4>5 DEF Plans
      <3>6. Carries'
        <4>1. CarriedBy(r)'
          <5>1. b + 1 >= 1
            BY <2>0 DEF Books
          <5> HIDE DEF b, n, m
          <5> QED BY <2>0, <3>0, <5>1 DEF CarriedBy
        <4>2. ASSUME NEW s \in Runs, s # r PROVE CarriedBy(s)'
          <5>1. CarriedBy(s) /\ run'[s] = run[s] /\ run[s].pc \notin Holding
            BY <1>0, <2>0, <3>0, <4>2 DEF Carries
          <5> QED BY <5>1 DEF CarriedBy, Holding
        <4> QED BY <4>1, <4>2 DEF Carries
      <3>7. Placed'
        BY <1>0, <1>t, <2>0, <3>0 DEF Placed, NumberOf, Renamed, Goes, File, Temp
      <3>8. Once'
        BY <1>0, <1>t, <2>0, <3>0 DEF Once
      <3>9. ScanTrue'
        BY <1>0, <1>t, <2>0, <3>0 DEF ScanTrue
      <3>10. NotMinted'
        BY <1>0, <1>t, <2>0, <3>0 DEF NotMinted
      <3> QED BY <3>4, <3>5, <3>6, <3>7, <3>8, <3>9, <3>10 DEF Calm
    <2>3. CASE Fault /\ GoTo(r, "end") /\ UNCHANGED disk
      <3>0. /\ run' \in [Runs -> RunType] /\ \A s \in Runs : s # r => run'[s] = run[s]
            /\ run'[r].pc = "end" /\ run'[r].j = journal /\ run'[r].undo = run[r].undo
            /\ run'[r].sure = run[r].sure /\ run'[r].own = run[r].own
            /\ faults' \in 0 .. MaxFaults
            /\ UNCHANGED <<number, journal, settling, held, line, marked, share,
                           lastId, scan, minted, crashes, disk>>
        <4>1. Became(r, "end", run[r].j, run[r].own, run[r].at, run[r].undo)
          BY <1>t, <2>3, WentTo DEF Pcs, InJournal
        <4>2. faults' \in 0 .. MaxFaults
          BY <1>0, <2>3 DEF Fault, TypeOK
        <4>3. UNCHANGED <<number, journal, settling, held, line, marked, share,
                           lastId, scan, minted, crashes, disk>>
          BY <1>14, <2>3 DEF SecondMove
        <4> QED BY <2>0, <4>1, <4>2, <4>3 DEF Became
      <3>4. OneConfirms'
        <4>1. \A s \in Runs : run'[s].pc # "built" /\ ~(run'[s].pc = "wait" /\ run'[s].own)
          BY <2>0, <3>0
        <4> QED BY <4>1 DEF OneConfirms
      <3>5. Plans'
        <4>1. /\ \A bk \in Books : disk[File(number[bk])] # Stray => disk'[File(number[bk])] # Stray
              /\ \A bk \in Books : disk[File(journal.to[bk])] # Stray => disk'[File(journal.to[bk])] # Stray
          <5>1. \A bk \in Books : number[bk] \in Places /\ journal.to[bk] \in Places
            BY <1>t, <2>0, JournalKinds
          <5>2. None # Stray
            BY MapsAssumption DEF None, Stray
          <5> QED BY <2>0, <3>0, <5>1, <5>2
        <4>2. UNCHANGED <<number, journal, lastId>> /\ \A s \in Runs : run'[s].pc # "built"
          BY <2>0, <3>0
        <4>3. Sound(journal)'
          BY <2>0, <4>1, <4>2 DEF Sound
        <4>4. \A bk \in Books : disk'[File(number'[bk])] # Stray
          BY <1>0, <4>1, <4>2 DEF Plans
        <4>5. \A a, bk \in Books : number'[a] = number'[bk] => a = bk
          BY <1>0, <4>2 DEF Plans
        <4> QED BY <4>2, <4>3, <4>4, <4>5 DEF Plans
      <3>6. Carries'
        <4>1. CarriedBy(r)'
          BY <2>0, <3>0 DEF CarriedBy
        <4>2. ASSUME NEW s \in Runs, s # r PROVE CarriedBy(s)'
          <5>1. CarriedBy(s) /\ run'[s] = run[s] /\ run[s].pc \notin Holding
            BY <1>0, <2>0, <3>0, <4>2 DEF Carries
          <5> QED BY <5>1 DEF CarriedBy, Holding
        <4> QED BY <4>1, <4>2 DEF Carries
      <3>7. Placed'
        BY <1>0, <1>t, <2>0, <3>0 DEF Placed, NumberOf, Renamed, Goes, File, Temp
      <3>8. Once'
        BY <1>0, <1>t, <2>0, <3>0 DEF Once
      <3>9. ScanTrue'
        BY <1>0, <1>t, <2>0, <3>0 DEF ScanTrue
      <3>10. NotMinted'
        BY <1>0, <1>t, <2>0, <3>0 DEF NotMinted
      <3> QED BY <3>4, <3>5, <3>6, <3>7, <3>8, <3>9, <3>10 DEF Calm
    <2>4. \/ disk[m] # None /\ Rename(m, n) /\ SetAt(r, b + 1) /\ UNCHANGED faults
          \/ SetAt(r, b + 1) /\ UNCHANGED <<disk, faults>>
          \/ Fault /\ GoTo(r, "end") /\ UNCHANGED disk
      <3>1. run[r].j = journal
        BY <2>0
      <3> QED BY <1>14, <3>1 DEF SecondMove, SetAt
    <2> QED BY <2>1, <2>2, <2>3, <2>4
  <1>15. ASSUME NEW r \in Runs, Commit(r) PROVE Calm'
    <2>0. /\ held = r /\ held # NoRun /\ scan = NotScanning
          /\ \A s \in Runs : s # r => run[s].pc \notin Holding
          /\ \A s \in Runs : run[s].pc # "built" /\ ~(run[s].pc = "wait" /\ run[s].own)
          /\ run[r].j = journal /\ journal \in Journals /\ journal # NoJournal /\ CarriedBy(r)
          /\ Sound(journal) /\ journal.id <= lastId /\ journal.from = number
          /\ \A a, b \in Books : journal.from[a] = journal.from[b] => a = b
          /\ \A a, b \in Books : journal.to[a] = journal.to[b] => a = b
          /\ \A b \in Books : disk[File(journal.from[b])] # Stray /\ disk[File(journal.to[b])] # Stray
          /\ run[r].pc = "second" /\ journal.phase = "final"
      <3>1. run[r].pc = "second"
        BY <1>15 DEF Commit
      <3>2. journal.phase = "final"
        BY <1>0, <3>1 DEF Carries, CarriedBy
      <3> QED BY <1>0, <3>1, <3>2, Renaming
    <2>1. CASE number' = journal.to /\ journal' = NoJournal /\ GoTo(r, "through") /\ UNCHANGED faults
      <3>0. /\ run' \in [Runs -> RunType] /\ \A s \in Runs : s # r => run'[s] = run[s]
            /\ run'[r].pc = "through" /\ run'[r].j = journal /\ run'[r].undo = run[r].undo
            /\ run'[r].sure = run[r].sure /\ run'[r].own = run[r].own
            /\ journal' = NoJournal /\ number' = journal.to /\ number' \in [Books -> Places]
            /\ UNCHANGED <<disk, settling, held, line, marked, share,
                           lastId, scan, minted, crashes, faults>>
        <4>1. GoTo(r, "through") /\ "through" \in Pcs
          BY <2>1 DEF Pcs, InJournal
        <4>2. Became(r, "through", run[r].j, run[r].own, run[r].at, run[r].undo)
          BY <1>t, <4>1, WentTo
        <4>3. journal.id \in Ids /\ journal.to \in [Books -> Places]
          BY <2>0, JournalKinds
        <4>5. UNCHANGED <<disk, settling, held, line, marked, share,
                           lastId, scan, minted, crashes, faults>>
          BY <1>15, <2>1 DEF Commit
        <4> QED BY <2>0, <2>1, <4>2, <4>3, <4>5 DEF Became
      <3>4. OneConfirms'
        <4>1. \A s \in Runs : run'[s].pc # "built" /\ ~(run'[s].pc = "wait" /\ run'[s].own)
          BY <2>0, <3>0
        <4> QED BY <4>1 DEF OneConfirms
      <3>5. Plans'
        <4>1. /\ UNCHANGED disk /\ number' = journal.to /\ journal' = NoJournal
              /\ \A s \in Runs : run'[s].pc # "built"
          BY <2>0, <3>0
        <4> QED BY <2>0, <4>1 DEF Plans
      <3>6. Carries'
        <4>1. CarriedBy(r)'
          BY <2>0, <3>0 DEF CarriedBy
        <4>2. ASSUME NEW s \in Runs, s # r PROVE CarriedBy(s)'
          <5>1. CarriedBy(s) /\ run'[s] = run[s] /\ run[s].pc \notin Holding
            BY <1>0, <2>0, <3>0, <4>2 DEF Carries
          <5> QED BY <5>1 DEF CarriedBy, Holding
        <4> QED BY <4>1, <4>2 DEF Carries
      <3>7. Placed'
        BY <1>0, <2>0, <3>0 DEF Placed, NumberOf
      <3>8. Once'
        BY <1>0, <1>t, <2>0, <3>0 DEF Once
      <3>9. ScanTrue'
        BY <1>0, <1>t, <2>0, <3>0 DEF ScanTrue
      <3>10. NotMinted'
        BY <1>0, <1>t, <2>0, <3>0 DEF NotMinted
      <3> QED BY <3>4, <3>5, <3>6, <3>7, <3>8, <3>9, <3>10 DEF Calm
    <2>2. CASE Fault /\ GoTo(r, "end") /\ UNCHANGED <<number, journal>>
      <3>0. /\ run' \in [Runs -> RunType] /\ \A s \in Runs : s # r => run'[s] = run[s]
            /\ run'[r].pc = "end" /\ run'[r].j = journal /\ run'[r].undo = run[r].undo
            /\ run'[r].sure = run[r].sure /\ run'[r].own = run[r].own
            /\ faults' \in 0 .. MaxFaults
            /\ UNCHANGED <<number, journal, settling, held, line, marked, share,
                           lastId, scan, minted, crashes, disk>>
        <4>1. Became(r, "end", run[r].j, run[r].own, run[r].at, run[r].undo)
          BY <1>t, <2>2, WentTo DEF Pcs, InJournal
        <4>2. faults' \in 0 .. MaxFaults
          BY <1>0, <2>2 DEF Fault, TypeOK
        <4>3. UNCHANGED <<number, journal, settling, held, line, marked, share,
                           lastId, scan, minted, crashes, disk>>
          BY <1>15, <2>2 DEF Commit
        <4> QED BY <2>0, <4>1, <4>2, <4>3 DEF Became
      <3>4. OneConfirms'
        <4>1. \A s \in Runs : run'[s].pc # "built" /\ ~(run'[s].pc = "wait" /\ run'[s].own)
          BY <2>0, <3>0
        <4> QED BY <4>1 DEF OneConfirms
      <3>5. Plans'
        <4>1. /\ \A b \in Books : disk[File(number[b])] # Stray => disk'[File(number[b])] # Stray
              /\ \A b \in Books : disk[File(journal.to[b])] # Stray => disk'[File(journal.to[b])] # Stray
          <5>1. \A b \in Books : number[b] \in Places /\ journal.to[b] \in Places
            BY <1>t, <2>0, JournalKinds
          <5>2. None # Stray
            BY MapsAssumption DEF None, Stray
          <5> QED BY <2>0, <3>0, <5>1, <5>2
        <4>2. UNCHANGED <<number, journal, lastId>> /\ \A s \in Runs : run'[s].pc # "built"
          BY <2>0, <3>0
        <4>3. Sound(journal)'
          BY <2>0, <4>1, <4>2 DEF Sound
        <4>4. \A b \in Books : disk'[File(number'[b])] # Stray
          BY <1>0, <4>1, <4>2 DEF Plans
        <4>5. \A a, b \in Books : number'[a] = number'[b] => a = b
          BY <1>0, <4>2 DEF Plans
        <4> QED BY <4>2, <4>3, <4>4, <4>5 DEF Plans
      <3>6. Carries'
        <4>1. CarriedBy(r)'
          BY <2>0, <3>0 DEF CarriedBy
        <4>2. ASSUME NEW s \in Runs, s # r PROVE CarriedBy(s)'
          <5>1. CarriedBy(s) /\ run'[s] = run[s] /\ run[s].pc \notin Holding
            BY <1>0, <2>0, <3>0, <4>2 DEF Carries
          <5> QED BY <5>1 DEF CarriedBy, Holding
        <4> QED BY <4>1, <4>2 DEF Carries
      <3>7. Placed'
        BY <1>0, <1>t, <2>0, <3>0 DEF Placed, NumberOf, Renamed, Goes, File, Temp
      <3>8. Once'
        BY <1>0, <1>t, <2>0, <3>0 DEF Once
      <3>9. ScanTrue'
        BY <1>0, <1>t, <2>0, <3>0 DEF ScanTrue
      <3>10. NotMinted'
        BY <1>0, <1>t, <2>0, <3>0 DEF NotMinted
      <3> QED BY <3>4, <3>5, <3>6, <3>7, <3>8, <3>9, <3>10 DEF Calm
    <2>3. \/ number' = journal.to /\ journal' = NoJournal /\ GoTo(r, "through") /\ UNCHANGED faults
          \/ Fault /\ GoTo(r, "end") /\ UNCHANGED <<number, journal>>
      <3>1. run[r].j = journal
        BY <2>0
      <3> QED BY <1>15, <3>1 DEF Commit, Cleared
    <2> QED BY <2>1, <2>2, <2>3
  <1>16. ASSUME NEW r \in Runs, End(r) PROVE Calm'
    <2>0. /\ run' \in [Runs -> RunType] /\ \A s \in Runs : s # r => run'[s] = run[s]
          /\ run'[r].pc \in {"idle", "inside"} /\ run'[r].undo = {}
          /\ held = r /\ held' = NoRun /\ scan = NotScanning
          /\ \A s \in Runs : s # r => run[s].pc \notin Holding
          /\ \A s \in Runs : run[s].pc # "built" /\ ~(run[s].pc = "wait" /\ run[s].own)
          /\ UNCHANGED <<disk, number, journal, line, lastId, scan, minted>>
      <3>1. run[r].pc \in Holding
        BY <1>16 DEF End, Holding
      <3>2. /\ held = r /\ held # NoRun /\ scan = NotScanning
            /\ \A s \in Runs : s # r => run[s].pc \notin Holding
            /\ \A s \in Runs : run[s].pc # "built" /\ ~(run[s].pc = "wait" /\ run[s].own)
        BY <1>0, <3>1, Holder
      <3>3. held' = NoRun /\ UNCHANGED <<disk, number, journal, line, lastId, scan, minted>>
        BY <1>16 DEF End
      <3> QED BY <1>t, <1>16, <3>2, <3>3, Ended
    <2>4. OneConfirms'
      BY <1>0, <1>t, <2>0 DEF OneConfirms
    <2>5. Plans'
      BY <1>0, <1>t, <2>0 DEF Plans, Sound, Goes, File, Temp
    <2>6. Carries'
      BY <1>0, <1>t, <2>0 DEF Carries, CarriedBy, Renamed, Goes, File, Temp
    <2>7. Placed'
      BY <1>0, <1>t, <2>0 DEF Placed, NumberOf, Renamed, Goes, File, Temp
    <2>8. Once'
      BY <1>0, <1>t, <2>0 DEF Once
    <2>9. ScanTrue'
      BY <1>0, <1>t, <2>0 DEF ScanTrue
    <2>10. NotMinted'
      BY <1>0, <1>t, <2>0 DEF NotMinted
    <2> QED BY <2>4, <2>5, <2>6, <2>7, <2>8, <2>9, <2>10 DEF Calm
  <1>17. ASSUME ScanLists PROVE Calm'
    <2>4. OneConfirms'
      BY <1>0, <1>17 DEF ScanLists, GoTo, TypeOK, OneConfirms, RunType, Idle
    <2>5. Plans'
      BY <1>0, <1>17 DEF ScanLists, GoTo, TypeOK, Plans, Sound, RunType, Idle
    <2>6. Carries'
      BY <1>0, <1>17 DEF ScanLists, GoTo, TypeOK, Carries, CarriedBy, Renamed, RunType, Idle
    <2>7. Placed'
      BY <1>0, <1>17 DEF ScanLists, GoTo, TypeOK, Placed, NumberOf, Renamed, RunType, Idle
    <2>8. Once'
      BY <1>0, <1>17 DEF ScanLists, GoTo, TypeOK, Once, RunType, Idle
    <2>9. ScanTrue'
      BY <1>0, <1>17 DEF ScanLists, GoTo, TypeOK, ScanTrue, RunType, Idle
    <2>10. NotMinted'
      BY <1>0, <1>17 DEF ScanLists, GoTo, TypeOK, NotMinted
    <2> QED BY <2>4, <2>5, <2>6, <2>7, <2>8, <2>9, <2>10 DEF Calm
  <1>18. ASSUME ScanIndexes PROVE Calm'
    <2>4. OneConfirms'
      BY <1>0, <1>18 DEF ScanIndexes, GoTo, Skips, TypeOK, OneConfirms, RunType, Idle
    <2>5. Plans'
      BY <1>0, <1>18 DEF ScanIndexes, GoTo, Skips, TypeOK, Plans, Sound, RunType, Idle
    <2>6. Carries'
      BY <1>0, <1>18 DEF ScanIndexes, GoTo, Skips, TypeOK, Carries, CarriedBy, Renamed, RunType, Idle
    <2>7. Placed'
      BY <1>0, <1>18 DEF ScanIndexes, GoTo, Skips, TypeOK, Placed, NumberOf, Renamed, RunType, Idle
    <2>8. Once'
      BY <1>0, <1>18 DEF ScanIndexes, GoTo, Skips, TypeOK, Once, RunType, Idle
    <2>9. ScanTrue'
      BY <1>0, <1>18 DEF ScanIndexes, GoTo, Skips, TypeOK, ScanTrue, RunType, Idle
    <2>10. NotMinted'
      <3>1. ASSUME journal = NoJournal, NEW p \in Places, scan[p] \in Books PROVE number[scan[p]] = p
        BY <1>0, <3>1, <1>18 DEF ScanIndexes, ScanTrue, Placed, NumberOf
      <3> QED BY <1>0, <3>1, <1>18 DEF ScanIndexes, Skips, NotMinted
    <2> QED BY <2>4, <2>5, <2>6, <2>7, <2>8, <2>9, <2>10 DEF Calm
  <1>19. ASSUME Crash PROVE Calm'
    <2>4. OneConfirms'
      BY <1>0, <1>19 DEF Crash, GoTo, TypeOK, OneConfirms, RunType, Idle
    <2>5. Plans'
      BY <1>0, <1>19 DEF Crash, GoTo, TypeOK, Plans, Sound, RunType, Idle
    <2>6. Carries'
      BY <1>0, <1>19 DEF Crash, GoTo, TypeOK, Carries, CarriedBy, Renamed, RunType, Idle
    <2>7. Placed'
      BY <1>0, <1>19 DEF Crash, GoTo, TypeOK, Placed, NumberOf, Renamed, RunType, Idle
    <2>8. Once'
      BY <1>0, <1>19 DEF Crash, GoTo, TypeOK, Once, RunType, Idle
    <2>9. ScanTrue'
      BY <1>0, <1>19 DEF Crash, GoTo, TypeOK, ScanTrue, RunType, Idle
    <2>10. NotMinted'
      BY <1>0, <1>19 DEF Crash, GoTo, TypeOK, NotMinted
    <2> QED BY <2>4, <2>5, <2>6, <2>7, <2>8, <2>9, <2>10 DEF Calm
  <1>20. ASSUME OthersTake \/ OthersLetGo \/ UNCHANGED vars PROVE Calm'
    <2>1. UNCHANGED <<disk, number, journal, run, settling, held, line, lastId, scan, minted>>
      BY <1>20 DEF OthersTake, OthersLetGo, vars
    <2> QED BY <1>0, <2>1 DEF Calm, OneConfirms, Plans, Sound, Carries, CarriedBy, Renamed, Placed, NumberOf,
                              Once, ScanTrue, NotMinted
  <1> QED BY <1>1, <1>2, <1>3, <1>4, <1>5, <1>6, <1>7, <1>8, <1>9, <1>10, <1>11, <1>12, <1>13, <1>14, <1>15, <1>16, <1>17, <1>18, <1>19, <1>20 DEF Next, Proceed

\* A plan that was made while a journal stood on the row stays so.
(* Which steps may break a renumber.                                       *)
LEMMA WhoBreaks ==
    ASSUME [Next]_vars
    PROVE  /\ supplanted' = supplanted \/ \E r \in Runs : Settle(r)
           /\ stranded' = stranded \/ \E r \in Runs : PutBack(r)
  <1>1. ASSUME NEW r \in Runs,
               \/ Enter(r) \/ EnterHeld(r) \/ Confirm(r) \/ Refuse(r) \/ ReadJournal(r) \/ Leave(r)
               \/ WriteJournal(r) \/ HoldScans(r) \/ Reread(r)
        PROVE  supplanted' = supplanted /\ stranded' = stranded
    BY <1>1 DEF Enter, EnterHeld, Confirm, Refuse, ReadJournal, Leave, WriteJournal, HoldScans, Reread, around
  <1>2. ASSUME NEW r \in Runs, FirstMove(r) \/ GiveUp(r) \/ SaveFinal(r) \/ SecondMove(r) \/ Commit(r) \/ End(r)
        PROVE  supplanted' = supplanted /\ stranded' = stranded
    BY <1>2 DEF FirstMove, GiveUp, SaveFinal, SecondMove, Commit, End, around
  <1>3. CASE OthersTake \/ OthersLetGo \/ ScanLists \/ ScanIndexes \/ Crash \/ UNCHANGED vars
    BY <1>3 DEF OthersTake, OthersLetGo, ScanLists, ScanIndexes, Crash, vars, around
  <1>4. ASSUME NEW r \in Runs, Settle(r) PROVE stranded' = stranded
    BY <1>4 DEF Settle
  <1>5. ASSUME NEW r \in Runs, PutBack(r) PROVE supplanted' = supplanted
    BY <1>5 DEF PutBack
  <1> QED BY <1>1, <1>2, <1>3, <1>4, <1>5 DEF Next, Proceed

LEMMA BrokenStays ==
    ASSUME [Next]_vars
    PROVE  (supplanted => supplanted') /\ (stranded => stranded')
  <1>1. \A r \in Runs : Settle(r) /\ supplanted => supplanted'
    BY DEF Settle
  <1>2. \A r \in Runs : PutBack(r) /\ stranded => stranded'
    BY DEF PutBack
  <1> QED BY <1>1, <1>2, WhoBreaks

LEMMA NextInv == ASSUME IInv, [Next]_vars PROVE IInv'
  <1>1. Held'
    BY HeldNext DEF IInv
  <1>2. ASSUME ~supplanted' PROVE Calm'
    BY <1>2, BrokenStays, NextCalm DEF IInv
  <1> QED BY <1>1, <1>2 DEF IInv

(* A library in order.                                                     *)
LEMMA InitFiles == Init => FilesWhereRowsSay
  <1> SUFFICES ASSUME Init PROVE FilesWhereRowsSay
    OBVIOUS
  <1> USE MapsAssumption, RunsAssumption, BoundsAssumption
  <1>1. /\ number \in [Books -> Places] /\ \A a, b \in Books : number[a] = number[b] => a = b
        /\ run = [r \in Runs |-> Idle] /\ journal = NoJournal /\ lastId = 0
        /\ settling = NoRun /\ held = NoRun /\ line = <<>> /\ ~marked /\ marked = FALSE /\ share = {}
        /\ scan = NotScanning /\ minted = FALSE /\ supplanted = FALSE /\ stranded = FALSE
        /\ crashes = 0 /\ faults = 0
    BY DEF Init
  <1>2. PICK s \in Places \cup {0} :
          /\ \A b \in Books : number[b] # s
          /\ disk = [n \in Names |->
                       IF n = File(s) THEN Stray
                       ELSE IF \E b \in Books : n = File(number[b])
                       THEN CHOOSE b \in Books : n = File(number[b])
                       ELSE None]
    BY DEF Init
  <1>3. ASSUME NEW n \in Names
        PROVE  \/ n = File(s) /\ disk[n] = Stray
               \/ \E b \in Books : n = File(number[b]) /\ disk[n] = b
               \/ n # File(s) /\ disk[n] = None /\ \A b \in Books : n # File(number[b])
    BY <1>2
  <1>4. \A b \in Books : File(number[b]) \in Names /\ number[b] \in Places
    BY <1>1, NamesOf
  <1>5. ASSUME NEW b \in Books PROVE disk[File(number[b])] = b
    <2>1. File(number[b]) # File(s)
      BY <1>2 DEF File
    <2>2. \A a \in Books : File(number[b]) = File(number[a]) => a = b
      BY <1>1, <1>4, NamesOf
    <2> QED BY <1>3, <1>4, <2>1, <2>2
  <1> QED BY <1>5 DEF FilesWhereRowsSay

LEMMA InitInv == Init => IInv
  <1> SUFFICES ASSUME Init PROVE IInv
    OBVIOUS
  <1> USE MapsAssumption, RunsAssumption, BoundsAssumption
  <1>1. /\ number \in [Books -> Places] /\ \A a, b \in Books : number[a] = number[b] => a = b
        /\ run = [r \in Runs |-> Idle] /\ journal = NoJournal /\ lastId = 0
        /\ settling = NoRun /\ held = NoRun /\ line = <<>> /\ ~marked /\ marked = FALSE /\ share = {}
        /\ scan = NotScanning /\ minted = FALSE /\ supplanted = FALSE /\ stranded = FALSE
        /\ crashes = 0 /\ faults = 0
    BY DEF Init
  <1>2. PICK s \in Places \cup {0} :
          /\ \A b \in Books : number[b] # s
          /\ disk = [n \in Names |->
                       IF n = File(s) THEN Stray
                       ELSE IF \E b \in Books : n = File(number[b])
                       THEN CHOOSE b \in Books : n = File(number[b])
                       ELSE None]
    BY DEF Init
  <1>3. ASSUME NEW n \in Names
        PROVE  \/ n = File(s) /\ disk[n] = Stray
               \/ \E b \in Books : n = File(number[b]) /\ disk[n] = b
               \/ n # File(s) /\ disk[n] = None /\ \A b \in Books : n # File(number[b])
    BY <1>2
  <1>4. \A b \in Books : File(number[b]) \in Names /\ number[b] \in Places
    BY <1>1, NamesOf
  <1>5. \A b \in Books : b # Stray /\ b # None
    BY DEF Books, Stray, None
  <1>6. Stray # None
    BY DEF Stray, None
  <1>7. \A p \in Places, i \in Ids : disk[<<p, i>>] = None
    <2> SUFFICES ASSUME NEW p \in Places, NEW i \in Ids PROVE disk[<<p, i>>] = None
      OBVIOUS
    <2>1. <<p, i>> \in Names /\ \A b \in Books : <<p, i>> # File(number[b])
      BY <1>4, NamesOf
    <2>2. <<p, i>> # File(s)
      BY DEF File, Ids
    <2> QED BY <1>3, <2>1, <2>2
  <1>8. \A b \in Books : disk[File(number[b])] = b
    BY <1>1, InitFiles DEF FilesWhereRowsSay
  <1>9. TypeOK
    <2>1. disk \in [Names -> Books \cup {Stray, None}]
      BY <1>2, <1>3
    <2>2. run \in [Runs -> RunType]
      BY <1>1, IdleRun
    <2>3. line \in Seq(Runs)
      BY <1>1
    <2>4. /\ share \subseteq Runs /\ marked \in BOOLEAN
          /\ minted \in BOOLEAN /\ supplanted \in BOOLEAN /\ stranded \in BOOLEAN
          /\ scan \in {NotScanning} \cup [Places -> Books \cup {Stray, None}]
      BY <1>1
    <2>5. lastId \in 0 .. MaxJournals /\ crashes \in 0 .. MaxCrashes /\ faults \in 0 .. MaxFaults
      BY <1>1
    <2> QED BY <1>1, <2>1, <2>2, <2>3, <2>5, <2>4 DEF TypeOK
  <1>10. \A r \in Runs : run[r].pc = "idle" /\ run[r].undo = {}
    BY <1>1, IdleRun
  <1>11. OneHolds /\ MarkShared /\ OneSettles /\ Loaded /\ OneConfirms /\ Carries
    BY <1>1, <1>10 DEF OneHolds, MarkShared, OneSettles, Settling, Loaded, LoadedRun, OneConfirms,
                      Carries, CarriedBy, Holding, InJournal
  <1>12. Plans
    BY <1>1, <1>5, <1>8, <1>10 DEF Plans
  <1>13. Placed
    <2>1. ASSUME NEW p \in Places, disk[File(p)] \in Books PROVE p = NumberOf(disk[File(p)])
      <3>1. File(p) \in Names
        BY NamesOf
      <3>2. PICK b \in Books : File(p) = File(number[b]) /\ disk[File(p)] = b
        BY <1>3, <1>5, <1>6, <2>1, <3>1 DEF Stray, None
      <3> QED BY <1>1, <1>4, <3>2, NamesOf DEF NumberOf
    <2> QED BY <1>7, <2>1 DEF Placed
  <1>14. Once
    <2>1. ASSUME NEW n \in Names, NEW m \in Names, disk[n] = disk[m], disk[n] # None PROVE n = m
      BY <1>3, <1>5, <1>6, <2>1
    <2> QED BY <1>4, <1>8, <2>1 DEF Once
  <1> QED BY <1>1, <1>9, <1>11, <1>12, <1>13, <1>14 DEF IInv, Held, Calm, ScanTrue, NotMinted

-----------------------------------------------------------------------------
(* The theorems.  What is claimed of the files and rows is so until a plan *)
(* is made while a journal stands on the row.                              *)
THEOREM Inductive == Spec => []IInv
  <1>1. IInv /\ [Next]_vars => IInv'
    BY NextInv
  <1> QED BY InitInv, <1>1, PTL DEF Spec

LEMMA HeldAlways == Spec => []Held
  <1>1. IInv => Held
    BY DEF IInv
  <1> QED BY <1>1, Inductive, PTL

\* Every variable keeps its type, however many confirmations there are.
THEOREM TypeCorrect == Spec => []TypeOK
  <1>1. Held => TypeOK
    BY DEF Held
  <1> QED BY <1>1, HeldAlways, PTL

\* Whatever crashes, fails or waits, every chapter's file is under exactly one name, and a
\* file nobody has a row for under one that is not temporary: until a plan is made while a
\* journal stands on the row.
THEOREM FilesOnce == Spec => []EveryFileOnce
  <1>1. ASSUME IInv, ~supplanted PROVE EveryFileOnce
    <2>0. TypeOK /\ Placed /\ Once
      BY <1>1 DEF IInv, Held, Calm
    <2>1. ASSUME NEW b \in Books PROVE Cardinality({n \in Names : disk[n] = b}) = 1
      <3>1. PICK n \in Names : disk[n] = b
        BY <2>0 DEF Once
      <3>2. b # None
        BY MapsAssumption DEF Books, None
      <3>3. {k \in Names : disk[k] = b} = {n}
        BY <2>0, <3>1, <3>2 DEF Once
      <3> QED BY <3>3, FS_Singleton
    <2>2. ASSUME NEW n \in Names, disk[n] = Stray PROVE n \in {File(p) : p \in Places}
      <3>1. Stray # None /\ Stray \notin Books
        BY MapsAssumption DEF Stray, None, Books
      <3>2. ~\E p \in Places, i \in Ids : n = <<p, i>>
        BY <2>0, <2>2, <3>1 DEF Placed
      <3> QED BY <3>2, NamesOf
    <2> QED BY <2>1, <2>2 DEF EveryFileOnce
  <1>2. IInv => EveryFileOnce
    BY <1>1 DEF EveryFileOnce
  <1> QED BY <1>2, Inductive, PTL

\* No scan gives a chapter of the series a second row, until a plan is made while a journal
\* stands on the row.
THEOREM RowsOnce == Spec => []NoSecondRow
  <1>1. IInv => NoSecondRow
    BY DEF IInv, Calm, NotMinted, NoSecondRow
  <1> QED BY <1>1, Inductive, PTL

LEMMA WhoRenames ==
    ASSUME [Next]_vars, disk' # disk
    PROVE  \E r \in Runs : FirstMove(r) \/ PutBack(r) \/ SecondMove(r)
  BY DEF Next, Proceed, Enter, EnterHeld, Confirm, Settle, Refuse, ReadJournal, Leave, WriteJournal, HoldScans,
         Reread, GiveUp, SaveFinal, Commit, End, OthersTake, OthersLetGo, ScanLists, ScanIndexes, Crash, vars, stored

(* What is renamed is not a stray file, and none is in its way.            *)
LEMMA WhatIsRenamed ==
    ASSUME Held, StrayApart, NEW r \in Runs, FirstMove(r) \/ PutBack(r) \/ SecondMove(r)
    PROVE  \/ UNCHANGED disk
           \/ \E n, m \in Names : n # m /\ disk[n] # Stray /\ disk[m] # Stray /\ Rename(n, m)
  <1> DEFINE j == run[r].j
  <1>1. run[r].pc \in {"first", "undo", "second"}
    BY DEF FirstMove, PutBack, SecondMove
  <1>2. j \in Journals /\ ClearOf(j)
    BY <1>1 DEF Held, Loaded, LoadedRun, StrayApart, Carrying
  <1>3. ASSUME NEW b \in Books
        PROVE  /\ Temp(j, b) \in Names /\ disk[Temp(j, b)] # Stray
               /\ File(j.from[b]) \in Names /\ File(j.from[b]) # Temp(j, b) /\ disk[File(j.from[b])] # Stray
               /\ File(j.to[b]) \in Names /\ File(j.to[b]) # Temp(j, b) /\ disk[File(j.to[b])] # Stray
    <2>1. /\ Temp(j, b) = <<j.from[b], j.id>> /\ j.id \in Ids
          /\ j.from[b] \in Places /\ j.to[b] \in Places
      BY <1>2, JournalKinds
    <2> QED BY <1>2, <2>1, NamesOf DEF StrayApart, ClearOf
  <1>4. /\ run[r].at \in 0 .. NBooks + 1 /\ run[r].undo \in SUBSET Books
        /\ run[r].pc = "second" => run[r].at >= 1
    BY DEF Held, TypeOK, RunType, Loaded, LoadedRun
  <1>5. CASE FirstMove(r)
    <2>1. UNCHANGED disk \/ (Goes(j, run[r].at) /\ Rename(File(j.from[run[r].at]), Temp(j, run[r].at)))
      BY <1>5 DEF FirstMove
    <2>2. Goes(j, run[r].at) => run[r].at \in Books
      BY DEF Goes, Renamed
    <2> HIDE DEF j
    <2> QED BY <1>3, <2>1, <2>2
  <1>6. CASE PutBack(r)
    <2>1. PICK b \in run[r].undo : UNCHANGED disk \/ Rename(Temp(j, b), File(j.from[b]))
      BY <1>6 DEF PutBack
    <2>2. b \in Books
      BY <1>4
    <2> HIDE DEF j
    <2> QED BY <1>3, <2>1, <2>2
  <1>7. CASE SecondMove(r)
    <2>1. UNCHANGED disk \/ Rename(Temp(j, run[r].at), File(j.to[run[r].at]))
      BY <1>7 DEF SecondMove
    <2>2. run[r].at \in Books
      BY <1>4, <1>7, MapsAssumption DEF SecondMove, Books
    <2> HIDE DEF j
    <2> QED BY <1>3, <2>1, <2>2
  <1> QED BY <1>5, <1>6, <1>7

(* No step moves a stray file, or anything onto one.                       *)
LEMMA StraysFixed ==
    ASSUME Held, StrayApart, [Next]_vars, NEW k \in Names
    PROVE  disk'[k] = Stray <=> disk[k] = Stray
  <1>1. CASE disk' = disk
    BY <1>1
  <1>2. CASE disk' # disk
    <2>1. PICK r \in Runs : FirstMove(r) \/ PutBack(r) \/ SecondMove(r)
      BY <1>2, WhoRenames
    <2>2. PICK n, m \in Names : n # m /\ disk[n] # Stray /\ disk[m] # Stray /\ Rename(n, m)
      BY <1>2, <2>1, WhatIsRenamed
    <2>3. disk \in [Names -> Books \cup {Stray, None}]
      BY DEF Held, TypeOK
    <2>4. /\ disk'[n] = None /\ disk'[m] = disk[n]
          /\ \A l \in Names : l # n /\ l # m => disk'[l] = disk[l]
      BY <2>2, <2>3, Moved
    <2>5. Stray # None
      BY MapsAssumption DEF Stray, None
    <2> QED BY <2>2, <2>4, <2>5
  <1> QED BY <1>1, <1>2

(* The rows become those of a plan that was carried out, and the journal   *)
(* one that a run carries.                                                 *)
LEMMA WhatIsStored ==
    ASSUME [Next]_vars
    PROVE  /\ number' = number \/ \E r \in Runs : run[r].pc = "second" /\ number' = run[r].j.to
           /\ \/ journal' \in {journal, NoJournal}
              \/ \E r \in Runs : Carrying(r) /\ journal' \in {run[r].j, Saved(run[r].j)}
  <1> USE DEF stored, around, locks
  <1>1. ASSUME NEW r \in Runs, Commit(r) PROVE number' \in {number, run[r].j.to} /\ journal' \in {journal, NoJournal}
    BY <1>1 DEF Commit, Cleared
  <1>2. ASSUME NEW r \in Runs, WriteJournal(r) \/ SaveFinal(r)
        PROVE  number' = number /\ (journal' = journal \/ (Carrying(r) /\ journal' \in {run[r].j, Saved(run[r].j)}))
    BY <1>2 DEF WriteJournal, SaveFinal, Carrying
  <1>3. ASSUME NEW r \in Runs, GiveUp(r) PROVE number' = number /\ journal' \in {journal, NoJournal}
    BY <1>3 DEF GiveUp
  <1>4. ASSUME NEW r \in Runs, Enter(r) \/ EnterHeld(r) \/ Confirm(r) \/ Settle(r) \/ Refuse(r)
                               \/ ReadJournal(r) \/ Leave(r)
                               \/ HoldScans(r) \/ Reread(r) \/ FirstMove(r) \/ PutBack(r) \/ SecondMove(r) \/ End(r)
        PROVE  number' = number /\ journal' = journal
    BY <1>4 DEF Enter, EnterHeld, Confirm, Settle, Refuse, ReadJournal, Leave, HoldScans, Reread, FirstMove, PutBack,
                SecondMove, End
  <1>5. ASSUME OthersTake \/ OthersLetGo \/ ScanLists \/ ScanIndexes \/ Crash \/ UNCHANGED vars
        PROVE  number' = number /\ journal' = journal
    BY <1>5 DEF OthersTake, OthersLetGo, ScanLists, ScanIndexes, Crash, vars
  <1>6. ASSUME NEW r \in Runs, Commit(r) PROVE run[r].pc = "second"
    BY <1>6 DEF Commit
  <1> QED BY <1>1, <1>2, <1>3, <1>4, <1>5, <1>6 DEF Next, Proceed

(* A plan a run comes to carry is clear of the stray files.                *)
LEMMA CarriedClear ==
    ASSUME Held, StrayApart, [Next]_vars, NEW s \in Runs, Carrying(s)'
    PROVE  run'[s].j \in Journals /\ ClearOf(run'[s].j)
  <1>1. run'[s].j \in Journals
    <2>1. LoadedRun(s)'
      BY HeldNext DEF Held, Loaded
    <2> QED BY <2>1 DEF LoadedRun, Carrying
  <1>2. CASE Carrying(s) /\ run'[s].j \in {run[s].j, Saved(run[s].j)}
    <2>1. run[s].j \in Journals /\ ClearOf(run[s].j)
      BY <1>2 DEF Held, Loaded, LoadedRun, StrayApart, Carrying
    <2>2. Saved(run[s].j).from = run[s].j.from /\ Saved(run[s].j).to = run[s].j.to
      BY <2>1 DEF Saved, Journals
    <2> QED BY <1>1, <1>2, <2>1, <2>2 DEF ClearOf
  <1>3. CASE journal # NoJournal /\ run'[s].j = journal
    BY <1>1, <1>3 DEF StrayApart
  <1>4. CASE /\ run'[s].j \in Journals /\ run'[s].j.from = number /\ TargetsFree(run'[s].j)
             /\ \A b \in Books \ Renamed(run'[s].j) : run'[s].j.to[b] = number[b]
    <2> DEFINE j == run'[s].j
    <2>1. /\ j.from = number /\ TargetsFree(j) /\ \A b \in Books \ Renamed(j) : j.to[b] = number[b]
          /\ \A b \in Books : disk[File(number[b])] # Stray
      BY <1>4 DEF StrayApart
    <2> HIDE DEF j
    <2>2. ASSUME NEW b \in Books PROVE disk[File(j.to[b])] # Stray
      <3>1. CASE b \notin Renamed(j)
        BY <2>1, <3>1
      <3>2. CASE b \in Renamed(j) /\ disk[File(j.to[b])] = None
        BY <3>2, MapsAssumption DEF Stray, None
      <3>3. CASE b \in Renamed(j) /\ disk[File(j.to[b])] # None
        <4>1. PICK a \in Renamed(j) : j.from[a] = j.to[b]
          BY <2>1, <3>3 DEF TargetsFree
        <4>2. a \in Books
          BY DEF Renamed
        <4> QED BY <2>1, <4>1, <4>2
      <3> QED BY <3>1, <3>2, <3>3
    <2>3. ClearOf(j)
      BY <2>1, <2>2 DEF ClearOf
    <2> QED BY <1>1, <2>3 DEF j
  <1> QED BY <1>2, <1>3, <1>4, PlansCarried

LEMMA StrayApartNext ==
    ASSUME Held, StrayApart, [Next]_vars
    PROVE  StrayApart'
  <1>1. ASSUME NEW j \in Journals, ClearOf(j)
        PROVE  \A b \in Books : disk'[File(j.from[b])] # Stray /\ disk'[File(j.to[b])] # Stray
    <2>1. \A b \in Books : File(j.from[b]) \in Names /\ File(j.to[b]) \in Names
      BY JournalKinds, NamesOf
    <2> QED BY <1>1, <2>1, StraysFixed DEF ClearOf
  <1>2. ASSUME NEW r \in Runs, Carrying(r)
        PROVE  /\ run[r].j \in Journals /\ ClearOf(run[r].j)
               /\ Saved(run[r].j) \in Journals /\ ClearOf(Saved(run[r].j))
    <2>1. run[r].j \in Journals /\ ClearOf(run[r].j)
      BY <1>2 DEF Held, Loaded, LoadedRun, StrayApart, Carrying
    <2>2. /\ Saved(run[r].j) \in Journals
          /\ Saved(run[r].j).from = run[r].j.from /\ Saved(run[r].j).to = run[r].j.to
      BY <2>1 DEF Saved, Journals
    <2> QED BY <2>1, <2>2 DEF ClearOf
  <1>3. \A p \in Places, i \in Ids : disk'[<<p, i>>] # Stray
    BY StraysFixed, NamesOf DEF StrayApart
  <1>4. \A b \in Books : disk'[File(number'[b])] # Stray
    <2>1. CASE number' = number
      <3>1. \A b \in Books : File(number[b]) \in Names
        BY NamesOf DEF Held, TypeOK
      <3> QED BY <2>1, <3>1, StraysFixed DEF StrayApart
    <2>2. CASE number' # number
      <3>1. PICK r \in Runs : run[r].pc = "second" /\ number' = run[r].j.to
        BY <2>2, WhatIsStored
      <3>2. run[r].j \in Journals /\ ClearOf(run[r].j)
        BY <1>2, <3>1 DEF Carrying
      <3> QED BY <1>1, <3>1, <3>2
    <2> QED BY <2>1, <2>2
  <1>5. journal' # NoJournal => ClearOf(journal)'
    <2>1. CASE journal' \in {journal, NoJournal}
      <3>1. journal # NoJournal => journal \in Journals /\ ClearOf(journal)
        BY DEF Held, TypeOK, StrayApart
      <3> QED BY <1>1, <2>1, <3>1 DEF ClearOf
    <2>2. CASE journal' \notin {journal, NoJournal}
      <3>1. PICK r \in Runs : Carrying(r) /\ journal' \in {run[r].j, Saved(run[r].j)}
        BY <2>2, WhatIsStored
      <3>2. journal' \in Journals /\ ClearOf(journal')
        BY <1>2, <3>1
      <3> QED BY <1>1, <3>2 DEF ClearOf
    <2> QED BY <2>1, <2>2
  <1>6. ASSUME NEW s \in Runs, Carrying(s)' PROVE ClearOf(run[s].j)'
    <2>1. run'[s].j \in Journals /\ ClearOf(run'[s].j)
      BY <1>6, CarriedClear
    <2> QED BY <1>1, <2>1 DEF ClearOf
  <1> QED BY <1>3, <1>4, <1>5, <1>6 DEF StrayApart

LEMMA StrayApartInit == Init => StrayApart
  <1> SUFFICES ASSUME Init PROVE StrayApart
    OBVIOUS
  <1>1. Plans /\ Placed /\ journal = NoJournal /\ run = [r \in Runs |-> Idle]
    BY InitInv DEF IInv, Calm, Init
  <1>2. Stray # None /\ Stray \notin Books
    BY MapsAssumption DEF Stray, None, Books
  <1>3. \A r \in Runs : ~Carrying(r)
    BY <1>1, IdleRun DEF Carrying
  <1> QED BY <1>1, <1>2, <1>3 DEF StrayApart, Plans, Placed

LEMMA StrayApartAlways == Spec => [](Held /\ StrayApart)
  <1>1. Init => Held /\ StrayApart
    BY InitInv, StrayApartInit DEF IInv
  <1>2. Held /\ StrayApart /\ [Next]_vars => (Held /\ StrayApart)'
    BY HeldNext, StrayApartNext
  <1> QED BY <1>1, <1>2, PTL DEF Spec

\* A file nobody has a row for is never written over, whatever plan is made when.
THEOREM StraysStay == Spec => StrayKept
  <1>1. ASSUME Held /\ StrayApart, [Next]_vars
        PROVE  [\A p \in Places : disk[File(p)] = Stray => disk'[File(p)] = Stray]_vars
    BY <1>1, StraysFixed, NamesOf
  <1> QED BY <1>1, StrayApartAlways, PTL DEF Spec, StrayKept

-----------------------------------------------------------------------------
(* The refinement of AtomicRenumber: the whole is one atomic renumber,     *)
(* through any number of crashes and of failures, until a plan is made     *)
(* while a journal stands on the row, or a rename fails that puts a file   *)
(* back (the journal is cleared all the same: numbering.ts:557 and 711).   *)

\* The plan that is about to be written is one that was asked for.
OfAPlan == \A r \in Runs : run[r].pc = "built" =>
              \E m \in Maps : run[r].j.to = [b \in Books |-> m[number[b]]]

\* A file under a temporary name is there by the journal on the row.
NoneLeft ==
    \A p \in Places, i \in Ids : disk[<<p, i>>] # None => journal # NoJournal /\ i = journal.id

\* The run whose journal it is knows what it moved: all else is where its row says.  The
\* second phase leaves no temporary name behind it.
KeptBy(r) ==
    /\ run[r].pc = "reread" => ~run[r].own
    /\ run[r].own /\ run[r].pc \in {"wait", "first", "undo"} =>
          \A b \in Books \ run[r].undo : disk[File(number[b])] = b
    /\ run[r].pc = "second" =>
          \A b \in Books : b < run[r].at => disk[Temp(journal, b)] = None

Whole == FilesWhereRowsSay /\ NoneLeft /\ OfAPlan /\ \A r \in Runs : KeptBy(r)

(* With every file where the rows say there is none under a temporary name. *)
LEMMA AtTheirRows ==
    ASSUME TypeOK, Placed, Once, \A b \in Books : disk[File(number[b])] = b
    PROVE  \A p \in Places, i \in Ids : disk[<<p, i>>] = None
  <1> SUFFICES ASSUME NEW p \in Places, NEW i \in Ids, disk[<<p, i>>] # None PROVE FALSE
    OBVIOUS
  <1> DEFINE b == disk[<<p, i>>]
  <1>1. b \in Books
    BY DEF Placed
  <1>2. number[b] \in Places /\ disk[File(number[b])] = b
    BY <1>1 DEF TypeOK
  <1>3. File(number[b]) \in Names /\ <<p, i>> \in Names /\ File(number[b]) # <<p, i>>
    BY <1>2, NamesOf
  <1>4. disk[File(number[b])] = disk[<<p, i>>]
    BY <1>2
  <1> QED BY <1>3, <1>4 DEF Once

(* A step of one run that moves nothing.                                   *)
LEMMA CalmKeeps ==
    ASSUME Whole, UNCHANGED <<disk, number, journal>>, NEW r \in Runs,
           \A s \in Runs : s # r => run'[s] = run[s],
           run'[r].pc # "built", KeptBy(r)'
    PROVE  Whole'
  <1>1. FilesWhereRowsSay' /\ NoneLeft'
    BY DEF Whole, FilesWhereRowsSay, NoneLeft, File
  <1>2. OfAPlan'
    <2> SUFFICES ASSUME NEW s \in Runs, run'[s].pc = "built"
                 PROVE  \E m \in Maps : run'[s].j.to = [b \in Books |-> m[number'[b]]]
      BY DEF OfAPlan
    <2>1. run'[s] = run[s] /\ run[s].pc = "built" /\ number' = number
      OBVIOUS
    <2>2. PICK m \in Maps : run[s].j.to = [b \in Books |-> m[number[b]]]
      BY <2>1 DEF Whole, OfAPlan
    <2> QED BY <2>1, <2>2
  <1>3. ASSUME NEW s \in Runs, s # r PROVE KeptBy(s)'
    BY <1>3 DEF Whole, KeptBy, File, Temp
  <1> QED BY <1>1, <1>2, <1>3 DEF Whole

Elsewhere == {"idle", "asked", "resume", "inside", "through", "end"}

LEMMA ElsewhereKeeps ==
    ASSUME Whole, UNCHANGED <<disk, number, journal>>, NEW r \in Runs,
           \A s \in Runs : s # r => run'[s] = run[s],
           run'[r].pc \in Elsewhere
    PROVE  Whole'
  <1>1. run'[r].pc # "built" /\ KeptBy(r)'
    BY DEF Elsewhere, KeptBy
  <1> QED BY <1>1, CalmKeeps

(* A step of the run that holds the scans: nobody else is at a place where *)
(* it matters.                                                             *)
LEMMA HolderKeeps ==
    ASSUME Held, Calm, NEW r \in Runs, run[r].pc \in Holding,
           \A s \in Runs : s # r => run'[s] = run[s],
           run'[r].pc # "built", KeptBy(r)', FilesWhereRowsSay', NoneLeft'
    PROVE  Whole'
  <1>1. /\ \A s \in Runs : s # r => run[s].pc \notin Holding
        /\ \A s \in Runs : run[s].pc # "built" /\ ~(run[s].pc = "wait" /\ run[s].own)
    BY Holder DEF Held, Calm
  <1>2. OfAPlan'
    BY <1>1 DEF OfAPlan
  <1>3. ASSUME NEW s \in Runs, s # r PROVE KeptBy(s)'
    BY <1>1, <1>3 DEF KeptBy, Holding
  <1> QED BY <1>2, <1>3 DEF Whole

(* A rename beside the rows and the journal.                               *)
LEMMA RenameKeeps ==
    ASSUME Held, Calm, Whole, NEW r \in Runs, run[r].pc \in {"first", "undo", "second"},
           UNCHANGED <<number, journal>>,
           \A s \in Runs : s # r => run'[s] = run[s],
           run'[r].pc # "built", KeptBy(r)',
           \A p \in Places, i \in Ids : disk'[<<p, i>>] # None =>
               disk[<<p, i>>] # None \/ i = journal.id
    PROVE  Whole'
  <1>1. journal # NoJournal /\ run[r].pc \in Holding
    BY DEF Held, Calm, Carries, CarriedBy, Holding
  <1>2. FilesWhereRowsSay'
    BY <1>1 DEF FilesWhereRowsSay
  <1>3. NoneLeft'
    BY <1>1 DEF Whole, NoneLeft
  <1> QED BY <1>1, <1>2, <1>3, HolderKeeps

(* The steps of the run that renames.                                      *)
LEMMA FirstMoveKeeps ==
    ASSUME Held, Calm, Whole, NEW r \in Runs, FirstMove(r)
    PROVE  Whole'
  <1>0. TypeOK /\ OneHolds /\ OneConfirms /\ Plans /\ Carries /\ Placed /\ Once /\ run \in [Runs -> RunType]
    BY DEF Held, Calm, TypeOK
  <1>1. /\ run[r].pc = "first" /\ run[r].j = journal /\ journal \in Journals /\ journal # NoJournal
        /\ CarriedBy(r) /\ journal.from = number
        /\ run[r].undo \in SUBSET Books /\ run[r].at \in 0 .. NBooks + 1 /\ run[r].at <= NBooks
        /\ run[r].at >= 1 /\ UNCHANGED <<number, journal>>
    <2>1. run[r].pc = "first" /\ run[r].at <= NBooks
      BY DEF FirstMove
    <2>2. run[r].undo \in SUBSET Books /\ run[r].at \in 0 .. NBooks + 1
      BY <1>0 DEF RunType
    <2>3. run[r].at >= 1
      BY <1>0, <2>1 DEF Carries, CarriedBy
    <2> QED BY <1>0, <2>1, <2>2, <2>3, Renaming DEF FirstMove
  <1>2. run[r].at + 1 \in 0 .. NBooks + 1 /\ run[r].at \in Books
    BY <1>1, MapsAssumption DEF Books
  <1>3. KeptBy(r)
    BY DEF Whole
  <1> DEFINE b == run[r].at
             n == File(journal.from[b])
             m == Temp(journal, b)
  <1>4. CASE Goes(journal, b) /\ Rename(n, m) /\ SetAtUndo(r, b + 1, run[r].undo \cup {b})
    <2>1. Became(r, "first", journal, run[r].own, b + 1, run[r].undo \cup {b})
      <3>1. run[r].undo \cup {b} \in SUBSET Books
        BY <1>1, <1>2
      <3> QED BY <1>0, <1>1, <1>2, <1>4, <3>1, SetAtUndoStep
    <2>2. n \in Names /\ m \in Names /\ n # m /\ m = <<journal.from[b], journal.id>>
      BY <1>1, <1>2, JournalKinds, NamesOf
    <2>3. \A k \in Names : k # n /\ k # m => disk'[k] = disk[k]
      <3> HIDE DEF n, m, b
      <3>1. disk \in [Names -> Books \cup {Stray, None}] /\ Rename(n, m)
        BY <1>0, <1>4 DEF TypeOK
      <3> QED BY <2>2, <3>1, Moved
    <2>4. ASSUME run[r].own, NEW a \in Books \ (run[r].undo \cup {b})
          PROVE  disk'[File(number[a])] = a
      <3>1. disk[File(number[a])] = a
        BY <1>1, <1>3, <2>4 DEF KeptBy
      <3>2. number[a] \in Places /\ number[b] \in Places /\ number[a] # number[b]
        BY <1>0, <1>2, <2>4 DEF TypeOK, Plans
      <3>3. File(number[a]) \in Names /\ File(number[a]) # n /\ File(number[a]) # m
        BY <1>1, <1>2, <3>2, JournalKinds, NamesOf
      <3> QED BY <2>3, <3>1, <3>3
    <2>5. KeptBy(r)'
      BY <1>1, <2>1, <2>4 DEF KeptBy, Became
    <2>6. \A p \in Places, i \in Ids : disk'[<<p, i>>] # None => disk[<<p, i>>] # None \/ i = journal.id
      <3> SUFFICES ASSUME NEW p \in Places, NEW i \in Ids, i # journal.id
                   PROVE  disk'[<<p, i>>] = disk[<<p, i>>]
        OBVIOUS
      <3>1. <<p, i>> \in Names /\ <<p, i>> # m
        BY <2>2, NamesOf
      <3>2. <<p, i>> # n
        BY <1>1, <1>2, JournalKinds, NamesOf
      <3> QED BY <2>3, <3>1, <3>2
    <2> QED BY <1>1, <2>1, <2>5, <2>6, RenameKeeps DEF Became
  <1>5. CASE SetAt(r, b + 1) /\ UNCHANGED disk
    <2>1. Became(r, "first", journal, run[r].own, b + 1, run[r].undo)
      BY <1>0, <1>1, <1>2, <1>5, SetAtStep
    <2>2. KeptBy(r)'
      BY <1>1, <1>3, <1>5, <2>1 DEF KeptBy, Became
    <2> QED BY <1>1, <1>5, <2>1, <2>2, CalmKeeps DEF Became
  <1>6. CASE GoTo(r, "undo") /\ UNCHANGED disk
    <2>1. Became(r, "undo", journal, run[r].own, run[r].at, run[r].undo)
      BY <1>0, <1>1, <1>6, WentTo DEF Pcs, InJournal
    <2>2. KeptBy(r)'
      BY <1>1, <1>3, <1>6, <2>1 DEF KeptBy, Became
    <2> QED BY <1>1, <1>6, <2>1, <2>2, CalmKeeps DEF Became
  <1> QED BY <1>1, <1>4, <1>5, <1>6 DEF FirstMove, SetAtUndo, SetAt

LEMMA PutBackKeeps ==
    ASSUME Held, Calm, Whole, NEW r \in Runs, PutBack(r), ~stranded'
    PROVE  Whole'
  <1>0. TypeOK /\ OneHolds /\ OneConfirms /\ Plans /\ Carries /\ Placed /\ Once /\ run \in [Runs -> RunType]
    BY DEF Held, Calm, TypeOK
  <1>1. /\ run[r].pc = "undo" /\ run[r].j = journal /\ journal \in Journals /\ journal # NoJournal
        /\ CarriedBy(r) /\ journal.from = number /\ run[r].undo \in SUBSET Books
        /\ UNCHANGED <<number, journal>>
    <2>1. run[r].pc = "undo"
      BY DEF PutBack
    <2>2. run[r].undo \in SUBSET Books
      BY <1>0 DEF RunType
    <2> QED BY <1>0, <2>1, <2>2, Renaming DEF PutBack
  <1>2. KeptBy(r)
    BY DEF Whole
  <1>3. PICK b \in run[r].undo : SetUndo(r, run[r].undo \ {b}) /\ Rename(Temp(journal, b), File(journal.from[b]))
    BY <1>1 DEF PutBack, SetUndo
  <1> DEFINE n == File(journal.from[b])
             m == Temp(journal, b)
  <1>4. b \in Books /\ disk[m] = b
    BY <1>1, <1>3 DEF CarriedBy, Renamed
  <1>5. n \in Names /\ m \in Names /\ n # m /\ m = <<journal.from[b], journal.id>>
    BY <1>1, <1>4, JournalKinds, NamesOf
  <1>6. disk'[n] = b /\ disk'[m] = None /\ \A k \in Names : k # n /\ k # m => disk'[k] = disk[k]
    <2>1. disk \in [Names -> Books \cup {Stray, None}] /\ Rename(m, n)
      BY <1>0, <1>3 DEF TypeOK
    <2> HIDE DEF n, m
    <2> QED BY <1>4, <1>5, <2>1, Moved
  <1>7. Became(r, "undo", journal, run[r].own, run[r].at, run[r].undo \ {b})
    <2>1. run[r].undo \ {b} \in SUBSET Books
      BY <1>1
    <2> QED BY <1>0, <1>1, <1>3, <2>1, SetUndoStep
  <1>8. ASSUME run[r].own, NEW a \in Books \ (run[r].undo \ {b})
        PROVE  disk'[File(number[a])] = a
    <2>1. CASE a = b
      BY <1>1, <1>6, <2>1
    <2>2. CASE a # b
      <3>1. disk[File(number[a])] = a
        BY <1>1, <1>2, <1>8, <2>2 DEF KeptBy
      <3>2. number[a] \in Places /\ number[b] \in Places /\ number[a] # number[b]
        BY <1>0, <1>4, <1>8, <2>2 DEF TypeOK, Plans
      <3>3. File(number[a]) \in Names /\ File(number[a]) # n /\ File(number[a]) # m
        BY <1>1, <1>4, <3>2, JournalKinds, NamesOf
      <3> QED BY <1>6, <3>1, <3>3
    <2> QED BY <2>1, <2>2
  <1>9. KeptBy(r)'
    BY <1>1, <1>7, <1>8 DEF KeptBy, Became
  <1>10. \A p \in Places, i \in Ids : disk'[<<p, i>>] # None => disk[<<p, i>>] # None \/ i = journal.id
    <2> SUFFICES ASSUME NEW p \in Places, NEW i \in Ids, i # journal.id
                 PROVE  disk'[<<p, i>>] = disk[<<p, i>>]
      OBVIOUS
    <2>1. <<p, i>> \in Names /\ <<p, i>> # m
      BY <1>5, NamesOf
    <2>2. <<p, i>> # n
      BY <1>1, <1>4, JournalKinds, NamesOf
    <2> QED BY <1>6, <2>1, <2>2
  <1> QED BY <1>1, <1>7, <1>9, <1>10, RenameKeeps DEF Became

(* A confirmed run that gives up has put everything back.                  *)
LEMMA GiveUpKeeps ==
    ASSUME Held, Calm, Whole, NEW r \in Runs, GiveUp(r)
    PROVE  Whole' /\ (journal' # journal => journal' = NoJournal /\ run[r].own)
  <1>0. TypeOK /\ Placed /\ Once /\ run \in [Runs -> RunType]
    BY DEF Held, Calm, TypeOK
  <1>1. run[r].pc = "undo" /\ run[r].undo = {} /\ UNCHANGED <<disk, number>> /\ GoTo(r, "end")
    BY DEF GiveUp
  <1>2. Became(r, "end", run[r].j, run[r].own, run[r].at, run[r].undo)
    BY <1>0, <1>1, WentTo DEF Pcs, InJournal
  <1>3. run'[r].pc \in Elsewhere /\ run'[r].pc # "built" /\ \A s \in Runs : s # r => run'[s] = run[s]
    BY <1>2 DEF Became, Elsewhere
  <1>4. CASE UNCHANGED journal
    BY <1>1, <1>3, <1>4, ElsewhereKeeps
  <1>5. CASE run[r].own /\ journal' = NoJournal
    <2>1. \A b \in Books : disk[File(number[b])] = b
      BY <1>1, <1>5 DEF Whole, KeptBy
    <2>2. \A p \in Places, i \in Ids : disk[<<p, i>>] = None
      BY <1>0, <2>1, AtTheirRows
    <2>3. FilesWhereRowsSay' /\ NoneLeft'
      BY <1>1, <2>1, <2>2 DEF FilesWhereRowsSay, NoneLeft, File
    <2>4. KeptBy(r)'
      BY <1>3 DEF Elsewhere, KeptBy
    <2>5. run[r].pc \in Holding
      BY <1>1 DEF Holding
    <2> QED BY <1>3, <1>5, <2>3, <2>4, <2>5, HolderKeeps
  <1> QED BY <1>4, <1>5 DEF GiveUp, Clears

LEMMA SaveFinalKeeps ==
    ASSUME Held, Calm, Whole, NEW r \in Runs, SaveFinal(r)
    PROVE  Whole' /\ (journal' # journal => journal # NoJournal /\ journal' # NoJournal /\ journal'.to = journal.to)
  <1>0. TypeOK /\ OneHolds /\ OneConfirms /\ Plans /\ Carries /\ run \in [Runs -> RunType]
    BY DEF Held, Calm, TypeOK
  <1>1. /\ run[r].pc = "first" /\ run[r].j = journal /\ journal \in Journals /\ journal # NoJournal
        /\ UNCHANGED <<disk, number>>
    <2>1. run[r].pc = "first"
      BY DEF SaveFinal
    <2> QED BY <1>0, <2>1, Renaming DEF SaveFinal
  <1> DEFINE final == Saved(journal)
  <1>2. CASE journal' = final /\ SetFinal(r, final, 1)
    <2>1. /\ final \in Journals /\ final # NoJournal
          /\ final.id = journal.id /\ final.from = journal.from /\ final.to = journal.to
      <3> DEFINE j == journal
      <3>1. j \in Journals /\ final = [j EXCEPT !.phase = "final"] /\ j = journal
        BY <1>1 DEF Saved
      <3> HIDE DEF j, final
      <3>2. /\ final \in Journals
            /\ final.id = j.id /\ final.from = j.from /\ final.to = j.to
        BY <3>1 DEF Journals
      <3> QED BY <3>1, <3>2, JournalKinds
    <2>2. 1 \in 0 .. NBooks + 1
      BY MapsAssumption
    <2> HIDE DEF final
    <2>3. Became(r, "second", final, run[r].own, 1, run[r].undo)
      BY <1>0, <1>2, <2>1, <2>2, SetFinalStep
    <2>4. KeptBy(r)'
      <3>1. \A b \in Books : ~(b < 1)
        BY MapsAssumption DEF Books
      <3> QED BY <2>3, <3>1 DEF KeptBy, Became
    <2>5. FilesWhereRowsSay' /\ NoneLeft'
      BY <1>1, <1>2, <2>1 DEF FilesWhereRowsSay, NoneLeft, Whole
    <2>6. run[r].pc \in Holding /\ run'[r].pc # "built" /\ \A s \in Runs : s # r => run'[s] = run[s]
      BY <1>1, <2>3 DEF Holding, Became
    <2>7. Whole'
      BY <2>4, <2>5, <2>6, HolderKeeps
    <2> QED BY <1>1, <1>2, <2>1, <2>7
  <1>3. CASE GoTo(r, "end") /\ UNCHANGED journal
    <2>1. Became(r, "end", run[r].j, run[r].own, run[r].at, run[r].undo)
      BY <1>0, <1>3, WentTo DEF Pcs, InJournal
    <2> QED BY <1>1, <1>3, <2>1, ElsewhereKeeps DEF Became, Elsewhere
  <1>4. \/ journal' = Saved(journal) /\ SetFinal(r, Saved(journal), 1)
        \/ GoTo(r, "end") /\ UNCHANGED journal
    BY <1>1 DEF SaveFinal, SetFinal
  <1> QED BY <1>2, <1>3, <1>4

LEMMA SecondMoveKeeps ==
    ASSUME Held, Calm, Whole, NEW r \in Runs, SecondMove(r)
    PROVE  Whole'
  <1>0. TypeOK /\ OneHolds /\ OneConfirms /\ Plans /\ Carries /\ Placed /\ Once /\ run \in [Runs -> RunType]
    BY DEF Held, Calm, TypeOK
  <1>1. /\ run[r].pc = "second" /\ run[r].j = journal /\ journal \in Journals /\ journal # NoJournal
        /\ run[r].at \in 0 .. NBooks + 1 /\ run[r].at <= NBooks
        /\ run[r].at >= 1 /\ UNCHANGED <<number, journal>>
    <2>1. run[r].pc = "second" /\ run[r].at <= NBooks
      BY DEF SecondMove
    <2>2. run[r].at \in 0 .. NBooks + 1
      BY <1>0 DEF RunType
    <2>3. run[r].at >= 1
      BY <1>0, <2>1 DEF Carries, CarriedBy
    <2> QED BY <1>0, <2>1, <2>2, <2>3, Renaming DEF SecondMove
  <1>2. run[r].at + 1 \in 0 .. NBooks + 1 /\ run[r].at \in Books
    BY <1>1, MapsAssumption DEF Books
  <1>3. \A a \in Books : a < run[r].at => disk[Temp(journal, a)] = None
    BY <1>1 DEF Whole, KeptBy
  <1> DEFINE b == run[r].at
             n == File(journal.to[b])
             m == Temp(journal, b)
  <1>4. \A a \in Books : a < b + 1 => a < b \/ a = b
    BY <1>2, MapsAssumption DEF Books
  <1>5. CASE Rename(m, n) /\ SetAt(r, b + 1)
    <2>1. Became(r, "second", journal, run[r].own, b + 1, run[r].undo)
      BY <1>0, <1>1, <1>2, <1>5, SetAtStep
    <2>2. /\ n \in Names /\ m \in Names /\ n # m
          /\ \A p \in Places, i \in Ids : <<p, i>> \in Names /\ <<p, i>> # n
      BY <1>1, <1>2, JournalKinds, NamesOf
    <2>3. disk'[m] = None /\ \A k \in Names : k # n /\ k # m => disk'[k] = disk[k]
      <3>1. disk \in [Names -> Books \cup {Stray, None}] /\ Rename(m, n)
        BY <1>0, <1>5 DEF TypeOK
      <3> HIDE DEF n, m, b
      <3> QED BY <2>2, <3>1, Moved
    <2>4. ASSUME NEW a \in Books, a < b + 1 PROVE disk'[Temp(journal, a)] = None
      <3>1. Temp(journal, a) \in Names /\ Temp(journal, a) # n
        BY <1>1, <2>2, JournalKinds
      <3>2. Temp(journal, a) = m \/ disk[Temp(journal, a)] = None
        BY <1>3, <1>4, <2>4
      <3> HIDE DEF n, m, b
      <3> QED BY <2>3, <3>1, <3>2
    <2>5. KeptBy(r)'
      BY <1>1, <2>1, <2>4 DEF KeptBy, Became, Temp
    <2>6. \A p \in Places, i \in Ids : disk'[<<p, i>>] # None => disk[<<p, i>>] # None \/ i = journal.id
      <3> HIDE DEF n, m, b
      <3> QED BY <2>2, <2>3
    <2> QED BY <1>1, <2>1, <2>5, <2>6, RenameKeeps DEF Became
  <1>6. CASE disk[m] = None /\ SetAt(r, b + 1) /\ UNCHANGED disk
    <2>1. Became(r, "second", journal, run[r].own, b + 1, run[r].undo)
      BY <1>0, <1>1, <1>2, <1>6, SetAtStep
    <2>2. \A a \in Books : a < b + 1 => disk[Temp(journal, a)] = None
      BY <1>3, <1>4, <1>6
    <2>3. KeptBy(r)'
      BY <1>1, <1>6, <2>1, <2>2 DEF KeptBy, Became, Temp
    <2> QED BY <1>1, <1>6, <2>1, <2>3, CalmKeeps DEF Became
  <1>7. CASE GoTo(r, "end") /\ UNCHANGED disk
    <2>1. Became(r, "end", run[r].j, run[r].own, run[r].at, run[r].undo)
      BY <1>0, <1>7, WentTo DEF Pcs, InJournal
    <2> QED BY <1>1, <1>7, <2>1, ElsewhereKeeps DEF Became, Elsewhere
  <1>8. \/ Rename(Temp(journal, run[r].at), File(journal.to[run[r].at])) /\ SetAt(r, run[r].at + 1)
        \/ disk[Temp(journal, run[r].at)] = None /\ SetAt(r, run[r].at + 1) /\ UNCHANGED disk
        \/ GoTo(r, "end") /\ UNCHANGED disk
    BY <1>1 DEF SecondMove, SetAt
  <1> QED BY <1>5, <1>6, <1>7, <1>8

(* With no temporary name left the files have their new names.             *)
LEMMA CommitKeeps ==
    ASSUME Held, Calm, Whole, NEW r \in Runs, Commit(r)
    PROVE  /\ Whole'
           /\ \/ UNCHANGED <<number, journal>>
              \/ journal # NoJournal /\ number' = journal.to /\ journal' = NoJournal
  <1>0. TypeOK /\ OneHolds /\ OneConfirms /\ Plans /\ Carries /\ Placed /\ Once /\ run \in [Runs -> RunType]
    BY DEF Held, Calm, TypeOK
  <1>1. /\ run[r].pc = "second" /\ run[r].j = journal /\ journal \in Journals /\ journal # NoJournal
        /\ run[r].at > NBooks /\ journal.phase = "final" /\ UNCHANGED disk
        /\ run[r].at \in 0 .. NBooks + 1
    <2>1. run[r].pc = "second" /\ run[r].at > NBooks /\ UNCHANGED disk
      BY DEF Commit
    <2>2. journal.phase = "final"
      BY <1>0, <2>1 DEF Carries, CarriedBy
    <2>3. run[r].at \in 0 .. NBooks + 1
      BY <1>0 DEF RunType
    <2> QED BY <1>0, <2>1, <2>2, <2>3, Renaming
  <1>2. PICK pc \in {"through", "end"} : GoTo(r, pc)
    BY DEF Commit
  <1>3. run'[r].pc \in Elsewhere /\ run'[r].pc # "built" /\ \A s \in Runs : s # r => run'[s] = run[s]
    <2>1. Became(r, pc, run[r].j, run[r].own, run[r].at, run[r].undo)
      BY <1>0, <1>2, WentTo DEF Pcs, InJournal
    <2> QED BY <2>1 DEF Became, Elsewhere
  <1>4. CASE UNCHANGED <<number, journal>>
    <2>1. UNCHANGED <<disk, number, journal>>
      BY <1>1, <1>4
    <2>2. Whole'
      BY <1>3, <2>1, ElsewhereKeeps
    <2> QED BY <1>4, <2>2
  <1>5. CASE number' = journal.to /\ journal' = NoJournal
    <2>1. \A b \in Books : disk[Temp(journal, b)] = None
      <3>1. \A b \in Books : b < run[r].at
        BY <1>1, MapsAssumption DEF Books
      <3> QED BY <1>1, <3>1 DEF Whole, KeptBy
    <2>2. \A p \in Places, i \in Ids : disk[<<p, i>>] = None
      <3> SUFFICES ASSUME NEW p \in Places, NEW i \in Ids, disk[<<p, i>>] # None PROVE FALSE
        OBVIOUS
      <3>1. i = journal.id
        BY DEF Whole, NoneLeft
      <3>2. /\ disk[<<p, i>>] \in Renamed(journal) /\ p = journal.from[disk[<<p, i>>]]
        BY <1>0, <1>1, <3>1 DEF Placed
      <3>3. disk[<<p, i>>] \in Books /\ Temp(journal, disk[<<p, i>>]) = <<p, i>>
        BY <1>1, <3>1, <3>2, JournalKinds DEF Renamed
      <3> QED BY <2>1, <3>3
    <2>3. ASSUME NEW b \in Books PROVE disk[File(journal.to[b])] = b
      <3>1. PICK k \in Names : disk[k] = b
        BY <1>0 DEF Once
      <3>2. b # None
        BY MapsAssumption DEF Books, None
      <3>3. PICK p \in Places : k = File(p)
        BY <2>2, <3>1, <3>2, NamesOf
      <3>4. p = journal.to[b]
        BY <1>0, <1>1, <3>1, <3>3 DEF Placed, NumberOf
      <3> QED BY <3>1, <3>3, <3>4
    <2>4. FilesWhereRowsSay' /\ NoneLeft'
      BY <1>1, <1>5, <2>2, <2>3 DEF FilesWhereRowsSay, NoneLeft, File
    <2>5. KeptBy(r)'
      BY <1>3 DEF Elsewhere, KeptBy
    <2>6. run[r].pc \in Holding
      BY <1>1 DEF Holding
    <2>7. Whole'
      BY <1>3, <2>4, <2>5, <2>6, HolderKeeps
    <2> QED BY <1>1, <1>5, <2>7
  <1> QED BY <1>1, <1>4, <1>5 DEF Commit, Cleared

LEMMA WriteJournalKeeps ==
    ASSUME Held, Calm, Whole, NEW r \in Runs, WriteJournal(r)
    PROVE  /\ Whole' /\ UNCHANGED number /\ journal = NoJournal /\ journal' # NoJournal
           /\ \E m \in Maps : journal'.to = [b \in Books |-> m[number[b]]]
  <1>0. TypeOK /\ OneHolds /\ OneConfirms /\ Plans /\ Carries /\ Placed /\ Once /\ run \in [Runs -> RunType]
    BY DEF Held, Calm, TypeOK
  <1> DEFINE i == run[r].j
             w == [run[r] EXCEPT !.pc = "wait", !.j = i, !.own = TRUE]
  <1>1. run[r].pc = "built" /\ journal' = i /\ UNCHANGED <<disk, number>>
    BY DEF WriteJournal
  <1>2. i \in Journals /\ i # NoJournal
    BY <1>0, <1>1, JournalKinds DEF Plans, Sound
  <1>3. journal = NoJournal
    BY <1>0, <1>1 DEF OneConfirms
  <1>4. \A b \in Books : disk[File(number[b])] = b
    BY <1>3 DEF Whole, FilesWhereRowsSay
  <1>5. \A p \in Places, k \in Ids : disk[<<p, k>>] = None
    BY <1>0, <1>4, AtTheirRows
  <1>6. /\ \A s \in Runs : s # r => run'[s] = run[s]
        /\ run'[r].pc = "wait" /\ run'[r].undo = run[r].undo /\ run'[r].own = TRUE
    <2>1. /\ w = [run[r] EXCEPT !.pc = "wait", !.j = i, !.own = TRUE] /\ run' = [run EXCEPT ![r] = w]
          /\ i \in Journals \cup {NoJournal} /\ TRUE \in BOOLEAN
      BY <1>2 DEF WriteJournal, Begin
    <2> HIDE DEF w, i
    <2> QED BY <1>0, <2>1, StepOwn
  <1>7. \A s \in Runs : run[s].pc \notin Holding /\ ~(run[s].pc = "wait" /\ run[s].own)
    <2>1. held = NoRun
      BY <1>0, <1>1 DEF OneConfirms
    <2>2. \A s \in Runs : s # NoRun
      BY RunsAssumption
    <2>3. \A s \in Runs : ~(run[s].pc = "wait" /\ run[s].own)
      BY <1>0, <1>3 DEF OneConfirms
    <2> QED BY <1>0, <2>1, <2>2, <2>3 DEF OneHolds
  <1>8. FilesWhereRowsSay' /\ NoneLeft'
    BY <1>1, <1>2, <1>5 DEF FilesWhereRowsSay, NoneLeft
  <1>9. OfAPlan'
    <2> SUFFICES ASSUME NEW s \in Runs, run'[s].pc = "built"
                 PROVE  \E m \in Maps : run'[s].j.to = [b \in Books |-> m[number'[b]]]
      BY DEF OfAPlan
    <2>1. run'[s] = run[s] /\ run[s].pc = "built" /\ number' = number
      BY <1>1, <1>6
    <2>2. PICK m \in Maps : run[s].j.to = [b \in Books |-> m[number[b]]]
      BY <2>1 DEF Whole, OfAPlan
    <2> QED BY <2>1, <2>2
  <1>10. ASSUME NEW s \in Runs PROVE KeptBy(s)'
    <2>1. CASE s = r
      BY <1>1, <1>4, <1>6, <2>1 DEF KeptBy, File
    <2>2. CASE s # r
      BY <1>6, <1>7, <2>2 DEF KeptBy, Holding
    <2> QED BY <2>1, <2>2
  <1>11. \E m \in Maps : journal'.to = [b \in Books |-> m[number[b]]]
    BY <1>1 DEF Whole, OfAPlan
  <1> QED BY <1>1, <1>2, <1>3, <1>8, <1>9, <1>10, <1>11 DEF Whole

LEMMA SettleKeeps ==
    ASSUME Held, Calm, Whole, NEW r \in Runs, Settle(r)
    PROVE  Whole' /\ UNCHANGED <<disk, number, journal>>
  <1>0. TypeOK /\ run \in [Runs -> RunType] /\ lastId \in Nat /\ number \in [Books -> Places]
    BY DEF Held, Calm, TypeOK
  <1>1. UNCHANGED <<disk, number, journal>> /\ lastId < MaxJournals
    BY DEF Settle, stored
  <1>2. PICK m \in Maps :
           SetBuilt(r, [id |-> lastId + 1, phase |-> "rename", from |-> number, to |-> [b \in Books |-> m[number[b]]]])
    BY DEF Settle, SetBuilt
  <1> DEFINE to == [b \in Books |-> m[number[b]]]
             j == [id |-> lastId + 1, phase |-> "rename", from |-> number, to |-> to]
  <1>3. j \in Journals \cup {NoJournal} /\ j.to = to
    <2>1. lastId + 1 \in Ids
      BY <1>0, <1>1, BoundsAssumption DEF Ids
    <2>2. m \in [Places -> Places]
      BY MapsAssumption
    <2>3. to \in [Books -> Places]
      BY <1>0, <2>2
    <2> QED BY <1>0, <2>1, <2>3 DEF Journals
  <1>4. /\ \A s \in Runs : s # r => run'[s] = run[s]
        /\ run'[r].pc = "built" /\ run'[r].j = j
    <2>1. SetBuilt(r, j)
      BY <1>2
    <2> HIDE DEF j
    <2> QED BY <1>0, <1>3, <2>1, SetBuiltStep
  <1>5. FilesWhereRowsSay' /\ NoneLeft'
    BY <1>1 DEF Whole, FilesWhereRowsSay, NoneLeft, File
  <1>6. OfAPlan'
    <2> SUFFICES ASSUME NEW s \in Runs, run'[s].pc = "built"
                 PROVE  \E n \in Maps : run'[s].j.to = [b \in Books |-> n[number'[b]]]
      BY DEF OfAPlan
    <2>1. number' = number
      BY <1>1
    <2>2. CASE s = r
      <3>1. run'[s].j.to = [b \in Books |-> m[number[b]]]
        BY <1>3, <1>4, <2>2
      <3> QED BY <2>1, <3>1
    <2>3. CASE s # r
      <3>1. run'[s] = run[s] /\ run[s].pc = "built"
        BY <1>4, <2>3
      <3>2. PICK n \in Maps : run[s].j.to = [b \in Books |-> n[number[b]]]
        BY <3>1 DEF Whole, OfAPlan
      <3> QED BY <2>1, <3>1, <3>2
    <2> QED BY <2>2, <2>3
  <1>7. ASSUME NEW s \in Runs PROVE KeptBy(s)'
    <2>1. CASE s = r
      BY <1>4, <2>1 DEF KeptBy
    <2>2. CASE s # r
      BY <1>1, <1>4, <2>2 DEF Whole, KeptBy, File, Temp
    <2> QED BY <2>1, <2>2
  <1> QED BY <1>1, <1>5, <1>6, <1>7 DEF Whole

(* The steps of a run that move nothing.                                   *)
LEMMA WaitingKeeps ==
    ASSUME Held, Calm, Whole, NEW r \in Runs,
           Enter(r) \/ EnterHeld(r) \/ Confirm(r) \/ Refuse(r) \/ ReadJournal(r) \/ Leave(r) \/ HoldScans(r) \/ Reread(r) \/ End(r)
    PROVE  Whole' /\ UNCHANGED <<disk, number, journal>>
  <1>0. TypeOK /\ Carries /\ run \in [Runs -> RunType] /\ journal \in Journals \cup {NoJournal}
    BY DEF Held, Calm, TypeOK
  <1>1. UNCHANGED <<disk, number, journal>>
    BY DEF Enter, EnterHeld, Confirm, Refuse, ReadJournal, Leave, HoldScans, Reread, End, stored
  <1>2. CASE Enter(r) \/ EnterHeld(r)
    <2>1. Entry \in {"inside", "resume"} /\ Entry \in Pcs /\ GoTo(r, Entry)
      BY <1>2 DEF Enter, EnterHeld, Entry, Pcs
    <2>2. Became(r, Entry, run[r].j, run[r].own, run[r].at, run[r].undo)
      BY <1>0, <2>1, WentTo
    <2> QED BY <1>1, <2>1, <2>2, ElsewhereKeeps DEF Became, Elsewhere
  <1>3. CASE Confirm(r)
    <2> DEFINE w == [run[r] EXCEPT !.pc = "asked", !.sure = TRUE]
    <2>1. w = [run[r] EXCEPT !.pc = "asked", !.sure = TRUE] /\ run' = [run EXCEPT ![r] = w]
      BY <1>3 DEF Confirm
    <2> HIDE DEF w
    <2>2. run'[r].pc = "asked" /\ \A s \in Runs : s # r => run'[s] = run[s]
      BY <1>0, <2>1, StepSure
    <2> QED BY <1>1, <2>2, ElsewhereKeeps DEF Elsewhere
  <1>4. CASE Refuse(r)
    <2>1. run' = [run EXCEPT ![r] = Idle]
      BY <1>4 DEF Refuse
    <2>2. run'[r].pc = "idle" /\ \A s \in Runs : s # r => run'[s] = run[s]
      BY <1>0, <2>1, IdleRun, RunMoves
    <2> QED BY <1>1, <2>2, ElsewhereKeeps DEF Elsewhere
  <1>5. CASE ReadJournal(r) /\ journal = NoJournal
    <2>1. GoTo(r, "inside") /\ "inside" \in Pcs
      BY <1>5 DEF ReadJournal, Pcs
    <2>2. Became(r, "inside", run[r].j, run[r].own, run[r].at, run[r].undo)
      BY <1>0, <2>1, WentTo
    <2> QED BY <1>1, <2>2, ElsewhereKeeps DEF Became, Elsewhere
  <1>6. CASE ReadJournal(r) /\ journal # NoJournal
    <2> DEFINE w == [run[r] EXCEPT !.pc = "wait", !.j = journal, !.own = FALSE]
    <2>1. /\ w = [run[r] EXCEPT !.pc = "wait", !.j = journal, !.own = FALSE] /\ run' = [run EXCEPT ![r] = w]
          /\ FALSE \in BOOLEAN
      BY <1>6 DEF ReadJournal, Begin
    <2> HIDE DEF w
    <2>2. run'[r].pc = "wait" /\ run'[r].own = FALSE /\ \A s \in Runs : s # r => run'[s] = run[s]
      BY <1>0, <2>1, StepOwn
    <2>3. KeptBy(r)'
      BY <2>2 DEF KeptBy
    <2> QED BY <1>1, <2>2, <2>3, CalmKeeps
  <1>7. CASE Leave(r)
    <2>1. run' = [run EXCEPT ![r] = Idle]
      BY <1>7 DEF Leave
    <2>2. run'[r].pc = "idle" /\ \A s \in Runs : s # r => run'[s] = run[s]
      BY <1>0, <2>1, IdleRun, RunMoves
    <2> QED BY <1>1, <2>2, ElsewhereKeeps DEF Elsewhere
  <1>8. CASE HoldScans(r)
    <2> DEFINE pc == IF run[r].own THEN "first" ELSE "reread"
    <2>1. pc \in Pcs /\ 1 \in 0 .. NBooks + 1 /\ SetPcAt(r, pc, 1) /\ run[r].pc = "wait"
      BY <1>8, MapsAssumption DEF HoldScans, SetPcAt, Pcs, InJournal
    <2>2. Became(r, pc, run[r].j, run[r].own, 1, run[r].undo)
      <3> HIDE DEF pc
      <3> QED BY <1>0, <2>1, SetPcAtStep
    <2>3. KeptBy(r)'
      BY <1>1, <2>1, <2>2 DEF Became, KeptBy, Whole, File
    <2> QED BY <1>1, <2>2, <2>3, CalmKeeps DEF Became
  <1>9. CASE Reread(r)
    <2>1. run[r].pc = "reread" /\ run[r].at = 1 /\ ~run[r].own
      BY <1>0, <1>9 DEF Reread, Carries, CarriedBy, Whole, KeptBy
    <2>2. CASE journal = NoJournal \/ journal.id # run[r].j.id
      <3>1. GoTo(r, "through") /\ "through" \in Pcs
        BY <1>9, <2>2 DEF Reread, Current, GoTo, Pcs, InJournal
      <3>2. Became(r, "through", run[r].j, run[r].own, run[r].at, run[r].undo)
        BY <1>0, <3>1, WentTo
      <3> QED BY <1>1, <3>2, ElsewhereKeeps DEF Became, Elsewhere
    <2>3. CASE ~(journal = NoJournal \/ journal.id # run[r].j.id)
      <3> DEFINE pc == IF journal.phase = "rename" THEN "first" ELSE "second"
      <3>1. SetJournal(r, journal, pc) /\ pc \in Pcs /\ pc # "built" /\ pc # "reread"
        BY <1>9, <2>3 DEF Reread, Current, SetJournal, Pcs, InJournal
      <3> HIDE DEF pc
      <3>2. Became(r, pc, journal, run[r].own, run[r].at, run[r].undo)
        BY <1>0, <3>1, SetJournalStep
      <3>3. \A b \in Books : ~(b < 1)
        BY MapsAssumption DEF Books
      <3>4. KeptBy(r)'
        BY <2>1, <3>1, <3>2, <3>3 DEF Became, KeptBy
      <3> QED BY <1>1, <3>1, <3>2, <3>4, CalmKeeps DEF Became
    <2> QED BY <2>2, <2>3
  <1>10. CASE End(r)
    <2>1. run'[r].pc \in {"idle", "inside"} /\ \A s \in Runs : s # r => run'[s] = run[s]
      BY <1>0, <1>10, Ended
    <2> QED BY <1>1, <2>1, ElsewhereKeeps DEF Elsewhere
  <1> QED BY <1>1, <1>2, <1>3, <1>4, <1>5, <1>6, <1>7, <1>8, <1>9, <1>10

(* A step that touches neither the files, the rows nor a run.              *)
LEMMA StutterKeeps ==
    ASSUME Whole, UNCHANGED <<disk, number, journal, run>>
    PROVE  Whole'
  <1>1. FilesWhereRowsSay' /\ NoneLeft'
    BY DEF Whole, FilesWhereRowsSay, NoneLeft, File
  <1>2. OfAPlan'
    <2> SUFFICES ASSUME NEW s \in Runs, run'[s].pc = "built"
                 PROVE  \E m \in Maps : run'[s].j.to = [b \in Books |-> m[number'[b]]]
      BY DEF OfAPlan
    <2>1. run'[s] = run[s] /\ run[s].pc = "built" /\ number' = number
      OBVIOUS
    <2>2. PICK m \in Maps : run[s].j.to = [b \in Books |-> m[number[b]]]
      BY <2>1 DEF Whole, OfAPlan
    <2> QED BY <2>1, <2>2
  <1>3. \A r \in Runs : KeptBy(r)'
    BY DEF Whole, KeptBy, File, Temp
  <1> QED BY <1>1, <1>2, <1>3 DEF Whole

LEMMA WholeNext ==
    ASSUME Held, Calm, Whole, [Next]_vars, ~stranded'
    PROVE  Whole'
  <1>1. CASE \E r \in Runs : \/ Enter(r) \/ EnterHeld(r) \/ Confirm(r) \/ Refuse(r) \/ ReadJournal(r) \/ Leave(r)
                             \/ HoldScans(r) \/ Reread(r) \/ End(r)
    BY <1>1, WaitingKeeps
  <1>2. CASE \E r \in Runs : Settle(r)
    BY <1>2, SettleKeeps
  <1>3. CASE \E r \in Runs : WriteJournal(r)
    BY <1>3, WriteJournalKeeps
  <1>4. CASE \E r \in Runs : FirstMove(r)
    BY <1>4, FirstMoveKeeps
  <1>5. CASE \E r \in Runs : PutBack(r)
    BY <1>5, PutBackKeeps
  <1>6. CASE \E r \in Runs : GiveUp(r)
    BY <1>6, GiveUpKeeps
  <1>7. CASE \E r \in Runs : SaveFinal(r)
    BY <1>7, SaveFinalKeeps
  <1>8. CASE \E r \in Runs : SecondMove(r)
    BY <1>8, SecondMoveKeeps
  <1>9. CASE \E r \in Runs : Commit(r)
    BY <1>9, CommitKeeps
  <1>10. CASE OthersTake \/ OthersLetGo \/ ScanLists \/ ScanIndexes \/ UNCHANGED vars
    <2>1. UNCHANGED <<disk, number, journal, run>>
      BY <1>10 DEF OthersTake, OthersLetGo, ScanLists, ScanIndexes, vars, stored
    <2> QED BY <2>1, StutterKeeps
  <1>11. CASE Crash
    <2>1. /\ UNCHANGED <<disk, number, journal>>
          /\ \A r \in Runs : run'[r].pc = "idle"
      BY <1>11, IdleRun DEF Crash, stored
    <2>2. FilesWhereRowsSay' /\ NoneLeft'
      BY <2>1 DEF Whole, FilesWhereRowsSay, NoneLeft, File
    <2> QED BY <2>1, <2>2 DEF Whole, OfAPlan, KeptBy
  <1> QED BY <1>1, <1>2, <1>3, <1>4, <1>5, <1>6, <1>7, <1>8, <1>9, <1>10, <1>11 DEF Next, Proceed

(* Read abstractly: outside a renumber the files are where the rows say.   *)
LEMMA FilesRead == Held /\ Calm /\ Whole => FileAt = IF journal = NoJournal THEN number ELSE Nobody
  <1> SUFFICES ASSUME Held, Calm, Whole PROVE FileAt = IF journal = NoJournal THEN number ELSE Nobody
    OBVIOUS
  <1>0. TypeOK /\ Placed /\ number \in [Books -> Places]
    BY DEF Held, Calm, TypeOK
  <1>1. CASE journal # NoJournal
    BY <1>1 DEF FileAt
  <1>2. CASE journal = NoJournal
    <2>1. ASSUME NEW b \in Books PROVE Named(b) = {number[b]}
      <3>1. number[b] \in Places /\ disk[File(number[b])] = b
        BY <1>0, <1>2 DEF Whole, FilesWhereRowsSay
      <3>2. \A p \in Places : disk[File(p)] = b => p = number[b]
        BY <1>0, <1>2 DEF Placed, NumberOf
      <3> QED BY <3>1, <3>2 DEF Named
    <2>2. \A b \in Books : Named(b) # {} /\ (CHOOSE p \in Named(b) : TRUE) = number[b]
      BY <2>1
    <2>3. FileAt = [b \in Books |-> number[b]]
      BY <1>2, <2>2 DEF FileAt
    <2> QED BY <1>0, <1>2, <2>3
  <1> QED BY <1>1, <1>2

LEMMA FilesReadNext == (Held /\ Calm /\ Whole)' => (FileAt = IF journal = NoJournal THEN number ELSE Nobody)'
  BY FilesRead, PTL

(* A plan that is written down says of everybody where it goes.            *)
LEMMA SomebodyMoves ==
    ASSUME NEW j \in Journals, Books # {}
    PROVE  j.to # Nobody
  <1>1. PICK b \in Books : TRUE
    OBVIOUS
  <1>2. j.to[b] \in Places /\ Nobody[b] = 0
    BY JournalKinds DEF Nobody
  <1> QED BY <1>2, MapsAssumption

\* Neither of what breaks a renumber has happened.
Sane == ~supplanted /\ ~stranded

LEMMA StepMaps ==
    ASSUME Held, Calm, Whole, Held', Calm', Whole', [Next]_vars, Sane, Sane'
    PROVE  [Abstract!Next]_(Abstract!vars)
  <1>0. /\ FileAt = IF journal = NoJournal THEN number ELSE Nobody
        /\ FileAt' = IF journal' = NoJournal THEN number' ELSE Nobody
    BY FilesRead, FilesReadNext DEF Nobody
  <1>t. /\ number \in [Books -> Places] /\ number' \in [Books -> Places]
        /\ journal \in Journals \cup {NoJournal} /\ journal' \in Journals \cup {NoJournal}
    BY DEF Held, TypeOK
  <1>b. (supplanted \/ stranded) = FALSE /\ (supplanted \/ stranded)' = FALSE
    BY DEF Sane
  <1>v. UNCHANGED <<number, Target, FileAt>> => [Abstract!Next]_(Abstract!vars)
    BY <1>b DEF Abstract!vars
  <1>w. Abstract!Start \/ Abstract!Finish \/ Abstract!GiveUp => Abstract!Next
    BY <1>b DEF Abstract!Next
  <1>1. CASE UNCHANGED <<number, journal>>
    BY <1>0, <1>1, <1>v DEF Target, Nobody
  <1>2. ASSUME NEW r \in Runs, WriteJournal(r) PROVE Abstract!Start
    <2>1. /\ UNCHANGED number /\ journal = NoJournal /\ journal' # NoJournal
          /\ \E m \in Maps : journal'.to = [b \in Books |-> m[number[b]]]
      BY <1>2, WriteJournalKeeps
    <2>2. Target = Nobody /\ Target' = journal'.to /\ FileAt' = Nobody
      BY <1>0, <2>1 DEF Target
    <2> QED BY <2>1, <2>2 DEF Abstract!Start, Abstract!Nobody, Abstract!Unsaid, Nobody
  <1>3. ASSUME Books = {} PROVE UNCHANGED <<number, Target, FileAt>>
    <2>1. number' = number
      BY <1>3, <1>t
    <2>2. Target = Nobody /\ Target' = Nobody
      BY <1>3, <1>t, JournalKinds DEF Target, Nobody
    <2>3. number = Nobody
      BY <1>3, <1>t DEF Nobody
    <2> QED BY <1>0, <2>1, <2>2, <2>3
  <1>4. ASSUME NEW r \in Runs, GiveUp(r), UNCHANGED number, journal' # journal, Books # {}
        PROVE  Abstract!GiveUp
    <2>1. journal' = NoJournal /\ journal \in Journals /\ journal # NoJournal
      BY <1>t, <1>4, GiveUpKeeps, JournalKinds
    <2>2. Target = journal.to /\ Target # Nobody /\ Target' = Nobody /\ FileAt' = number
      BY <1>0, <1>4, <2>1, SomebodyMoves DEF Target, Nobody
    <2> QED BY <1>4, <2>2 DEF Abstract!GiveUp, Abstract!Nobody, Abstract!Unsaid, Nobody
  <1>5. ASSUME NEW r \in Runs, SaveFinal(r), journal' # journal
        PROVE  UNCHANGED <<number, Target, FileAt>>
    <2>1. journal # NoJournal /\ journal' # NoJournal /\ journal'.to = journal.to
      BY <1>5, SaveFinalKeeps
    <2>2. number' = number
      BY <1>5 DEF SaveFinal
    <2> QED BY <1>0, <2>1, <2>2 DEF Target
  <1>6. ASSUME NEW r \in Runs, Commit(r), ~UNCHANGED <<number, journal>>, Books # {}
        PROVE  Abstract!Finish
    <2>1. journal # NoJournal /\ journal \in Journals /\ number' = journal.to /\ journal' = NoJournal
      BY <1>t, <1>6, CommitKeeps
    <2>2. Target = journal.to /\ Target # Nobody /\ Target' = Nobody /\ FileAt' = number'
      BY <1>0, <1>6, <2>1, SomebodyMoves DEF Target, Nobody
    <2> QED BY <2>1, <2>2 DEF Abstract!Finish, Abstract!Nobody, Abstract!Unsaid, Nobody
  <1>7. \/ UNCHANGED <<number, journal>>
        \/ \E r \in Runs : \/ WriteJournal(r) \/ Commit(r)
                           \/ SaveFinal(r) /\ journal' # journal
                           \/ GiveUp(r) /\ UNCHANGED number /\ journal' # journal
    <2>1. ASSUME NEW r \in Runs,
                 \/ Enter(r) \/ EnterHeld(r) \/ Confirm(r) \/ Refuse(r) \/ ReadJournal(r) \/ Leave(r)
                 \/ HoldScans(r) \/ Reread(r) \/ End(r) \/ Settle(r)
          PROVE  UNCHANGED <<number, journal>>
      BY <2>1, WaitingKeeps, SettleKeeps
    <2>2. ASSUME NEW r \in Runs, FirstMove(r) \/ PutBack(r) \/ SecondMove(r)
          PROVE  UNCHANGED <<number, journal>>
      BY <2>2 DEF FirstMove, PutBack, SecondMove
    <2>3. ASSUME NEW r \in Runs, GiveUp(r) \/ SaveFinal(r) PROVE UNCHANGED number
      BY <2>3 DEF GiveUp, SaveFinal
    <2>4. CASE OthersTake \/ OthersLetGo \/ ScanLists \/ ScanIndexes \/ Crash \/ UNCHANGED vars
      BY <2>4 DEF OthersTake, OthersLetGo, ScanLists, ScanIndexes, Crash, vars, stored
    <2> QED BY <2>1, <2>2, <2>3, <2>4 DEF Next, Proceed
  <1> QED BY <1>v, <1>w, <1>1, <1>2, <1>3, <1>4, <1>5, <1>6, <1>7

LEMMA WholeInit == Init => Whole /\ Abstract!Init
  <1> SUFFICES ASSUME Init PROVE Whole /\ Abstract!Init
    OBVIOUS
  <1>1. /\ supplanted = FALSE /\ stranded = FALSE /\ journal = NoJournal
        /\ number \in [Books -> Places] /\ \A r \in Runs : run[r].pc = "idle"
    BY InitInv, IdleRun DEF Init, IInv, Held, TypeOK
  <1>2. Held /\ Calm
    BY <1>1, InitInv DEF IInv
  <1>3. Whole
    <2>1. FilesWhereRowsSay
      BY InitFiles
    <2>2. NoneLeft
      BY <1>1, <1>2, <2>1, AtTheirRows DEF Held, Calm, FilesWhereRowsSay, NoneLeft
    <2> QED BY <1>1, <2>1, <2>2 DEF Whole, OfAPlan, KeptBy
  <1>4. FileAt = number /\ Target = Nobody
    BY <1>1, <1>2, <1>3, FilesRead DEF Target
  <1> QED BY <1>1, <1>3, <1>4 DEF Abstract!Init, Abstract!Nobody, Abstract!Unsaid, Nobody

WholeTillBroken == IInv /\ (Sane => Whole)

LEMMA WholeTillBrokenNext ==
    ASSUME WholeTillBroken, [Next]_vars
    PROVE  WholeTillBroken'
  <1>1. IInv'
    BY NextInv DEF WholeTillBroken
  <1>2. ASSUME Sane' PROVE Whole'
    <2>1. Sane
      BY <1>2, BrokenStays DEF Sane
    <2> QED BY <1>2, <2>1, WholeNext DEF WholeTillBroken, IInv, Sane
  <1> QED BY <1>1, <1>2 DEF WholeTillBroken

\* A renumber is atomic to whoever looks between renumbers, and its journal is not replaced
\* under it: through any crashes, resumes, confirmations and failures, until a plan is made
\* while a journal stands on the row (numbering.ts:778) or a rename back fails
\* (numbering.ts:557).
THEOREM AtomicTillBroken == Spec => Atomic
  <1>1. Init => WholeTillBroken /\ Abstract!Init
    BY InitInv, WholeInit DEF WholeTillBroken
  <1>2. WholeTillBroken /\ [Next]_vars => WholeTillBroken'
    BY WholeTillBrokenNext
  <1>3. WholeTillBroken /\ WholeTillBroken' /\ [Next]_vars => [Abstract!Next]_(Abstract!vars)
    <2> SUFFICES ASSUME WholeTillBroken, WholeTillBroken', [Next]_vars PROVE [Abstract!Next]_(Abstract!vars)
      OBVIOUS
    <2>1. CASE Sane'
      <3>1. Sane
        BY <2>1, BrokenStays DEF Sane
      <3> QED BY <2>1, <3>1, StepMaps DEF WholeTillBroken, IInv, Sane
    <2>2. CASE ~Sane'
      <3>1. (supplanted \/ stranded)' = TRUE
        BY <2>2 DEF Sane
      <3> QED BY <3>1 DEF Abstract!Next, Abstract!Break
    <2> QED BY <2>1, <2>2
  <1> QED BY <1>1, <1>2, <1>3, PTL DEF Spec, Atomic, Abstract!Spec

-----------------------------------------------------------------------------
(* What it takes to break a renumber.  While nothing has failed a journal  *)
(* on the row has a run that settles or nobody inside the series who could *)
(* make another plan, and whoever waits with a journal waits with the one  *)
(* on the row.                                                             *)
Even(r) ==
    /\ run[r].pc \notin {"undo", "end"}
    /\ run[r].pc = "inside" /\ journal # NoJournal => settling # NoRun
    /\ run[r].pc = "through" => journal = NoJournal
    /\ run[r].pc \in {"wait", "reread"} => journal = NoJournal \/ journal.id = run[r].j.id
    /\ run[r].pc = "built" => \A s \in Runs : run[s].pc \notin InJournal

AllEven == \A r \in Runs : Even(r)

(* A step of one run that neither writes the row nor settles.              *)
LEMMA EvenKeeps ==
    ASSUME AllEven, NEW r \in Runs, \A s \in Runs : s # r => run'[s] = run[s],
           UNCHANGED <<journal, settling>>,
           run'[r].pc # "built",
           run'[r].pc \in InJournal => run[r].pc \in InJournal \/ \A s \in Runs : run[s].pc # "built",
           Even(r)'
    PROVE  AllEven'
  <1>1. ASSUME NEW s \in Runs, s # r PROVE Even(s)'
    <2>1. run'[s] = run[s] /\ Even(s)
      BY <1>1 DEF AllEven
    <2>2. ASSUME run[s].pc = "built", NEW t \in Runs PROVE run'[t].pc \notin InJournal
      <3>1. \A q \in Runs : run[q].pc \notin InJournal
        BY <2>1, <2>2 DEF Even
      <3> QED BY <2>2, <3>1
    <2> QED BY <2>1, <2>2 DEF Even
  <1> QED BY <1>1 DEF AllEven

LEMMA EvenNext ==
    ASSUME Held, Calm, AllEven, [Next]_vars, UNCHANGED faults
    PROVE  AllEven' /\ UNCHANGED <<supplanted, stranded>>
  <1>0. /\ run \in [Runs -> RunType] /\ journal \in Journals \cup {NoJournal}
        /\ \A r \in Runs : run[r].j \in Journals \cup {NoJournal} /\ run[r].undo \in SUBSET Books
        /\ \A r \in Runs : run[r].at \in 0 .. NBooks + 1
        /\ OneHolds /\ OneSettles /\ OneConfirms /\ Plans /\ Carries
    BY DEF Held, Calm, TypeOK, RunType
  <1>f. ~Fault
    BY BoundsAssumption DEF Fault, Held, TypeOK
  <1>g. ASSUME NEW r \in Runs, NEW pc \in Pcs, GoTo(r, pc)
        PROVE  Became(r, pc, run[r].j, run[r].own, run[r].at, run[r].undo)
    BY <1>0, <1>g, WentTo
  <1>b. journal # NoJournal => \A s \in Runs : run[s].pc # "built"
    BY <1>0 DEF OneConfirms
  <1>1. ASSUME NEW r \in Runs, Enter(r) \/ EnterHeld(r) PROVE AllEven'
    <2>1. Became(r, Entry, run[r].j, run[r].own, run[r].at, run[r].undo) /\ Entry \in {"inside", "resume"}
      BY <1>1, <1>g DEF Enter, EnterHeld, Entry, Pcs
    <2>2. UNCHANGED <<journal, settling>> /\ (Entry = "inside" => journal = NoJournal)
      BY <1>1 DEF Enter, EnterHeld, Entry, stored, locks
    <2> QED BY <2>1, <2>2, EvenKeeps DEF Became, Even, InJournal
  <1>2. ASSUME NEW r \in Runs, Confirm(r) PROVE AllEven'
    <2> DEFINE w == [run[r] EXCEPT !.pc = "asked", !.sure = TRUE]
    <2>1. w = [run[r] EXCEPT !.pc = "asked", !.sure = TRUE] /\ run' = [run EXCEPT ![r] = w]
      BY <1>2 DEF Confirm
    <2> HIDE DEF w
    <2>2. \A s \in Runs : s # r => run'[s] = run[s]
      BY <1>0, <2>1, StepSure
    <2>3. run'[r].pc = "asked"
      BY <1>0, <2>1, StepSure
    <2>4. UNCHANGED <<journal, settling>>
      BY <1>2 DEF Confirm, stored, locks
    <2> QED BY <2>2, <2>3, <2>4, EvenKeeps DEF Even, InJournal
  <1>3. ASSUME NEW r \in Runs, Refuse(r) \/ Leave(r) PROVE AllEven'
    <2>1. run'[r].pc = "idle" /\ \A s \in Runs : s # r => run'[s] = run[s]
      BY <1>0, <1>3, IdleRun, RunMoves DEF Refuse, Leave
    <2>2. UNCHANGED <<journal, settling>>
      BY <1>3 DEF Refuse, Leave, stored, locks
    <2> QED BY <2>1, <2>2, EvenKeeps DEF Even, InJournal
  <1>4. ASSUME NEW r \in Runs, Settle(r) PROVE AllEven' /\ UNCHANGED <<supplanted, stranded>>
    <2>1. run[r].pc = "inside" /\ settling = NoRun /\ Alone(r) /\ UNCHANGED <<journal, stranded>>
      BY <1>4 DEF Settle, stored
    <2>2. journal = NoJournal /\ UNCHANGED supplanted
      BY <1>4, <2>1 DEF AllEven, Even, Settle, Held, TypeOK
    <2>3. /\ \A s \in Runs : s # r => run'[s] = run[s]
          /\ run'[r].pc = "built"
      <3>1. PICK m \in Maps :
            SetBuilt(r, [id |-> lastId + 1, phase |-> "rename", from |-> number, to |-> [b \in Books |-> m[number[b]]]])
        BY <1>4 DEF Settle, SetBuilt
      <3> QED BY <1>0, <3>1 DEF SetBuilt, RunType
    <2>4. \A s \in Runs : s # r => run[s].pc \in {"idle", "asked"}
      BY <2>1 DEF Alone, Inside
    <2>5. \A s \in Runs : run'[s].pc \notin InJournal /\ run'[s].pc \in {"idle", "asked", "built"}
      BY <2>3, <2>4 DEF InJournal
    <2> QED BY <2>1, <2>2, <2>5 DEF AllEven, Even
  <1>5. ASSUME NEW r \in Runs, ReadJournal(r) PROVE AllEven'
    <2>0. UNCHANGED <<journal, settling>>
      BY <1>5 DEF ReadJournal, stored
    <2>1. CASE journal = NoJournal
      <3>1. Became(r, "inside", run[r].j, run[r].own, run[r].at, run[r].undo)
        BY <1>5, <1>g, <2>1 DEF ReadJournal, Pcs
      <3> QED BY <2>0, <2>1, <3>1, EvenKeeps DEF Became, Even, InJournal
    <2>2. CASE journal # NoJournal
      <3>1. Became(r, "wait", journal, FALSE, run[r].at, run[r].undo)
        BY <1>0, <1>5, <2>2, Begun DEF ReadJournal
      <3> QED BY <1>b, <2>0, <2>2, <3>1, EvenKeeps DEF Became, Even
    <2> QED BY <2>1, <2>2
  <1>6. ASSUME NEW r \in Runs, WriteJournal(r) PROVE AllEven'
    <2>1. /\ run[r].pc = "built" /\ journal' = run[r].j /\ UNCHANGED settling
          /\ Became(r, "wait", run[r].j, TRUE, run[r].at, run[r].undo)
      BY <1>0, <1>6, Begun DEF WriteJournal
    <2>2. /\ settling = r /\ settling # NoRun
          /\ \A s \in Runs : s # r => run[s].pc # "built"
      BY <1>0, <2>1, RunsAssumption DEF OneSettles, Settling
    <2>3. \A s \in Runs : run[s].pc \notin InJournal
      BY <2>1 DEF AllEven, Even
    <2>4. ASSUME NEW s \in Runs, s # r PROVE Even(s)'
      <3>1. run'[s] = run[s] /\ run[s].pc \notin InJournal /\ run[s].pc # "built"
        BY <2>1, <2>2, <2>3, <2>4 DEF Became
      <3> QED BY <2>1, <2>2, <3>1 DEF Even, InJournal
    <2>5. Even(r)'
      BY <2>1 DEF Even, Became
    <2> QED BY <2>4, <2>5 DEF AllEven
  <1>7. ASSUME NEW r \in Runs, HoldScans(r) PROVE AllEven'
    <2> DEFINE pc == IF run[r].own THEN "first" ELSE "reread"
    <2>1. Became(r, pc, run[r].j, run[r].own, 1, run[r].undo) /\ pc \in {"first", "reread"}
      <3>1. SetPcAt(r, pc, 1)
        BY <1>7 DEF HoldScans, SetPcAt
      <3>2. 1 \in 0 .. NBooks + 1 /\ pc \in Pcs
        BY MapsAssumption DEF Pcs, InJournal
      <3> QED BY <1>0, <3>1, <3>2, SetPcAtStep
    <2> HIDE DEF pc
    <2>2. UNCHANGED <<journal, settling>> /\ run[r].pc = "wait" /\ Even(r)
      BY <1>7 DEF HoldScans, stored, AllEven
    <2> QED BY <2>1, <2>2, EvenKeeps DEF Became, Even, InJournal
  <1>8. ASSUME NEW r \in Runs, Reread(r) PROVE AllEven'
    <2>0. UNCHANGED <<journal, settling>> /\ run[r].pc = "reread" /\ Even(r)
      BY <1>8 DEF Reread, stored, locks, AllEven
    <2>1. CASE journal = NoJournal
      <3>1. GoTo(r, "through")
        BY <1>8, <2>1 DEF Reread, Current, GoTo
      <3>2. Became(r, "through", run[r].j, run[r].own, run[r].at, run[r].undo)
        BY <1>g, <3>1 DEF Pcs, InJournal
      <3> QED BY <2>0, <2>1, <3>2, EvenKeeps DEF Became, Even, InJournal
    <2>2. CASE journal # NoJournal
      <3> DEFINE pc == IF journal.phase = "rename" THEN "first" ELSE "second"
      <3>1. SetJournal(r, journal, pc) /\ pc \in Pcs
        BY <1>8, <2>0, <2>2 DEF Reread, Current, SetJournal, Even, Pcs, InJournal
      <3>2. Became(r, pc, journal, run[r].own, run[r].at, run[r].undo) /\ pc \in {"first", "second"}
        BY <1>0, <3>1, SetJournalStep
      <3> HIDE DEF pc
      <3> QED BY <2>0, <3>2, EvenKeeps DEF Became, Even, InJournal
    <2> QED BY <2>1, <2>2
  <1>9. ASSUME NEW r \in Runs, FirstMove(r) \/ SecondMove(r) PROVE AllEven'
    <2>0. UNCHANGED <<journal, settling>> /\ run[r].pc \in {"first", "second"}
      BY <1>9 DEF FirstMove, SecondMove, locks
    <2>1. run'[r].pc = run[r].pc /\ \A s \in Runs : s # r => run'[s] = run[s]
      <3>1. \/ \E a, u : SetAtUndo(r, a, u)
            \/ \E a : SetAt(r, a)
        BY <1>9, <1>f DEF FirstMove, SecondMove, SetAtUndo, SetAt
      <3>2. ASSUME NEW a, NEW u, SetAtUndo(r, a, u)
            PROVE  run'[r].pc = run[r].pc /\ \A s \in Runs : s # r => run'[s] = run[s]
        BY <1>0, <3>2 DEF SetAtUndo, RunType
      <3>3. ASSUME NEW a, SetAt(r, a)
            PROVE  run'[r].pc = run[r].pc /\ \A s \in Runs : s # r => run'[s] = run[s]
        BY <1>0, <3>3 DEF SetAt, RunType
      <3> QED BY <3>1, <3>2, <3>3
    <2> QED BY <2>0, <2>1, EvenKeeps DEF Even, InJournal
  <1>10. ASSUME NEW r \in Runs, PutBack(r) \/ GiveUp(r) PROVE FALSE
    BY <1>10 DEF PutBack, GiveUp, AllEven, Even
  <1>11. ASSUME NEW r \in Runs, SaveFinal(r) PROVE AllEven'
    <2>1. /\ run[r].pc = "first" /\ journal' = Saved(run[r].j) /\ UNCHANGED settling
          /\ SetFinal(r, Saved(run[r].j), 1)
      BY <1>11, <1>f DEF SaveFinal, SetFinal, locks
    <2>2. run[r].j = journal /\ journal \in Journals /\ journal # NoJournal /\ \A s \in Runs : run[s].pc # "built"
      BY <1>0, <2>1, Renaming
    <2>3. journal'.id = journal.id
      BY <2>1, <2>2 DEF Saved, Journals
    <2>4. run'[r].pc = "second" /\ \A s \in Runs : s # r => run'[s] = run[s]
      BY <1>0, <2>1 DEF SetFinal, RunType
    <2>5. ASSUME NEW s \in Runs, s # r PROVE Even(s)'
      <3>1. run'[s] = run[s] /\ Even(s) /\ run[s].pc # "built"
        BY <2>2, <2>4, <2>5 DEF AllEven
      <3> QED BY <2>1, <2>2, <2>3, <3>1 DEF Even
    <2> QED BY <2>4, <2>5 DEF AllEven, Even
  <1>12. ASSUME NEW r \in Runs, Commit(r) PROVE AllEven'
    <2>1. run[r].pc = "second" /\ journal' = NoJournal /\ UNCHANGED settling /\ GoTo(r, "through")
      BY <1>12, <1>f DEF Commit, Cleared, locks
    <2>2. Became(r, "through", run[r].j, run[r].own, run[r].at, run[r].undo)
      BY <1>g, <2>1 DEF Pcs, InJournal
    <2>3. \A s \in Runs : run[s].pc # "built"
      BY <1>0, <2>1, Renaming
    <2>4. ASSUME NEW s \in Runs, s # r PROVE Even(s)'
      <3>1. run'[s] = run[s] /\ Even(s) /\ run[s].pc # "built"
        BY <2>2, <2>3, <2>4 DEF AllEven, Became
      <3> QED BY <2>1, <3>1 DEF Even
    <2> QED BY <2>1, <2>2, <2>4 DEF AllEven, Even, Became
  <1>13. ASSUME NEW r \in Runs, End(r) PROVE AllEven'
    <2>1. /\ run[r].pc = "through" /\ journal = NoJournal /\ UNCHANGED journal
      BY <1>13 DEF End, AllEven, Even, stored
    <2>2. run'[r].pc \in {"idle", "inside"} /\ \A s \in Runs : s # r => run'[s] = run[s]
      BY <1>0, <1>13, Ended
    <2>3. ASSUME NEW s \in Runs, s # r PROVE Even(s)'
      <3>1. run'[s] = run[s] /\ Even(s) /\ run[s].pc # "built"
        BY <2>1, <2>2, <2>3 DEF AllEven, Even, InJournal
      <3> QED BY <2>1, <3>1 DEF Even
    <2> QED BY <2>1, <2>2, <2>3 DEF AllEven, Even
  <1>14. ASSUME OthersTake \/ OthersLetGo \/ ScanLists \/ ScanIndexes \/ UNCHANGED vars PROVE AllEven'
    <2>1. UNCHANGED <<run, journal, settling>>
      BY <1>14 DEF OthersTake, OthersLetGo, ScanLists, ScanIndexes, vars, stored, locks
    <2> QED BY <2>1 DEF AllEven, Even
  <1>15. ASSUME Crash PROVE AllEven'
    <2>1. \A r \in Runs : run'[r].pc = "idle"
      BY <1>15, IdleRun DEF Crash
    <2> QED BY <2>1 DEF AllEven, Even
  <1>16. UNCHANGED <<supplanted, stranded>> \/ \E r \in Runs : Settle(r)
    BY <1>10, WhoBreaks
  <1>17. AllEven'
    BY <1>1, <1>2, <1>3, <1>4, <1>5, <1>6, <1>7, <1>8, <1>9, <1>10, <1>11, <1>12, <1>13, <1>14, <1>15
       DEF Next, Proceed
  <1> QED BY <1>4, <1>16, <1>17

Flawless == IInv /\ (faults = 0 => AllEven) /\ BrokenByFailures

(* A step that fails counts; a file is stranded by a rename back that      *)
(* fails, and nothing is put back unless a rename has failed before.       *)
LEMMA FailuresCount ==
    ASSUME [Next]_vars
    PROVE  /\ faults' = faults \/ faults' = faults + 1
           /\ stranded' => stranded \/ (faults' = faults + 1 /\ \E r \in Runs : run[r].pc = "undo")
  <1>1. ASSUME NEW r \in Runs, PutBack(r)
        PROVE  /\ run[r].pc = "undo"
               /\ \/ faults' = faults /\ stranded' = stranded
                  \/ faults' = faults + 1
    BY <1>1 DEF PutBack, Fault
  <1>2. ASSUME NEW r \in Runs, GiveUp(r) \/ SaveFinal(r) \/ SecondMove(r) \/ Commit(r) \/ FirstMove(r)
        PROVE  (faults' = faults \/ faults' = faults + 1) /\ stranded' = stranded
    BY <1>2 DEF GiveUp, SaveFinal, SecondMove, Commit, FirstMove, Fault, around
  <1>3. ASSUME NEW r \in Runs,
               \/ Enter(r) \/ EnterHeld(r) \/ Confirm(r) \/ Settle(r) \/ Refuse(r) \/ ReadJournal(r) \/ Leave(r)
               \/ WriteJournal(r) \/ HoldScans(r) \/ Reread(r) \/ End(r)
        PROVE  faults' = faults /\ stranded' = stranded
    BY <1>3 DEF Enter, EnterHeld, Confirm, Settle, Refuse, ReadJournal, Leave, WriteJournal, HoldScans, Reread, End,
                around
  <1>4. CASE OthersTake \/ OthersLetGo \/ ScanLists \/ ScanIndexes \/ Crash \/ UNCHANGED vars
    BY <1>4 DEF OthersTake, OthersLetGo, ScanLists, ScanIndexes, Crash, vars, around
  <1> QED BY <1>1, <1>2, <1>3, <1>4 DEF Next, Proceed

LEMMA FlawlessNext ==
    ASSUME Flawless, [Next]_vars
    PROVE  Flawless'
  <1>0. faults \in Nat /\ TypeOK /\ Held /\ IInv'
    BY BoundsAssumption, NextInv DEF Flawless, IInv, Held, TypeOK
  <1>1. /\ faults' = faults \/ faults' = faults + 1
        /\ stranded' => stranded \/ (faults' = faults + 1 /\ \E r \in Runs : run[r].pc = "undo")
    BY FailuresCount
  <1>2. CASE faults' = 0
    <2>1. faults = 0 /\ UNCHANGED faults
      BY <1>0, <1>1, <1>2
    <2>2. Calm /\ AllEven /\ ~supplanted /\ ~stranded
      BY <2>1 DEF Flawless, BrokenByFailures, IInv
    <2>3. AllEven' /\ UNCHANGED <<supplanted, stranded>>
      BY <1>0, <2>1, <2>2, EvenNext
    <2> QED BY <1>0, <2>2, <2>3 DEF Flawless, BrokenByFailures
  <1>3. CASE faults' # 0
    <2>1. faults' >= 1
      BY <1>0, <1>1, <1>3
    <2>2. ASSUME stranded' PROVE faults' >= 2
      <3>1. CASE stranded
        BY <1>0, <1>1, <3>1 DEF Flawless, BrokenByFailures
      <3>2. CASE ~stranded
        <4>1. faults # 0
          BY <1>1, <2>2, <3>2 DEF Flawless, AllEven, Even
        <4> QED BY <1>0, <1>1, <2>2, <3>2, <4>1
      <3> QED BY <3>1, <3>2
    <2> QED BY <1>0, <1>3, <2>1, <2>2 DEF Flawless, BrokenByFailures
  <1> QED BY <1>2, <1>3

\* What breaks a renumber takes failures, and as many: confirmations, visits, crashes and
\* scans alone never make a plan from the rows while a journal is to change them
\* (numbering.ts:778), however many there are and in whatever order; and no single failure
\* leaves a file at a temporary name without its journal (numbering.ts:557).
THEOREM FailuresBreak == Spec => []BrokenByFailures
  <1>1. Init => Flawless
    <2> SUFFICES ASSUME Init PROVE Flawless
      OBVIOUS
    <2>1. IInv /\ supplanted = FALSE /\ stranded = FALSE /\ \A r \in Runs : run[r].pc = "idle"
      BY InitInv, IdleRun DEF Init
    <2> QED BY <2>1 DEF Flawless, AllEven, Even, BrokenByFailures
  <1>2. Flawless /\ [Next]_vars => Flawless'
    BY FlawlessNext
  <1>3. Flawless => BrokenByFailures
    BY DEF Flawless
  <1> QED BY <1>1, <1>2, <1>3, PTL DEF Spec
=============================================================================
