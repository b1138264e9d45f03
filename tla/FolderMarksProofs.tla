-------------------------- MODULE FolderMarksProofs --------------------------
(***************************************************************************)
(* Proofs about FolderMarks, for any number of visits, jobs, owners and    *)
(* chapters of the archive.                                                *)
(*                                                                         *)
(* Two facts carry them.  Whoever holds the mark holds it alone, the runs  *)
(* of a journal counted as one holder (Exclusive): giving it back takes    *)
(* nobody else's away.  And a writer that needs the series to itself came  *)
(* when nobody was inside, so a visit inside now came after it and has yet *)
(* to look at the folder (Apart); when it looks it finds the folder busy   *)
(* and no renumber under way, because a visit in a renumber is past its    *)
(* look (Settler), and it leaves.                                          *)
(***************************************************************************)
EXTENDS FolderMarks, TLAPS

Archiving == \E a \in Archives : archive[a] = "loading"
Early(v) == visit[v] \in {"out", "entered", "read"}

\* Who holds the mark holds it alone.
Exclusive ==
    /\ mine # {} => share = {} /\ ~Owned /\ ~Archiving
    /\ share # {} => ~Owned /\ ~Archiving
    /\ Owned => ~Archiving
    /\ \A u, v \in mine : u = v
    /\ \A o, p \in Owners : owner[o] = "owning" /\ owner[p] = "owning" => o = p
    /\ \A a, b \in Archives : archive[a] = "loading" /\ archive[b] = "loading" => a = b
    /\ \A v \in share : visit[v] \in {"wait", "rename"}

\* Nobody has looked at a folder somebody owns, or a job holds.
Apart ==
    /\ Owned \/ JobHolds => \A v \in Visits : Early(v) /\ (v \in Marking => visit[v] = "out")
    /\ \A j \in Jobs : job[j] \in {"reserved", "writing"} => ~marked

\* A visit that settles a renumber is past its look.
Settler == settling # Nobody => visit[settling] \in {"building", "built", "wait", "rename"}

\* One run renames.
OneRun == \A u, v \in Visits : visit[u] = "rename" /\ visit[v] = "rename" => u = v

IInv == TypeOK /\ MarkKept /\ Exclusive /\ Apart /\ Settler /\ OneRun

\* Every step keeps the types.
LEMMA TypeStep ==
    ASSUME TypeOK, Next
    PROVE  TypeOK'
PROOF
<1> USE ActorsAssumption DEF TypeOK, Visits, Rows, Clear, VisitAt, Goes, Reads, others, visiting
<1>1. ASSUME NEW v \in Visits, Enter(v) PROVE TypeOK'
  BY <1>1 DEF Enter
<1>2. ASSUME NEW v \in Visits, MarkAndEnter(v) PROVE TypeOK'
  BY <1>2 DEF MarkAndEnter, jobBusy
<1>3. ASSUME NEW v \in Visits, ReadRow(v) PROVE TypeOK'
  BY <1>3 DEF ReadRow
<1>4. ASSUME NEW v \in Visits, Look(v) PROVE TypeOK'
  BY <1>4 DEF Look, MayStay, folderBusy, jobBusy, RenumberRunning, Running
<1>5. ASSUME NEW v \in Visits, ReadPlan(v) PROVE TypeOK'
  BY <1>5 DEF ReadPlan
<1>6. ASSUME NEW v \in Visits, Resume(v) PROVE TypeOK'
  <2>1. visit' \in [Visits -> VisitAt] /\ UNCHANGED <<saw, others, settling, row>>
    BY <1>6 DEF Resume
  <2>2. share' \subseteq Visits /\ marked' \in BOOLEAN
    <3>1. CASE saw[v].plan
      BY <1>6, <3>1 DEF Resume, MarkFolder
    <3>2. CASE ~saw[v].plan
      BY <1>6, <3>2 DEF Resume
    <3> QED
      BY <3>1, <3>2
  <2> QED
    BY <2>1, <2>2
<1>7. ASSUME NEW v \in Visits, HoldScans(v) PROVE TypeOK'
  BY <1>7 DEF HoldScans, Woken, Unmark
<1>8. ASSUME NEW v \in Visits, Commit(v) PROVE TypeOK'
  BY <1>8 DEF Commit, Unmark
<1>9. ASSUME NEW v \in Visits, Fail(v) PROVE TypeOK'
  BY <1>9 DEF Fail, Unmark
<1>10. ASSUME NEW v \in Visits, ReadAgain(v) PROVE TypeOK'
  BY <1>10 DEF ReadAgain
<1>11. ASSUME NEW v \in Visits, Listed(v) PROVE TypeOK'
  <2>1. visit' \in [Visits -> VisitAt] /\ UNCHANGED <<others, marked, share, settling>>
    BY <1>11 DEF Listed
  <2>2. row' \in Rows /\ saw' \in [Visits -> Rows]
    <3>1. CASE UNCHANGED <<row, saw>>
      BY <3>1
    <3>2. CASE saw' = [saw EXCEPT ![v].pending = ~@] /\ row' = [row EXCEPT !.pending = ~saw[v].pending]
      <4>1. row' \in Rows
        BY <3>2
      <4>2. [saw[v] EXCEPT !.pending = ~saw[v].pending] \in Rows
        OBVIOUS
      <4>3. saw' = [saw EXCEPT ![v] = [saw[v] EXCEPT !.pending = ~saw[v].pending]]
        BY <3>2
      <4> QED
        BY <4>1, <4>2, <4>3
    <3> QED
      BY <1>11, <3>1, <3>2 DEF Listed
  <2> QED
    BY <2>1, <2>2
<1>12. ASSUME NEW v \in Visits, Settle(v) PROVE TypeOK'
  BY <1>12 DEF Settle, Alone
<1>13. ASSUME NEW v \in Visits, Plan(v) PROVE TypeOK'
  BY <1>13 DEF Plan, folderBusy
<1>14. ASSUME NEW v \in Visits, WriteJournal(v) PROVE TypeOK'
  <2>1. visit' \in [Visits -> VisitAt] /\ settling' \in Visits \cup {Nobody} /\ UNCHANGED <<saw, others>>
    BY <1>14 DEF WriteJournal
  <2>2. row' \in Rows
    BY <1>14 DEF WriteJournal
  <2>3. share' \subseteq Visits /\ marked' \in BOOLEAN
    BY <1>14 DEF WriteJournal, MarkFolder
  <2> QED
    BY <2>1, <2>2, <2>3
<1>15. ASSUME NEW v \in Visits, Load(v) PROVE TypeOK'
  BY <1>15 DEF Load
<1>16. ASSUME NEW v \in Visits, Loaded(v) PROVE TypeOK'
  BY <1>16 DEF Loaded
<1>17. ASSUME NEW v \in Visits, Leave(v) PROVE TypeOK'
  BY <1>17 DEF Leave
<1>18. ASSUME NEW v \in Marking, GiveBack(v) PROVE TypeOK'
  BY <1>18 DEF GiveBack
<1>19. ASSUME NEW j \in Jobs, Ask(j) PROVE TypeOK'
  BY <1>19 DEF Ask
<1>20. ASSUME NEW j \in Jobs, Reserve(j) PROVE TypeOK'
  BY <1>20 DEF Reserve, jobBusy
<1>21. ASSUME NEW j \in Jobs, Queue(j) PROVE TypeOK'
  BY <1>21 DEF Queue, Unoccupied, Inside
<1>22. ASSUME NEW j \in Jobs, Start(j) PROVE TypeOK'
  BY <1>22 DEF Start
<1>23. ASSUME NEW j \in Jobs, Turn(j) PROVE TypeOK'
  BY <1>23 DEF Turn, Waits
<1>24. ASSUME NEW j \in Jobs, JobOver(j) PROVE TypeOK'
  BY <1>24 DEF JobOver
<1>25. ASSUME NEW o \in Owners, Claim(o) PROVE TypeOK'
  BY <1>25 DEF Claim, Busy, jobBusy, folderBusy, Unoccupied, Inside
<1>26. ASSUME NEW o \in Owners, Release(o) PROVE TypeOK'
  BY <1>26 DEF Release
<1>27. ASSUME NEW a \in Archives, Pick(a) PROVE TypeOK'
  BY <1>27 DEF Pick
<1>28. ASSUME NEW a \in Archives, BeginChapter(a) PROVE TypeOK'
  BY <1>28 DEF BeginChapter, jobBusy
<1>29. ASSUME NEW a \in Archives, EndChapter(a) PROVE TypeOK'
  BY <1>29 DEF EndChapter
<1>30. ASSUME NEW c \in Completions, Complete(c) PROVE TypeOK'
  BY <1>30 DEF Complete
<1>31. ASSUME NEW c \in Completions, Refetch(c) PROVE TypeOK'
  BY <1>31 DEF Refetch
<1>32. ASSUME NEW c \in Completions, Completed(c) PROVE TypeOK'
  BY <1>32 DEF Completed
<1>33. CASE Choose
  BY <1>33 DEF Choose
<1> QED
  BY <1>1, <1>2, <1>3, <1>4, <1>5, <1>6, <1>7, <1>8, <1>9, <1>10, <1>11, <1>12, <1>13, <1>14, <1>15, <1>16, <1>17, <1>18, <1>19, <1>20, <1>21, <1>22, <1>23, <1>24, <1>25, <1>26, <1>27, <1>28, <1>29, <1>30, <1>31, <1>32, <1>33 DEF Next, VisitStep, JobStep

\* The folder is marked exactly while somebody holds the mark, and whoever holds it holds it alone.
LEMMA MarkStep ==
    ASSUME IInv, Next
    PROVE  MarkKept' /\ Exclusive'
PROOF
<1> USE ActorsAssumption DEF TypeOK, Visits, Rows, Clear, VisitAt, Goes, Reads, others, visiting, IInv, MarkKept, Exclusive, Owned, Archiving, JobHolds
<1>1. ASSUME NEW v \in Visits, Enter(v) PROVE MarkKept' /\ Exclusive'
  BY <1>1 DEF Enter
<1>2. ASSUME NEW v \in Visits, MarkAndEnter(v) PROVE MarkKept' /\ Exclusive'
  BY <1>2 DEF MarkAndEnter, jobBusy
<1>3. ASSUME NEW v \in Visits, ReadRow(v) PROVE MarkKept' /\ Exclusive'
  BY <1>3 DEF ReadRow
<1>4. ASSUME NEW v \in Visits, Look(v) PROVE MarkKept' /\ Exclusive'
  BY <1>4 DEF Look, MayStay, folderBusy, jobBusy, RenumberRunning, Running
<1>5. ASSUME NEW v \in Visits, ReadPlan(v) PROVE MarkKept' /\ Exclusive'
  BY <1>5 DEF ReadPlan
<1>6. ASSUME NEW v \in Visits, Resume(v) PROVE MarkKept' /\ Exclusive'
  BY <1>6 DEF Resume, MarkFolder, TakesShare
<1>7. ASSUME NEW v \in Visits, HoldScans(v) PROVE MarkKept' /\ Exclusive'
  BY <1>7 DEF HoldScans, Woken, Unmark
<1>8. ASSUME NEW v \in Visits, Commit(v) PROVE MarkKept' /\ Exclusive'
  <2>1. Unmark(v) /\ UNCHANGED others /\ \A u \in Visits \ {v} : visit'[u] = visit[u]
    BY <1>8 DEF Commit
  <2>2. share' = share \ {v} /\ marked' = (marked /\ share # {v})
    BY <2>1 DEF Unmark
  <2>3. Owned' = Owned /\ Archiving' = Archiving /\ mine' = mine
    BY <2>1
  <2>4. MarkKept'
    <3>1. CASE share = {v}
      <4>1. share' = {} /\ ~marked' /\ ~Owned /\ mine = {} /\ ~Archiving
        BY <2>2, <3>1
      <4> QED
        BY <2>3, <4>1
    <3>2. CASE share # {v}
      <4>1. marked' = marked /\ (share' = {} <=> share = {})
        BY <2>2, <3>2
      <4> QED
        BY <2>3, <4>1
    <3> QED
      BY <3>1, <3>2
  <2>5. Exclusive'
    <3>1. share' \subseteq share /\ (share = {} => share' = {})
      BY <2>2
    <3>2. \A u \in share' : visit'[u] \in {"wait", "rename"}
      BY <2>1, <2>2
    <3> QED
      BY <2>1, <3>1, <3>2
  <2> QED
    BY <2>4, <2>5
<1>9. ASSUME NEW v \in Visits, Fail(v) PROVE MarkKept' /\ Exclusive'
  <2>1. Unmark(v) /\ UNCHANGED others /\ \A u \in Visits \ {v} : visit'[u] = visit[u]
    BY <1>9 DEF Fail
  <2>2. share' = share \ {v} /\ marked' = (marked /\ share # {v})
    BY <2>1 DEF Unmark
  <2>3. Owned' = Owned /\ Archiving' = Archiving /\ mine' = mine
    BY <2>1
  <2>4. MarkKept'
    <3>1. CASE share = {v}
      <4>1. share' = {} /\ ~marked' /\ ~Owned /\ mine = {} /\ ~Archiving
        BY <2>2, <3>1
      <4> QED
        BY <2>3, <4>1
    <3>2. CASE share # {v}
      <4>1. marked' = marked /\ (share' = {} <=> share = {})
        BY <2>2, <3>2
      <4> QED
        BY <2>3, <4>1
    <3> QED
      BY <3>1, <3>2
  <2>5. Exclusive'
    <3>1. share' \subseteq share /\ (share = {} => share' = {})
      BY <2>2
    <3>2. \A u \in share' : visit'[u] \in {"wait", "rename"}
      BY <2>1, <2>2
    <3> QED
      BY <2>1, <3>1, <3>2
  <2> QED
    BY <2>4, <2>5
<1>10. ASSUME NEW v \in Visits, ReadAgain(v) PROVE MarkKept' /\ Exclusive'
  BY <1>10 DEF ReadAgain
<1>11. ASSUME NEW v \in Visits, Listed(v) PROVE MarkKept' /\ Exclusive'
  BY <1>11 DEF Listed
<1>12. ASSUME NEW v \in Visits, Settle(v) PROVE MarkKept' /\ Exclusive'
  BY <1>12 DEF Settle, Alone
<1>13. ASSUME NEW v \in Visits, Plan(v) PROVE MarkKept' /\ Exclusive'
  BY <1>13 DEF Plan, folderBusy
<1>14. ASSUME NEW v \in Visits, WriteJournal(v) PROVE MarkKept' /\ Exclusive'
  BY <1>14 DEF WriteJournal, MarkFolder, TakesShare
<1>15. ASSUME NEW v \in Visits, Load(v) PROVE MarkKept' /\ Exclusive'
  BY <1>15 DEF Load
<1>16. ASSUME NEW v \in Visits, Loaded(v) PROVE MarkKept' /\ Exclusive'
  BY <1>16 DEF Loaded
<1>17. ASSUME NEW v \in Visits, Leave(v) PROVE MarkKept' /\ Exclusive'
  BY <1>17 DEF Leave
<1>18. ASSUME NEW v \in Marking, GiveBack(v) PROVE MarkKept' /\ Exclusive'
  BY <1>18 DEF GiveBack
<1>19. ASSUME NEW j \in Jobs, Ask(j) PROVE MarkKept' /\ Exclusive'
  BY <1>19 DEF Ask
<1>20. ASSUME NEW j \in Jobs, Reserve(j) PROVE MarkKept' /\ Exclusive'
  BY <1>20 DEF Reserve, jobBusy
<1>21. ASSUME NEW j \in Jobs, Queue(j) PROVE MarkKept' /\ Exclusive'
  BY <1>21 DEF Queue, Unoccupied, Inside
<1>22. ASSUME NEW j \in Jobs, Start(j) PROVE MarkKept' /\ Exclusive'
  BY <1>22 DEF Start
<1>23. ASSUME NEW j \in Jobs, Turn(j) PROVE MarkKept' /\ Exclusive'
  BY <1>23 DEF Turn, Waits
<1>24. ASSUME NEW j \in Jobs, JobOver(j) PROVE MarkKept' /\ Exclusive'
  BY <1>24 DEF JobOver
<1>25. ASSUME NEW o \in Owners, Claim(o) PROVE MarkKept' /\ Exclusive'
  BY <1>25 DEF Claim, Busy, jobBusy, folderBusy, Unoccupied, Inside
<1>26. ASSUME NEW o \in Owners, Release(o) PROVE MarkKept' /\ Exclusive'
  BY <1>26 DEF Release
<1>27. ASSUME NEW a \in Archives, Pick(a) PROVE MarkKept' /\ Exclusive'
  BY <1>27 DEF Pick
<1>28. ASSUME NEW a \in Archives, BeginChapter(a) PROVE MarkKept' /\ Exclusive'
  <2>1. CASE jobBusy
    BY <1>28, <2>1 DEF BeginChapter
  <2>2. CASE ~jobBusy
    <3>1. ~marked /\ marked' /\ archive' = [archive EXCEPT ![a] = "loading"] /\ UNCHANGED <<visiting, owner, mine>>
      BY <1>28, <2>2 DEF BeginChapter, jobBusy
    <3>2. ~Owned /\ mine = {} /\ share = {} /\ ~Archiving
      BY <3>1
    <3> QED
      BY <3>1, <3>2
  <2> QED
    BY <2>1, <2>2
<1>29. ASSUME NEW a \in Archives, EndChapter(a) PROVE MarkKept' /\ Exclusive'
  BY <1>29 DEF EndChapter
<1>30. ASSUME NEW c \in Completions, Complete(c) PROVE MarkKept' /\ Exclusive'
  BY <1>30 DEF Complete
<1>31. ASSUME NEW c \in Completions, Refetch(c) PROVE MarkKept' /\ Exclusive'
  BY <1>31 DEF Refetch
<1>32. ASSUME NEW c \in Completions, Completed(c) PROVE MarkKept' /\ Exclusive'
  BY <1>32 DEF Completed
<1>33. CASE Choose
  BY <1>33 DEF Choose
<1> QED
  BY <1>1, <1>2, <1>3, <1>4, <1>5, <1>6, <1>7, <1>8, <1>9, <1>10, <1>11, <1>12, <1>13, <1>14, <1>15, <1>16, <1>17, <1>18, <1>19, <1>20, <1>21, <1>22, <1>23, <1>24, <1>25, <1>26, <1>27, <1>28, <1>29, <1>30, <1>31, <1>32, <1>33 DEF Next, VisitStep, JobStep

\* Who needs the series to himself stays apart from the visits.
LEMMA ApartStep ==
    ASSUME IInv, Next
    PROVE  Apart'
PROOF
<1> USE ActorsAssumption DEF TypeOK, Visits, Rows, Clear, VisitAt, Goes, Reads, others, visiting, IInv, MarkKept, Exclusive, Apart, Early, Owned, JobHolds, Archiving, Settler
<1>1. ASSUME NEW v \in Visits, Enter(v) PROVE Apart'
  BY <1>1 DEF Enter
<1>2. ASSUME NEW v \in Visits, MarkAndEnter(v) PROVE Apart'
  BY <1>2 DEF MarkAndEnter, jobBusy
<1>3. ASSUME NEW v \in Visits, ReadRow(v) PROVE Apart'
  BY <1>3 DEF ReadRow
<1>4. ASSUME NEW v \in Visits, Look(v) PROVE Apart'
  BY <1>4 DEF Look, MayStay, folderBusy, jobBusy, RenumberRunning, Running
<1>5. ASSUME NEW v \in Visits, ReadPlan(v) PROVE Apart'
  BY <1>5 DEF ReadPlan
<1>6. ASSUME NEW v \in Visits, Resume(v) PROVE Apart'
  BY <1>6 DEF Resume, MarkFolder, TakesShare
<1>7. ASSUME NEW v \in Visits, HoldScans(v) PROVE Apart'
  BY <1>7 DEF HoldScans, Woken, Unmark
<1>8. ASSUME NEW v \in Visits, Commit(v) PROVE Apart'
  BY <1>8 DEF Commit, Unmark
<1>9. ASSUME NEW v \in Visits, Fail(v) PROVE Apart'
  BY <1>9 DEF Fail, Unmark
<1>10. ASSUME NEW v \in Visits, ReadAgain(v) PROVE Apart'
  BY <1>10 DEF ReadAgain
<1>11. ASSUME NEW v \in Visits, Listed(v) PROVE Apart'
  BY <1>11 DEF Listed
<1>12. ASSUME NEW v \in Visits, Settle(v) PROVE Apart'
  BY <1>12 DEF Settle, Alone
<1>13. ASSUME NEW v \in Visits, Plan(v) PROVE Apart'
  BY <1>13 DEF Plan, folderBusy
<1>14. ASSUME NEW v \in Visits, WriteJournal(v) PROVE Apart'
  BY <1>14 DEF WriteJournal, MarkFolder, TakesShare
<1>15. ASSUME NEW v \in Visits, Load(v) PROVE Apart'
  BY <1>15 DEF Load
<1>16. ASSUME NEW v \in Visits, Loaded(v) PROVE Apart'
  BY <1>16 DEF Loaded
<1>17. ASSUME NEW v \in Visits, Leave(v) PROVE Apart'
  BY <1>17 DEF Leave
<1>18. ASSUME NEW v \in Marking, GiveBack(v) PROVE Apart'
  BY <1>18 DEF GiveBack
<1>19. ASSUME NEW j \in Jobs, Ask(j) PROVE Apart'
  BY <1>19 DEF Ask
<1>20. ASSUME NEW j \in Jobs, Reserve(j) PROVE Apart'
  <2>1. CASE ~jobBusy /\ Unoccupied
    <3>1. \A u \in Visits : visit[u] = "out"
      BY <2>1 DEF Unoccupied, Inside
    <3>2. ~marked' /\ visit' = visit
      BY <1>20, <2>1 DEF Reserve, jobBusy
    <3> QED
      BY <3>1, <3>2
  <2>2. CASE ~(~jobBusy /\ Unoccupied)
    <3>1. job' = [job EXCEPT ![j] = "none"] /\ UNCHANGED <<visiting, owner, marked>>
      BY <1>20, <2>2 DEF Reserve
    <3> QED
      BY <3>1
  <2> QED
    BY <2>1, <2>2
<1>21. ASSUME NEW j \in Jobs, Queue(j) PROVE Apart'
  BY <1>21 DEF Queue, Unoccupied, Inside
<1>22. ASSUME NEW j \in Jobs, Start(j) PROVE Apart'
  BY <1>22 DEF Start
<1>23. ASSUME NEW j \in Jobs, Turn(j) PROVE Apart'
  BY <1>23 DEF Turn, Waits
<1>24. ASSUME NEW j \in Jobs, JobOver(j) PROVE Apart'
  BY <1>24 DEF JobOver
<1>25. ASSUME NEW o \in Owners, Claim(o) PROVE Apart'
  BY <1>25 DEF Claim, Busy, jobBusy, folderBusy, Unoccupied, Inside
<1>26. ASSUME NEW o \in Owners, Release(o) PROVE Apart'
  BY <1>26 DEF Release
<1>27. ASSUME NEW a \in Archives, Pick(a) PROVE Apart'
  BY <1>27 DEF Pick
<1>28. ASSUME NEW a \in Archives, BeginChapter(a) PROVE Apart'
  BY <1>28 DEF BeginChapter, jobBusy
<1>29. ASSUME NEW a \in Archives, EndChapter(a) PROVE Apart'
  BY <1>29 DEF EndChapter
<1>30. ASSUME NEW c \in Completions, Complete(c) PROVE Apart'
  BY <1>30 DEF Complete
<1>31. ASSUME NEW c \in Completions, Refetch(c) PROVE Apart'
  BY <1>31 DEF Refetch
<1>32. ASSUME NEW c \in Completions, Completed(c) PROVE Apart'
  BY <1>32 DEF Completed
<1>33. CASE Choose
  BY <1>33 DEF Choose
<1> QED
  BY <1>1, <1>2, <1>3, <1>4, <1>5, <1>6, <1>7, <1>8, <1>9, <1>10, <1>11, <1>12, <1>13, <1>14, <1>15, <1>16, <1>17, <1>18, <1>19, <1>20, <1>21, <1>22, <1>23, <1>24, <1>25, <1>26, <1>27, <1>28, <1>29, <1>30, <1>31, <1>32, <1>33 DEF Next, VisitStep, JobStep

\* A visit that settles stays past its look, and one run renames.
LEMMA RunStep ==
    ASSUME IInv, Next
    PROVE  Settler' /\ OneRun'
PROOF
<1> USE ActorsAssumption DEF TypeOK, Visits, Rows, Clear, VisitAt, Goes, Reads, others, visiting, IInv, Settler, OneRun
<1>1. ASSUME NEW v \in Visits, Enter(v) PROVE Settler' /\ OneRun'
  BY <1>1 DEF Enter
<1>2. ASSUME NEW v \in Visits, MarkAndEnter(v) PROVE Settler' /\ OneRun'
  BY <1>2 DEF MarkAndEnter, jobBusy
<1>3. ASSUME NEW v \in Visits, ReadRow(v) PROVE Settler' /\ OneRun'
  BY <1>3 DEF ReadRow
<1>4. ASSUME NEW v \in Visits, Look(v) PROVE Settler' /\ OneRun'
  BY <1>4 DEF Look, MayStay, folderBusy, jobBusy, RenumberRunning, Running
<1>5. ASSUME NEW v \in Visits, ReadPlan(v) PROVE Settler' /\ OneRun'
  BY <1>5 DEF ReadPlan
<1>6. ASSUME NEW v \in Visits, Resume(v) PROVE Settler' /\ OneRun'
  BY <1>6 DEF Resume, MarkFolder, TakesShare
<1>7. ASSUME NEW v \in Visits, HoldScans(v) PROVE Settler' /\ OneRun'
  BY <1>7 DEF HoldScans, Woken, Unmark
<1>8. ASSUME NEW v \in Visits, Commit(v) PROVE Settler' /\ OneRun'
  BY <1>8 DEF Commit, Unmark
<1>9. ASSUME NEW v \in Visits, Fail(v) PROVE Settler' /\ OneRun'
  BY <1>9 DEF Fail, Unmark
<1>10. ASSUME NEW v \in Visits, ReadAgain(v) PROVE Settler' /\ OneRun'
  BY <1>10 DEF ReadAgain
<1>11. ASSUME NEW v \in Visits, Listed(v) PROVE Settler' /\ OneRun'
  BY <1>11 DEF Listed
<1>12. ASSUME NEW v \in Visits, Settle(v) PROVE Settler' /\ OneRun'
  BY <1>12 DEF Settle, Alone
<1>13. ASSUME NEW v \in Visits, Plan(v) PROVE Settler' /\ OneRun'
  BY <1>13 DEF Plan, folderBusy
<1>14. ASSUME NEW v \in Visits, WriteJournal(v) PROVE Settler' /\ OneRun'
  BY <1>14 DEF WriteJournal, MarkFolder, TakesShare
<1>15. ASSUME NEW v \in Visits, Load(v) PROVE Settler' /\ OneRun'
  BY <1>15 DEF Load
<1>16. ASSUME NEW v \in Visits, Loaded(v) PROVE Settler' /\ OneRun'
  BY <1>16 DEF Loaded
<1>17. ASSUME NEW v \in Visits, Leave(v) PROVE Settler' /\ OneRun'
  BY <1>17 DEF Leave
<1>18. ASSUME NEW v \in Marking, GiveBack(v) PROVE Settler' /\ OneRun'
  BY <1>18 DEF GiveBack
<1>19. ASSUME NEW j \in Jobs, Ask(j) PROVE Settler' /\ OneRun'
  BY <1>19 DEF Ask
<1>20. ASSUME NEW j \in Jobs, Reserve(j) PROVE Settler' /\ OneRun'
  BY <1>20 DEF Reserve, jobBusy
<1>21. ASSUME NEW j \in Jobs, Queue(j) PROVE Settler' /\ OneRun'
  BY <1>21 DEF Queue, Unoccupied, Inside
<1>22. ASSUME NEW j \in Jobs, Start(j) PROVE Settler' /\ OneRun'
  BY <1>22 DEF Start
<1>23. ASSUME NEW j \in Jobs, Turn(j) PROVE Settler' /\ OneRun'
  BY <1>23 DEF Turn, Waits
<1>24. ASSUME NEW j \in Jobs, JobOver(j) PROVE Settler' /\ OneRun'
  BY <1>24 DEF JobOver
<1>25. ASSUME NEW o \in Owners, Claim(o) PROVE Settler' /\ OneRun'
  BY <1>25 DEF Claim, Busy, jobBusy, folderBusy, Unoccupied, Inside
<1>26. ASSUME NEW o \in Owners, Release(o) PROVE Settler' /\ OneRun'
  BY <1>26 DEF Release
<1>27. ASSUME NEW a \in Archives, Pick(a) PROVE Settler' /\ OneRun'
  BY <1>27 DEF Pick
<1>28. ASSUME NEW a \in Archives, BeginChapter(a) PROVE Settler' /\ OneRun'
  BY <1>28 DEF BeginChapter, jobBusy
<1>29. ASSUME NEW a \in Archives, EndChapter(a) PROVE Settler' /\ OneRun'
  BY <1>29 DEF EndChapter
<1>30. ASSUME NEW c \in Completions, Complete(c) PROVE Settler' /\ OneRun'
  BY <1>30 DEF Complete
<1>31. ASSUME NEW c \in Completions, Refetch(c) PROVE Settler' /\ OneRun'
  BY <1>31 DEF Refetch
<1>32. ASSUME NEW c \in Completions, Completed(c) PROVE Settler' /\ OneRun'
  BY <1>32 DEF Completed
<1>33. CASE Choose
  BY <1>33 DEF Choose
<1> QED
  BY <1>1, <1>2, <1>3, <1>4, <1>5, <1>6, <1>7, <1>8, <1>9, <1>10, <1>11, <1>12, <1>13, <1>14, <1>15, <1>16, <1>17, <1>18, <1>19, <1>20, <1>21, <1>22, <1>23, <1>24, <1>25, <1>26, <1>27, <1>28, <1>29, <1>30, <1>31, <1>32, <1>33 DEF Next, VisitStep, JobStep

\* The first state: nobody holds anything.
LEMMA FirstState == Init => IInv
PROOF
<1> SUFFICES ASSUME Init PROVE IInv
  OBVIOUS
<1> USE ActorsAssumption DEF Init
<1>1. TypeOK
  BY DEF TypeOK, Visits, VisitAt, Rows, Clear
<1>2. MarkKept /\ Exclusive
  BY DEF MarkKept, Exclusive, Owned, Archiving
<1>3. Apart
  BY DEF Apart, Owned, JobHolds, Early
<1>4. Settler /\ OneRun
  BY DEF Settler, OneRun
<1> QED
  BY <1>1, <1>2, <1>3, <1>4 DEF IInv

\* The invariant behind the three below is one of every behaviour.
THEOREM Invariance == Spec => []IInv
PROOF
<1>1. IInv /\ [Next]_vars => IInv'
  <2> SUFFICES ASSUME IInv, [Next]_vars PROVE IInv'
    OBVIOUS
  <2>1. CASE Next
    <3>1. TypeOK
      BY DEF IInv
    <3> QED
      BY <2>1, <3>1, TypeStep, MarkStep, ApartStep, RunStep DEF IInv
  <2>2. CASE UNCHANGED vars
    BY <2>2 DEF vars, IInv, TypeOK, MarkKept, Exclusive, Apart, Settler, OneRun, Owned,
               Archiving, JobHolds, Early
  <2> QED
    BY <2>1, <2>2
<1> QED
  BY FirstState, <1>1, PTL DEF Spec

\* A delete, a move, a merge or an Apply has the series to itself (claimWriterFolders,
\* holdSeries, updateSeries, reserveDownloadJob), however many visits and jobs there are.
THEOREM OwnersAreAlone == Spec => []OwnerAlone
PROOF
<1>1. IInv => OwnerAlone
  <2> SUFFICES ASSUME IInv, NEW o \in Owners, owner[o] = "owning"
               PROVE  /\ \A p \in Owners : owner[p] = "owning" => p = o
                      /\ \A v \in Visits : visit[v] \in {"out", "entered", "read"}
                      /\ mine = {}
                      /\ \A j \in Jobs : job[j] \notin {"reserved", "writing"}
                      /\ \A a \in Archives : archive[a] # "loading"
    BY DEF OwnerAlone
  <2>1. Owned /\ marked
    BY DEF IInv, MarkKept, Owned
  <2> QED
    BY <2>1 DEF IInv, Exclusive, Apart, Archiving, Early
<1> QED
  BY <1>1, Invariance, PTL

\* The one flag of busyFolders is up exactly while somebody holds the folder
\* (markFolder, and the `finally` of everybody who marks it).
THEOREM MarkIsKept == Spec => []MarkKept
PROOF
<1>1. IInv => MarkKept
  BY DEF IInv
<1> QED
  BY <1>1, Invariance, PTL

\* Nobody renames, owns or fetches by a job beside a run that renames (runJournal).
THEOREM RunsRenameAlone == Spec => []RenamesAlone
PROOF
<1>1. IInv => RenamesAlone
  BY DEF IInv, OneRun, Apart, Early, RenamesAlone
<1> QED
  BY <1>1, Invariance, PTL
=============================================================================
