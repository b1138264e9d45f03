------------------------- MODULE DownloadJobProofs -------------------------
(***************************************************************************)
(* Proofs about DownloadJob, for any chapters, sources, servers and lanes. *)
(*                                                                         *)
(* A chapter is pending until its one lane is begun (PendingOnce), and     *)
(* settled when that lane ends (Accounts).  The copies the loop has seen   *)
(* open stay free while it looks at the next one, for only the loop begins *)
(* lanes (OpenIsFree).  A lane that asks, or has holes in hand, has no     *)
(* file (AskedForNothingThere).  The loop leaves the wait for the folder   *)
(* with the folder, or halted (FolderFirst).                               *)
(***************************************************************************)
EXTENDS DownloadJob, SequenceTheorems, TLAPS

AtStart(c) == IF c \in there THEN "whole" ELSE "none"

PendingOnce ==
    /\ \A i, j \in 1 .. Len(pending) : pending[i] = pending[j] => i = j
    /\ \A i \in 1 .. Len(pending) : lane[pending[i]].pc = "none"
    /\ \A c \in Chapters : lane[c].pc = "none" => InPending(c)

OpenIsFree ==
    /\ \A s \in loop.open : ~LaneOn(s)
    /\ \A c \in Running : lane[c].on \in Sources

\* The loop looks at one of the chapter's copies.
CopyIsThere ==
    loop.pc = "look" /\ loop.i <= Len(pending) => loop.k <= Len(rota[pending[loop.i]])

AskedForNothingThere ==
    \A c \in Chapters :
        /\ lane[c].pc \in {"none", "start", "over"} => lane[c].hold = None
        /\ lane[c].pc \in {"door", "asking"} \/ lane[c].hold # None => file[c] = "none"
        /\ lane[c].pc \in {"door", "asking"} => lane[c].src \in Sources

Accounts ==
    \A c \in Chapters :
        /\ told[c] \in {<<>>, <<TRUE>>, <<FALSE>>}
        /\ c \in Running => told[c] = <<>>
        /\ lane[c].pc = "none" => told[c] # <<TRUE>>
        /\ lane[c].pc = "none" /\ loop.pc # "end" => told[c] = <<>>
        /\ lane[c].pc = "over" /\ ~thrown => told[c] # <<>>
        /\ told[c] # <<TRUE>> => file[c] = AtStart(c)
        /\ told[c] = <<TRUE>> => file[c] # AtStart(c)
        /\ loop.pc = "end" /\ ~thrown => told[c] # <<>>

FolderFirst ==
    /\ ~active => loop.pc = "end"
    /\ loop.pc = "end" /\ ~thrown => Running = {}
    /\ held => /\ Running = {}
               /\ loop.pc = "wait" \/ (Halted /\ loop.pc \in {"round", "tail", "end"})

IInv ==
    TypeOK /\ PendingOnce /\ OpenIsFree /\ CopyIsThere /\ BegunApart /\ AskedForNothingThere
    /\ Accounts /\ FolderFirst

(* What is left of a list without one of its places.                       *)
LEMMA Removed ==
    ASSUME NEW S, NEW q \in Seq(S), NEW i \in 1 .. Len(q)
    PROVE  /\ RemoveAt(q, i) \in Seq(S)
           /\ Len(RemoveAt(q, i)) = Len(q) - 1
           /\ \A j \in 1 .. Len(q) - 1 : RemoveAt(q, i)[j] = IF j < i THEN q[j] ELSE q[j + 1]
PROOF
<1>1. SubSeq(q, 1, i - 1) \in Seq(S) /\ Len(SubSeq(q, 1, i - 1)) = i - 1
  OBVIOUS
<1>2. SubSeq(q, i + 1, Len(q)) \in Seq(S) /\ Len(SubSeq(q, i + 1, Len(q))) = Len(q) - i
  OBVIOUS
<1>3. /\ \A j \in 1 .. i - 1 : SubSeq(q, 1, i - 1)[j] = q[j]
      /\ \A j \in 1 .. Len(q) - i : SubSeq(q, i + 1, Len(q))[j] = q[i + j]
  OBVIOUS
<1> DEFINE front == SubSeq(q, 1, i - 1)
           back == SubSeq(q, i + 1, Len(q))
<1>4. front \in Seq(S) /\ back \in Seq(S) /\ Len(front) = i - 1 /\ Len(back) = Len(q) - i
  BY <1>1, <1>2
<1>5. /\ \A j \in 1 .. i - 1 : front[j] = q[j]
      /\ \A j \in 1 .. Len(q) - i : back[j] = q[i + j]
  BY <1>3
<1>6. RemoveAt(q, i) = front \o back
  BY DEF RemoveAt
<1> HIDE DEF front, back
<1>7. /\ front \o back \in Seq(S) /\ Len(front \o back) = Len(q) - 1
      /\ \A j \in 1 .. Len(q) - 1 :
            (front \o back)[j] = IF j <= i - 1 THEN front[j] ELSE back[j - (i - 1)]
  BY <1>4, ConcatProperties
<1>8. ASSUME NEW j \in 1 .. Len(q) - 1
      PROVE  (front \o back)[j] = IF j < i THEN q[j] ELSE q[j + 1]
  <2>1. CASE j < i
    BY <1>5, <1>7, <2>1
  <2>2. CASE ~(j < i)
    <3>1. j - (i - 1) \in 1 .. Len(q) - i /\ i + (j - (i - 1)) = j + 1
      BY <2>2
    <3> QED
      BY <1>5, <1>7, <2>2, <3>1
  <2> QED
    BY <2>1, <2>2
<1> QED
  BY <1>6, <1>7, <1>8

(* The chapters a lane may be begun for, with their own copies.            *)
LEMMA OwnType ==
    ASSUME TypeOK, NEW c \in Chapters
    PROVE  /\ Len(rota[c]) \in Nat /\ Len(rota[c]) >= 1
           /\ \A k \in 1 .. Len(rota[c]) : rota[c][k] \in Sources
           /\ Own(c) \in Sources
PROOF
<1>1. rota[c] \in Seq(Sources) /\ Len(rota[c]) >= 1
  BY JobAssumption DEF TypeOK
<1> QED
  BY <1>1 DEF Own

LEMMA RestType ==
    ASSUME NEW pc \in LoopPc, NEW on \in SUBSET Chapters
    PROVE  /\ Rest(pc, on) \in LoopState
           /\ Rest(pc, on).pc = pc /\ Rest(pc, on).open = {} /\ Rest(pc, on).k = 1
  BY DEF Rest, LoopState
(* The loop turns to the first copy of a chapter, having seen none.        *)
LEMMA TurnsTo ==
    ASSUME NEW l \in LoopState, NEW n \in Nat \ {0}
    PROVE  LET a == [l EXCEPT !.i = n, !.k = 1, !.open = {}]
           IN  a \in LoopState /\ a.open = {} /\ a.k = 1 /\ a.i = n /\ a.pc = l.pc
PROOF
<1>1. ASSUME NEW g \in LoopState, NEW m \in Nat \ {0}
      PROVE  [g EXCEPT !.i = m] \in LoopState /\ [g EXCEPT !.i = m].pc = g.pc
             /\ [g EXCEPT !.i = m].i = m
  BY DEF LoopState
<1>2. ASSUME NEW g \in LoopState
      PROVE  [g EXCEPT !.k = 1] \in LoopState /\ [g EXCEPT !.k = 1].pc = g.pc
             /\ [g EXCEPT !.k = 1].i = g.i /\ [g EXCEPT !.k = 1].k = 1
  BY DEF LoopState
<1>3. ASSUME NEW g \in LoopState
      PROVE  [g EXCEPT !.open = {}] \in LoopState /\ [g EXCEPT !.open = {}].pc = g.pc
             /\ [g EXCEPT !.open = {}].i = g.i /\ [g EXCEPT !.open = {}].k = g.k
             /\ [g EXCEPT !.open = {}].open = {}
  BY DEF LoopState
<1> DEFINE a1 == [l EXCEPT !.i = n]
           a2 == [a1 EXCEPT !.k = 1]
           a3 == [a2 EXCEPT !.open = {}]
<1>4. a1 \in LoopState /\ a1.pc = l.pc /\ a1.i = n
  BY <1>1
<1> HIDE DEF a1
<1>5. a2 \in LoopState /\ a2.pc = l.pc /\ a2.i = n /\ a2.k = 1
  BY <1>2, <1>4
<1> HIDE DEF a2
<1>6. a3 \in LoopState /\ a3.pc = l.pc /\ a3.i = n /\ a3.k = 1 /\ a3.open = {}
  BY <1>3, <1>5
<1>7. a3 = [l EXCEPT !.i = n, !.k = 1, !.open = {}]
  BY DEF a1, a2
<1> HIDE DEF a3
<1> QED
  BY <1>6, <1>7

(* A lane that is begun, and the loop with it.                             *)
LEMMA BeginType ==
    ASSUME TypeOK, loop.i \in 1 .. Len(pending), NEW s \in Sources, NEW l \in LoopState,
           Begin(pending[loop.i], s, l)
    PROVE  /\ pending' = RemoveAt(pending, loop.i) /\ pending' \in Seq(Chapters)
           /\ lane' = [lane EXCEPT ![pending[loop.i]] = [@ EXCEPT !.pc = "start", !.on = s]]
           /\ lane' \in [Chapters -> LaneState]
           /\ loop' \in LoopState /\ loop'.open = {} /\ loop'.k = 1 /\ loop'.pc \in {l.pc, "race"}
PROOF
<1> DEFINE c == pending[loop.i]
<1>1. c \in Chapters
  BY DEF TypeOK
<1>2. pending' = RemoveAt(pending, loop.i) /\ pending' \in Seq(Chapters)
  BY Removed DEF Begin, TypeOK
<1>3. /\ lane' = [lane EXCEPT ![c] = [@ EXCEPT !.pc = "start", !.on = s]]
      /\ lane' \in [Chapters -> LaneState]
  <2>1. lane' = [lane EXCEPT ![c] = [@ EXCEPT !.pc = "start", !.on = s]]
    BY DEF Begin
  <2>2. ASSUME NEW g \in LaneState PROVE [g EXCEPT !.pc = "start", !.on = s] \in LaneState
    BY DEF LaneState, LanePc
  <2> HIDE DEF c
  <2> QED
    BY <1>1, <2>1, <2>2 DEF TypeOK
<1>4. loop' \in LoopState /\ loop'.open = {} /\ loop'.k = 1 /\ loop'.pc \in {l.pc, "race"}
  <2> DEFINE a == [l EXCEPT !.i = 1, !.k = 1, !.open = {}]
             b == Rest("race", Running \cup {c})
  <2>1. loop' \in {a, b}
    BY DEF Begin
  <2>2. a \in LoopState /\ a.open = {} /\ a.k = 1 /\ a.pc = l.pc
    <3>1. 1 \in Nat \ {0}
      OBVIOUS
    <3> QED
      BY <3>1, TurnsTo
  <2>3. b \in LoopState /\ b.open = {} /\ b.k = 1 /\ b.pc = "race"
    BY <1>1, RestType DEF LoopPc, Running
  <2> HIDE DEF a, b
  <2> QED
    BY <2>1, <2>2, <2>3
<1> QED
  BY <1>2, <1>3, <1>4

(* What a look at a chapter's copies does: it begins the chapter on a copy *)
(* whose server is free, or goes on with what it has seen.                 *)
Begun(c, s) ==
    /\ c = pending[loop.i] /\ ~LaneOn(s)
    /\ pending' = RemoveAt(pending, loop.i)
    /\ lane' = [lane EXCEPT ![c] = [@ EXCEPT !.pc = "start", !.on = s]]
    /\ loop'.open = {} /\ loop'.k = 1 /\ loop'.pc \in {"look", "race"}
GoesOn ==
    /\ pending' = pending /\ lane' = lane
    /\ \A s \in loop'.open : ~LaneOn(s)
    /\ loop'.k = 1 \/ (loop'.i = loop.i /\ loop'.k <= Len(rota[pending[loop.i]]))
    /\ loop'.pc \in {"look", "race", "tail"}
    /\ loop'.pc = "tail" => Running = {}
LookDone ==
    /\ loop.pc = "look" /\ loop' \in LoopState
    /\ pending' \in Seq(Chapters) /\ lane' \in [Chapters -> LaneState]
    /\ UNCHANGED <<rota, there, told, file, refusing, world, ends, stop>>
    /\ \/ GoesOn
       \/ /\ loop.i \in 1 .. Len(pending)
          /\ \E c \in Chapters, s \in Sources : Begun(c, s)

LEMMA LookAtOneStep ==
    ASSUME TypeOK, LookAtOne
    PROVE  LookDone
PROOF
<1> DEFINE c == pending[loop.i]
<1>1. loop.pc = "look" /\ loop.i \in 1 .. Len(pending) /\ c \in Chapters /\ loop \in LoopState
  BY DEF LookAtOne, TypeOK, LoopState
<1>2. Own(c) \in Sources
  BY <1>1, OwnType
<1>3. CASE loop' = Looked /\ UNCHANGED <<pending, lane>>
  <2>1. loop' \in LoopState /\ loop'.open = {} /\ loop'.k = 1 /\ loop'.pc \in {"tail", "race"}
    BY <1>3, RestType DEF Looked, Running, LoopPc
  <2>2. loop'.pc = "tail" => Running = {}
    BY <1>3, RestType DEF Looked, LoopPc, Running
  <2> QED
    BY <1>1, <1>3, <2>1, <2>2 DEF GoesOn, TypeOK, LookAtOne, LookDone
<1>4. CASE Passes(loop)
  <2>1. loop' = [loop EXCEPT !.i = @ + 1, !.k = 1, !.open = {}] /\ pending' = pending /\ lane' = lane
    BY <1>4 DEF Passes
  <2>2. loop.i + 1 \in Nat \ {0}
    BY <1>1
  <2>3. loop' \in LoopState /\ loop'.open = {} /\ loop'.k = 1 /\ loop'.pc = "look"
    BY <1>1, <2>1, <2>2, TurnsTo
  <2> QED
    BY <1>1, <2>1, <2>3 DEF GoesOn, TypeOK, LookAtOne, LookDone
<1>5. CASE Begin(c, Own(c), loop) /\ ~LaneOn(Own(c))
  <2>1. /\ pending' = RemoveAt(pending, loop.i) /\ pending' \in Seq(Chapters)
        /\ lane' = [lane EXCEPT ![c] = [@ EXCEPT !.pc = "start", !.on = Own(c)]]
        /\ lane' \in [Chapters -> LaneState]
        /\ loop' \in LoopState /\ loop'.open = {} /\ loop'.k = 1 /\ loop'.pc \in {"look", "race"}
    BY <1>1, <1>2, <1>5, BeginType
  <2>2. Begun(c, Own(c))
    BY <1>5, <2>1 DEF Begun
  <2> QED
    BY <1>1, <1>2, <2>1, <2>2 DEF LookAtOne, LookDone
<1> QED
  BY <1>3, <1>4, <1>5 DEF LookAtOne

LEMMA LookAtCopyStep ==
    ASSUME TypeOK, OpenIsFree, CopyIsThere, LookAtCopy
    PROVE  LookDone
PROOF
<1> DEFINE c == pending[loop.i]
           s == rota[c][loop.k]
           may == IF s \in loop.read THEN loop.may ELSE loop.may \cup (MayNow \cap {s})
           free == loop.open \cup (IF s \in may /\ ~LaneOn(s) THEN {s} ELSE {})
           l == [loop EXCEPT !.read = @ \cup {s}, !.may = may, !.open = free]
<1>1. loop.pc = "look" /\ loop.i \in 1 .. Len(pending) /\ c \in Chapters /\ loop \in LoopState
  BY DEF LookAtCopy, TypeOK, LoopState
<1>2. Own(c) \in Sources /\ loop.k \in 1 .. Len(rota[c]) /\ s \in Sources
  BY <1>1, OwnType DEF CopyIsThere, LoopState
<1>3. may \subseteq Sources /\ free \subseteq Sources /\ \A x \in free : ~LaneOn(x)
  BY <1>1, <1>2 DEF LoopState, MayNow, OpenIsFree
<1>4. l \in LoopState /\ l.pc = "look" /\ l.i = loop.i /\ l.k = loop.k /\ l.open = free
  <2>1. loop.read \cup {s} \subseteq Sources
    BY <1>1, <1>2 DEF LoopState
  <2> HIDE DEF c, s, may, free
  <2> QED
    BY <1>1, <1>3, <2>1 DEF LoopState
<1>5. \/ loop.k < Len(rota[c]) /\ loop' = [l EXCEPT !.k = @ + 1] /\ pending' = pending /\ lane' = lane
      \/ \E best \in free : Begin(c, best, l)
      \/ Passes(l)
      \/ ~LaneOn(Own(c)) /\ Begin(c, Own(c), l)
  BY DEF LookAtCopy
<1>6. UNCHANGED <<rota, there, told, file, refusing, world, ends, stop>>
  BY DEF LookAtCopy
<1> HIDE DEF s, may, free, l
<1>7. CASE loop.k < Len(rota[c]) /\ loop' = [l EXCEPT !.k = @ + 1] /\ pending' = pending /\ lane' = lane
  <2>1. /\ loop' \in LoopState /\ loop'.pc = "look" /\ loop'.i = loop.i
        /\ loop'.k = loop.k + 1 /\ loop'.open = free
    BY <1>2, <1>4, <1>7 DEF LoopState
  <2>2. loop'.k <= Len(rota[c])
    BY <1>1, <1>2, <1>7, <2>1, OwnType
  <2> QED
    BY <1>1, <1>3, <1>6, <1>7, <2>1, <2>2 DEF GoesOn, LookDone, TypeOK
<1>8. CASE Passes(l)
  <2>1. loop' = [l EXCEPT !.i = @ + 1, !.k = 1, !.open = {}] /\ pending' = pending /\ lane' = lane
    BY <1>8 DEF Passes
  <2>2. l.i + 1 \in Nat \ {0}
    BY <1>1, <1>4
  <2>3. loop' \in LoopState /\ loop'.open = {} /\ loop'.k = 1 /\ loop'.pc = "look"
    BY <1>4, <2>1, <2>2, TurnsTo
  <2> QED
    BY <1>1, <1>6, <2>1, <2>3 DEF GoesOn, LookDone, TypeOK
<1>9. ASSUME NEW x \in Sources, ~LaneOn(x), Begin(c, x, l) PROVE LookDone
  <2>1. /\ pending' = RemoveAt(pending, loop.i) /\ pending' \in Seq(Chapters)
        /\ lane' = [lane EXCEPT ![c] = [@ EXCEPT !.pc = "start", !.on = x]]
        /\ lane' \in [Chapters -> LaneState]
        /\ loop' \in LoopState /\ loop'.open = {} /\ loop'.k = 1 /\ loop'.pc \in {"look", "race"}
    BY <1>1, <1>4, <1>9, BeginType
  <2>2. Begun(c, x)
    BY <1>9, <2>1 DEF Begun
  <2> QED
    BY <1>1, <1>6, <2>1, <2>2 DEF LookDone
<1> QED
  BY <1>2, <1>3, <1>5, <1>7, <1>8, <1>9
(* A lane's step: it goes on, it settles its chapter, or it throws.        *)
Moves(c, g) ==
    /\ c \in Running /\ g \in LaneState /\ lane' = [lane EXCEPT ![c] = g]
    /\ rota' = rota /\ there' = there /\ pending' = pending /\ held' = held /\ cancel' = cancel
    /\ stop => stop'
StaysBegun(c, g) ==
    /\ g.pc \in {"door", "asking", "next", "hold"} /\ g.on = lane[c].on
    /\ g.pc \in {"door", "asking"} \/ g.hold # None => file[c] = "none"
    /\ g.pc \in {"door", "asking"} => g.src \in Sources
    /\ told' = told /\ file' = file /\ loop' = loop /\ active' = active /\ thrown' = thrown
IsSettled(c, g) ==
    /\ g.pc = "over" /\ g.hold = None
    /\ loop' = loop /\ active' = active /\ thrown' = thrown
    /\ \/ told' = [told EXCEPT ![c] = Append(@, FALSE)] /\ file' = file
       \/ /\ told' = [told EXCEPT ![c] = Append(@, TRUE)]
          /\ file[c] = "none" /\ \E x \in {"whole", "holes"} : file' = [file EXCEPT ![c] = x]
HasThrown(c, g) ==
    /\ g.pc = "over" /\ g.hold = None
    /\ told' = told /\ file' = file /\ thrown' = TRUE
    /\ \/ loop' = loop /\ active' = active
       \/ loop' = Rest("end", {}) /\ active' = FALSE
LaneDone(c) == \E g \in LaneState : Moves(c, g) /\ (StaysBegun(c, g) \/ IsSettled(c, g) \/ HasThrown(c, g))

LEMMA OverType ==
    [NoLane EXCEPT !.pc = "over"] \in LaneState
    /\ [NoLane EXCEPT !.pc = "over"].pc = "over" /\ [NoLane EXCEPT !.pc = "over"].hold = None
  BY DEF NoLane, LaneState, LanePc

(* Where a lane's chapter is settled.                                      *)
LEMMA EndsStep ==
    ASSUME TypeOK, NEW c \in Running, NEW landed \in BOOLEAN, Ends(c, landed),
           UNCHANGED <<rota, there, pending, loop, held, active, cancel, thrown>>, stop => stop',
           \/ ~landed /\ file' = file
           \/ /\ landed /\ file[c] = "none"
              /\ \E x \in {"whole", "holes"} : file' = [file EXCEPT ![c] = x]
    PROVE  LaneDone(c)
PROOF
<1> DEFINE g == [NoLane EXCEPT !.pc = "over"]
<1>1. g \in LaneState /\ g.pc = "over" /\ g.hold = None
  BY OverType
<1>2. lane' = [lane EXCEPT ![c] = g] /\ told' = [told EXCEPT ![c] = Append(@, landed)]
  BY DEF Ends
<1> HIDE DEF g
<1>3. Moves(c, g) /\ IsSettled(c, g)
  BY <1>1, <1>2 DEF Moves, IsSettled
<1> QED
  BY <1>1, <1>3 DEF LaneDone

LEMMA QueueStep ==
    ASSUME TypeOK, AskedForNothingThere, NEW c \in Running, NEW s \in Sources, NEW i \in Nat,
           NEW via \in Sources \cup {None}, Attempt(c, s, i, via),
           UNCHANGED <<rota, there, pending, file, loop, held, active, cancel, thrown>>
    PROVE  LaneDone(c)
PROOF
<1>1. CASE file[c] # "none"
  BY <1>1, EndsStep DEF Attempt, Settles
<1>2. CASE file[c] = "none"
  <2> DEFINE g == [lane[c] EXCEPT !.pc = "door", !.src = s, !.i = i, !.via = via]
  <2>1. Queue(c, s, i, via)
    BY <1>2 DEF Attempt
  <2>2. lane' = [lane EXCEPT ![c] = g]
    BY <2>1 DEF Queue
  <2>3. lane[c] \in LaneState
    BY DEF TypeOK, Running
  <2>4. g \in LaneState /\ g.pc = "door" /\ g.on = lane[c].on /\ g.src = s
    BY <2>3 DEF LaneState, LanePc
  <2> HIDE DEF g
  <2>5. Moves(c, g) /\ StaysBegun(c, g)
    BY <1>2, <2>1, <2>2, <2>4 DEF Moves, StaysBegun, Queue
  <2> QED
    BY <2>4, <2>5 DEF LaneDone
<1> QED
  BY <1>1, <1>2
(* Any other step of a lane that is not over.                              *)
LEMMA StaysStep ==
    ASSUME TypeOK, NEW c \in Running, NEW g \in LaneState, lane' = [lane EXCEPT ![c] = g],
           g.pc \in {"asking", "next", "hold"}, g.on = lane[c].on,
           g.pc = "asking" \/ g.hold # None => file[c] = "none", g.pc = "asking" => g.src \in Sources,
           UNCHANGED <<rota, there, pending, told, file, loop, held, active, cancel, stop, thrown>>
    PROVE  LaneDone(c)
  BY DEF Moves, StaysBegun, LaneDone

LEMMA LaneStep ==
    ASSUME TypeOK, AskedForNothingThere, NEW c \in Chapters, Lane(c)
    PROVE  LaneDone(c)
PROOF
<1> USE DEF ends
<1>1. lane[c] \in LaneState
  BY DEF TypeOK
<1>2. \A pc \in {"start", "door", "asking", "next", "hold"} : At(c, pc) => c \in Running
  BY DEF At, Running
<1>3. ASSUME Choose(c) PROVE LaneDone(c)
  <2>1. At(c, "start") /\ c \in Running
    BY <1>2, <1>3 DEF Choose
  <2>2. Start(c) \subseteq Sources \cup {None}
    <3>1. Listing[c] \in Seq(Sources)
      BY JobAssumption
    <3>2. lane[c].on \in Sources \cup {None}
      BY <1>1 DEF LaneState
    <3> QED
      BY <3>1, <3>2 DEF Start, Open
  <2>3. PICK via \in Start(c) :
          \/ Settles(c, FALSE) \/ (Ends(c, FALSE) /\ UNCHANGED stop)
          \/ /\ lane' = [lane EXCEPT ![c] = [@ EXCEPT !.pc = "next", !.via = via]]
             /\ UNCHANGED <<told, stop>>
          \/ via # None /\ Attempt(c, via, 0, via)
    BY <1>3 DEF Choose
  <2>4. CASE Settles(c, FALSE) \/ (Ends(c, FALSE) /\ UNCHANGED stop)
    <3>1. UNCHANGED <<rota, there, pending, file, loop, held, active, cancel, thrown>>
      BY <1>3 DEF Choose
    <3>2. Ends(c, FALSE)
      BY <2>4 DEF Settles
    <3>3. stop => stop'
      BY <2>4 DEF Settles
    <3> QED
      BY <2>1, <3>1, <3>2, <3>3, EndsStep
  <2>5. CASE /\ lane' = [lane EXCEPT ![c] = [@ EXCEPT !.pc = "next", !.via = via]]
             /\ UNCHANGED <<told, stop>>
    <3> DEFINE g == [lane[c] EXCEPT !.pc = "next", !.via = via]
    <3>1. g \in LaneState /\ g.pc = "next" /\ g.on = lane[c].on /\ g.hold = lane[c].hold
      BY <1>1, <2>2 DEF LaneState, LanePc
    <3>2. lane' = [lane EXCEPT ![c] = g]
      BY <2>5
    <3> HIDE DEF g
    <3>3. g.hold = None
      BY <2>1, <3>1 DEF At, AskedForNothingThere
    <3> QED
      BY <1>3, <2>1, <2>5, <3>1, <3>2, <3>3, StaysStep DEF Choose
  <2>6. CASE via # None /\ Attempt(c, via, 0, via)
    <3>1. via \in Sources
      BY <2>2, <2>6
    <3> QED
      BY <1>3, <2>1, <2>6, <3>1, QueueStep DEF Choose
  <2> QED
    BY <2>3, <2>4, <2>5, <2>6
<1>4. ASSUME Door(c) PROVE LaneDone(c)
  <2>1. At(c, "door") /\ c \in Running /\ file[c] = "none"
    BY <1>2, <1>4 DEF Door, At, AskedForNothingThere
  <2>2. CASE Settles(c, FALSE)
    BY <1>4, <2>1, <2>2, EndsStep DEF Door, Settles
  <2>3. CASE Goes(c, "next") /\ UNCHANGED <<told, stop>>
    <3> DEFINE g == [lane[c] EXCEPT !.pc = "next"]
    <3>1. g \in LaneState /\ g.pc = "next" /\ g.on = lane[c].on
      BY <1>1 DEF LaneState, LanePc
    <3>2. lane' = [lane EXCEPT ![c] = g]
      BY <2>3 DEF Goes
    <3> HIDE DEF g
    <3> QED
      BY <1>4, <2>1, <2>3, <3>1, <3>2, StaysStep DEF Door
  <2>4. CASE /\ lane' = [lane EXCEPT ![c] = [@ EXCEPT !.pc = "asking",
                              !.tried = lane[c].tried + IF lane[c].src = lane[c].via THEN 0 ELSE 1]]
             /\ UNCHANGED <<told, stop>>
    <3> DEFINE n == lane[c].tried + IF lane[c].src = lane[c].via THEN 0 ELSE 1
               g == [lane[c] EXCEPT !.pc = "asking", !.tried = n]
    <3>1. n \in Nat
      BY <1>1 DEF LaneState
    <3>2. lane' = [lane EXCEPT ![c] = g]
      BY <2>4
    <3> HIDE DEF n
    <3>3. g \in LaneState /\ g.pc = "asking" /\ g.on = lane[c].on /\ g.src = lane[c].src
      BY <1>1, <3>1 DEF LaneState, LanePc
    <3>4. lane[c].src \in Sources
      BY <1>4 DEF Door, At, AskedForNothingThere
    <3> HIDE DEF g
    <3> QED
      BY <1>4, <2>1, <2>4, <3>2, <3>3, <3>4, StaysStep DEF Door
  <2> QED
    BY <1>4, <2>2, <2>3, <2>4 DEF Door
<1>5. ASSUME Land(c) PROVE LaneDone(c)
  <2>1. c \in Running /\ file[c] = "none"
    BY <1>2, <1>5 DEF Land, At, AskedForNothingThere
  <2> QED
    BY <1>5, <2>1, EndsStep DEF Land, Settles
<1>6. ASSUME Fail(c) PROVE LaneDone(c)
  <2>1. c \in Running /\ file[c] = "none"
    BY <1>2, <1>6 DEF Fail, At, AskedForNothingThere
  <2>2. PICK best \in {lane[c].hold, lane[c].src} :
               lane' = [lane EXCEPT ![c] = [@ EXCEPT !.pc = "next", !.hold = best]]
    BY <1>6 DEF Fail
  <2> DEFINE g == [lane[c] EXCEPT !.pc = "next", !.hold = best]
  <2>3. g \in LaneState /\ g.pc = "next" /\ g.on = lane[c].on
    BY <1>1 DEF LaneState, LanePc
  <2>4. lane' = [lane EXCEPT ![c] = g]
    BY <2>2
  <2> HIDE DEF g
  <2> QED
    BY <1>6, <2>1, <2>3, <2>4, StaysStep DEF Fail
<1>7. ASSUME DiskFull(c) PROVE LaneDone(c)
  BY <1>2, <1>7, EndsStep DEF DiskFull
<1>8. ASSUME Alternate(c) PROVE LaneDone(c)
  <2>1. At(c, "next") /\ c \in Running
    BY <1>2, <1>8 DEF Alternate
  <2>2. ASSUME NEW j \in Askable(c), Attempt(c, Listing[c][j], j, lane[c].via) PROVE LaneDone(c)
    <3>1. Listing[c] \in Seq(Sources)
      BY JobAssumption
    <3>2. j \in Nat /\ Listing[c][j] \in Sources /\ lane[c].via \in Sources \cup {None}
      BY <1>1, <3>1 DEF Askable, LaneState
    <3> QED
      BY <1>8, <2>1, <2>2, <3>2, QueueStep DEF Alternate
  <2>3. CASE Goes(c, "hold") /\ UNCHANGED <<told, stop>>
    <3> DEFINE g == [lane[c] EXCEPT !.pc = "hold"]
    <3>1. g \in LaneState /\ g.pc = "hold" /\ g.on = lane[c].on /\ g.hold = lane[c].hold
      BY <1>1 DEF LaneState, LanePc
    <3>2. lane' = [lane EXCEPT ![c] = g]
      BY <2>3 DEF Goes
    <3>3. lane[c].hold # None => file[c] = "none"
      BY DEF AskedForNothingThere
    <3> HIDE DEF g
    <3> QED
      BY <1>8, <2>1, <2>3, <3>1, <3>2, <3>3, StaysStep DEF Alternate
  <2> QED
    BY <1>8, <2>2, <2>3 DEF Alternate
<1>9. ASSUME Hold(c) PROVE LaneDone(c)
  <2>1. c \in Running /\ (lane[c].hold # None => file[c] = "none")
    BY <1>2, <1>9 DEF Hold, AskedForNothingThere
  <2> QED
    BY <1>9, <2>1, EndsStep DEF Hold, Settles
<1>10. ASSUME Throw(c) PROVE LaneDone(c)
  <2>1. c \in Running
    BY <1>2, <1>10 DEF Throw
  <2> DEFINE g == [NoLane EXCEPT !.pc = "over"]
  <2>2. g \in LaneState /\ g.pc = "over" /\ g.hold = None
    BY OverType
  <2>3. lane' = [lane EXCEPT ![c] = g]
    BY <1>10 DEF Throw
  <2> HIDE DEF g
  <2>4. Moves(c, g) /\ HasThrown(c, g)
    BY <1>10, <2>1, <2>2, <2>3 DEF Throw, Moves, HasThrown
  <2> QED
    BY <2>2, <2>4 DEF LaneDone
<1> QED
  BY <1>3, <1>4, <1>5, <1>6, <1>7, <1>8, <1>9, <1>10 DEF Lane
LEMMA TypeStep ==
    ASSUME TypeOK, OpenIsFree, CopyIsThere, AskedForNothingThere, Next
    PROVE  TypeOK'
PROOF
<1> USE DEF world, ends
<1>0. \A q \in Seq(BOOLEAN) : \A x \in BOOLEAN : Append(q, x) \in Seq(BOOLEAN)
  OBVIOUS
<1>1. ASSUME Folder \/ NewRound \/ LookEnds \/ LaneEnded \/ JobEnds PROVE TypeOK'
  <2>1. Running \subseteq Chapters
    BY DEF Running
  <2>2. /\ \A pc \in {"round", "look", "tail", "end"} : Rest(pc, {}) \in LoopState
        /\ Rest("race", Running) \in LoopState
    BY <2>1, RestType DEF LoopPc
  <2>3. CASE Folder
    BY <2>2, <2>3 DEF TypeOK, Folder
  <2>4. CASE NewRound
    BY <2>2, <2>4 DEF TypeOK, NewRound
  <2>5. CASE LookEnds
    BY <2>2, <2>5 DEF TypeOK, LookEnds, Looked
  <2>6. CASE LaneEnded
    BY <2>2, <2>6 DEF TypeOK, LaneEnded
  <2>7. CASE JobEnds
    <3>1. told' \in [Chapters -> Seq(BOOLEAN)]
      BY <1>0, <2>7 DEF TypeOK, JobEnds
    <3>2. loop' \in LoopState
      BY <2>2, <2>7 DEF JobEnds
    <3> QED
      BY <2>7, <3>1, <3>2 DEF TypeOK, JobEnds
  <2> QED
    BY <1>1, <2>3, <2>4, <2>5, <2>6, <2>7
<1>2. ASSUME LookAtOne \/ LookAtCopy PROVE TypeOK'
  <2>1. LookDone
    BY <1>2, LookAtOneStep, LookAtCopyStep
  <2> QED
    BY <2>1 DEF LookDone, TypeOK
<1>3. ASSUME NEW c \in Chapters, Lane(c) PROVE TypeOK'
  <2>1. PICK g \in LaneState :
          Moves(c, g) /\ (StaysBegun(c, g) \/ IsSettled(c, g) \/ HasThrown(c, g))
    BY <1>3, LaneStep DEF LaneDone
  <2>2. lane' \in [Chapters -> LaneState]
    BY <2>1 DEF TypeOK, Moves
  <2>3. told' \in [Chapters -> Seq(BOOLEAN)]
    <3>1. told \in [Chapters -> Seq(BOOLEAN)]
      BY DEF TypeOK
    <3>2. told' = told \/ \E x \in BOOLEAN : told' = [told EXCEPT ![c] = Append(@, x)]
      BY <2>1 DEF StaysBegun, IsSettled, HasThrown
    <3> QED
      BY <1>0, <3>1, <3>2
  <2>4. file' \in [Chapters -> {"none", "whole", "holes"}]
    BY <2>1 DEF TypeOK, StaysBegun, IsSettled, HasThrown
  <2>5. loop' \in LoopState
    <3>1. Rest("end", {}) \in LoopState
      BY RestType DEF LoopPc
    <3> QED
      BY <2>1, <3>1 DEF TypeOK, StaysBegun, IsSettled, HasThrown
  <2>6. /\ rota' = rota /\ there' = there /\ pending' = pending /\ held' = held /\ cancel' = cancel
        /\ active' \in BOOLEAN /\ thrown' \in BOOLEAN
    BY <2>1 DEF TypeOK, Moves, StaysBegun, IsSettled, HasThrown
  <2>7. /\ throws' \in 0 .. MaxThrows
        /\ off' = off /\ blocked' = blocked /\ hidden' = hidden /\ changes' = changes
    <3>1. CASE DiskFull(c)
      BY <3>1, JobAssumption DEF TypeOK, DiskFull
    <3>2. CASE Throw(c)
      <4>1. /\ throws < MaxThrows /\ throws' = throws + 1
            /\ off' = off /\ blocked' = blocked /\ hidden' = hidden /\ changes' = changes
        BY <3>2 DEF Throw
      <4> QED
        BY <4>1, JobAssumption DEF TypeOK
    <3>3. CASE Choose(c) \/ Door(c) \/ Land(c) \/ Fail(c) \/ Alternate(c) \/ Hold(c)
      BY <3>3 DEF TypeOK, Choose, Door, Land, Fail, Alternate, Hold
    <3> QED
      BY <1>3, <3>1, <3>2, <3>3 DEF Lane
  <2>9. stop' \in BOOLEAN
    <3>1. CASE Choose(c)
      BY <3>1 DEF TypeOK, Choose, Attempt, Queue, Settles
    <3>2. CASE Door(c) \/ Land(c) \/ Fail(c) \/ DiskFull(c)
      BY <3>2 DEF TypeOK, Door, Land, Fail, DiskFull, Settles
    <3>3. CASE Alternate(c)
      BY <3>3 DEF TypeOK, Alternate, Attempt, Queue, Settles
    <3>4. CASE Hold(c) \/ Throw(c)
      BY <3>4 DEF TypeOK, Hold, Throw, Settles
    <3> QED
      BY <1>3, <3>1, <3>2, <3>3, <3>4 DEF Lane
  <2>8. refusing' \subseteq Sources /\ cold' \subseteq Sources
    <3>1. CASE ~Fail(c)
      BY <1>3, <3>1 DEF TypeOK, Lane, Choose, Door, Land, DiskFull, Alternate, Hold, Throw
    <3>2. CASE Fail(c)
      <4>1. lane[c].src \in Sources
        BY <3>2 DEF Fail, At, AskedForNothingThere
      <4> QED
        BY <3>2, <4>1 DEF Fail, TypeOK
    <3> QED
      BY <3>1, <3>2
  <2> QED
    BY <2>2, <2>3, <2>4, <2>5, <2>6, <2>7, <2>8, <2>9 DEF TypeOK
<1>4. ASSUME OtherLetsGo \/ Cancel PROVE TypeOK'
  BY <1>4 DEF TypeOK, OtherLetsGo, Cancel, Still
<1>5. ASSUME Change PROVE TypeOK'
  <2>1. changes' \in 0 .. MaxChanges
    BY <1>5, JobAssumption DEF TypeOK, Change
  <2>2. off' \subseteq Sources /\ cold' \subseteq Sources /\ blocked' \subseteq Sources
        /\ hidden' \subseteq Chapters
    BY <1>5 DEF TypeOK, Change, Unsettled
  <2> QED
    BY <1>5, <2>1, <2>2 DEF TypeOK, Change, Still
<1> QED
  BY <1>1, <1>2, <1>3, <1>4, <1>5 DEF Next, Loop
(* What the hook may have heard of a chapter differs.                      *)
LEMMA Answers ==
    <<>> # <<TRUE>> /\ <<>> # <<FALSE>> /\ <<TRUE>> # <<FALSE>>
    /\ Append(<<>>, TRUE) = <<TRUE>> /\ Append(<<>>, FALSE) = <<FALSE>>
PROOF
<1>1. Len(<<>>) = 0 /\ Len(<<TRUE>>) = 1 /\ Len(<<FALSE>>) = 1
  OBVIOUS
<1>2. <<TRUE>>[1] = TRUE /\ <<FALSE>>[1] = FALSE
  OBVIOUS
<1>3. Append(<<>>, TRUE) = <<TRUE>> /\ Append(<<>>, FALSE) = <<FALSE>>
  OBVIOUS
<1> QED
  BY <1>1, <1>2, <1>3

(* A lane's step leaves every server it is not on as free as it was.       *)
LEMMA LaneKeeps ==
    ASSUME IInv, NEW c \in Chapters, LaneDone(c)
    PROVE  /\ PendingOnce' /\ OpenIsFree' /\ CopyIsThere' /\ BegunApart'
           /\ AskedForNothingThere' /\ Accounts' /\ FolderFirst'
PROOF
<1> USE DEF IInv
<1>1. PICK g \in LaneState :
        Moves(c, g) /\ (StaysBegun(c, g) \/ IsSettled(c, g) \/ HasThrown(c, g))
  BY DEF LaneDone
<1>2. /\ lane'[c] = g /\ \A d \in Chapters : d # c => lane'[d] = lane[d]
      /\ g.pc # "none" /\ lane[c].pc # "none" /\ lane[c].pc # "over"
  BY <1>1 DEF Moves, Running, TypeOK, StaysBegun, IsSettled, HasThrown
<1>3. /\ rota' = rota /\ there' = there /\ pending' = pending /\ held' = held /\ cancel' = cancel
      /\ stop => stop'
  BY <1>1 DEF Moves
<1>4. Running' \subseteq Running /\ \A d \in Running' : lane'[d].on = lane[d].on
  BY <1>1, <1>2 DEF Running, StaysBegun, IsSettled, HasThrown
<1>5. \/ loop' = loop /\ active' = active
      \/ loop'.pc = "end" /\ loop'.open = {} /\ active' = FALSE /\ thrown'
  <2>1. Rest("end", {}).pc = "end" /\ Rest("end", {}).open = {}
    BY DEF Rest
  <2> QED
    BY <1>1, <2>1 DEF StaysBegun, IsSettled, HasThrown
<1>6. PendingOnce'
  <2>1. \A d \in Chapters : lane'[d].pc = "none" <=> lane[d].pc = "none"
    BY <1>2
  <2>2. \A i \in 1 .. Len(pending) : pending[i] \in Chapters
    BY DEF TypeOK
  <2> QED
    BY <1>3, <2>1, <2>2 DEF PendingOnce, InPending
<1>7. OpenIsFree' /\ BegunApart'
  BY <1>4, <1>5 DEF OpenIsFree, BegunApart, LaneOn
<1>8. CopyIsThere'
  BY <1>3, <1>5 DEF CopyIsThere
<1>9. AskedForNothingThere'
  <2>1. file' = file \/ (g.pc = "over" /\ g.hold = None /\ \A d \in Chapters : d # c => file'[d] = file[d])
    BY <1>1 DEF StaysBegun, IsSettled, HasThrown, TypeOK
  <2> QED
    BY <1>1, <1>2, <2>1 DEF AskedForNothingThere, StaysBegun, IsSettled, HasThrown
<1>10. Accounts'
  <2>1. told[c] = <<>> /\ file[c] = AtStart(c) /\ (loop.pc = "end" => thrown)
    <3>1. c \in Running
      BY <1>1 DEF Moves
    <3>2. told[c] = <<>>
      BY <3>1 DEF Accounts
    <3> QED
      BY <3>1, <3>2, Answers DEF Accounts, FolderFirst
  <2>2. AtStart(c)' = AtStart(c) /\ \A d \in Chapters : AtStart(d)' = AtStart(d)
    BY <1>3 DEF AtStart
  <2>3. \A d \in Chapters : d # c => told'[d] = told[d] /\ file'[d] = file[d]
    BY <1>1 DEF StaysBegun, IsSettled, HasThrown, TypeOK
  <2>4. thrown => thrown'
    BY <1>1 DEF StaysBegun, IsSettled, HasThrown
  <2>5. ASSUME NEW d \in Chapters, d # c
        PROVE  /\ told'[d] \in {<<>>, <<TRUE>>, <<FALSE>>}
               /\ d \in Running' => told'[d] = <<>>
               /\ lane'[d].pc = "none" => told'[d] # <<TRUE>>
               /\ lane'[d].pc = "none" /\ loop'.pc # "end" => told'[d] = <<>>
               /\ lane'[d].pc = "over" /\ ~thrown' => told'[d] # <<>>
               /\ told'[d] # <<TRUE>> => file'[d] = AtStart(d)
               /\ told'[d] = <<TRUE>> => file'[d] # AtStart(d)
               /\ loop'.pc = "end" /\ ~thrown' => told'[d] # <<>>
    BY <1>2, <1>4, <1>5, <2>3, <2>4, <2>5 DEF Accounts
  <2>6. CASE StaysBegun(c, g)
    BY <1>2, <1>5, <2>1, <2>2, <2>5, <2>6 DEF Accounts, StaysBegun
  <2>7. CASE HasThrown(c, g)
    BY <1>2, <1>4, <2>1, <2>2, <2>5, <2>7 DEF Accounts, HasThrown, Running
  <2>8. CASE IsSettled(c, g)
    <3>1. c \notin Running' /\ lane'[c].pc = "over" /\ thrown' = thrown /\ loop' = loop
      BY <1>2, <2>8 DEF IsSettled, Running
    <3>3. \/ told'[c] = <<FALSE>> /\ file'[c] = file[c]
          \/ told'[c] = <<TRUE>> /\ file[c] = "none" /\ file'[c] \in {"whole", "holes"}
      BY <2>1, <2>8, Answers DEF IsSettled, TypeOK
    <3>4. /\ told'[c] \in {<<TRUE>>, <<FALSE>>} /\ told'[c] # <<>>
          /\ told'[c] # <<TRUE>> => file'[c] = AtStart(c)
          /\ told'[c] = <<TRUE>> => file'[c] # AtStart(c)
      BY <2>1, <3>3, Answers
    <3> QED
      BY <1>2, <2>2, <2>5, <3>1, <3>4 DEF Accounts
  <2> QED
    BY <1>1, <2>6, <2>7, <2>8
<1>11. FolderFirst'
  <2>1. ~held /\ (loop.pc = "end" => thrown)
    BY <1>1 DEF FolderFirst, Moves
  <2>2. thrown => thrown'
    BY <1>1 DEF StaysBegun, IsSettled, HasThrown
  <2> QED
    BY <1>3, <1>5, <2>1, <2>2 DEF FolderFirst
<1> QED
  BY <1>6, <1>7, <1>8, <1>9, <1>10, <1>11
(* A chapter that is begun leaves the list, on a server no lane is on.     *)
LEMMA LookKeeps ==
    ASSUME IInv, LookDone
    PROVE  /\ PendingOnce' /\ OpenIsFree' /\ CopyIsThere' /\ BegunApart'
           /\ AskedForNothingThere' /\ Accounts' /\ FolderFirst'
PROOF
<1> USE DEF IInv
<1>1. /\ loop.pc = "look" /\ ~held /\ loop'.pc # "end" /\ loop'.pc \in {"look", "race", "tail"}
      /\ rota' = rota /\ there' = there /\ told' = told /\ file' = file
      /\ held' = held /\ active' = active /\ thrown' = thrown
  BY DEF LookDone, GoesOn, Begun, FolderFirst, ends
<1>2. \A d \in Chapters : AtStart(d)' = AtStart(d)
  BY <1>1 DEF AtStart
<1>3. CASE GoesOn
  <2>1. pending' = pending /\ lane' = lane
    BY <1>3 DEF GoesOn
  <2>2. PendingOnce' /\ BegunApart' /\ AskedForNothingThere'
    BY <1>1, <2>1 DEF PendingOnce, InPending, BegunApart, Running, AskedForNothingThere
  <2>3. OpenIsFree'
    BY <1>3, <2>1 DEF OpenIsFree, GoesOn, LaneOn, Running
  <2>4. CopyIsThere'
    <3>1. \A c \in Chapters : 1 <= Len(rota[c])
      BY OwnType
    <3>2. loop' \in LoopState /\ \A i \in 1 .. Len(pending) : pending[i] \in Chapters
      BY DEF LookDone, TypeOK
    <3>3. loop'.i <= Len(pending) => loop'.i \in 1 .. Len(pending)
      BY <3>2 DEF LoopState
    <3> QED
      BY <1>1, <1>3, <2>1, <3>1, <3>2, <3>3 DEF CopyIsThere, GoesOn
  <2>5. Accounts' /\ FolderFirst'
    BY <1>1, <1>2, <2>1 DEF Accounts, FolderFirst, Running
  <2> QED
    BY <2>2, <2>3, <2>4, <2>5
<1>4. CASE loop.i \in 1 .. Len(pending) /\ \E c \in Chapters, s \in Sources : Begun(c, s)
  <2>1. PICK c \in Chapters, s \in Sources : Begun(c, s)
    BY <1>4
  <2>2. /\ lane'[c].pc = "start" /\ lane'[c].on = s /\ lane'[c].hold = lane[c].hold
        /\ \A d \in Chapters : d # c => lane'[d] = lane[d]
    BY <2>1 DEF Begun, TypeOK, LaneState
  <2>3. lane[c].pc = "none" /\ c \notin Running /\ lane[c].hold = None /\ told[c] = <<>>
    BY <1>1, <1>4, <2>1 DEF Begun, PendingOnce, Running, AskedForNothingThere, Accounts
  <2>4. Running' = Running \cup {c}
    BY <2>2 DEF Running
  <2>5. /\ Len(pending') = Len(pending) - 1
        /\ \A j \in 1 .. Len(pending) - 1 :
              pending'[j] = IF j < loop.i THEN pending[j] ELSE pending[j + 1]
    <3>1. pending \in Seq(Chapters) /\ pending' = RemoveAt(pending, loop.i)
      BY <2>1 DEF Begun, TypeOK
    <3> QED
      BY <1>4, <3>1, Removed
  <2>6. PendingOnce'
    <3>0. Len(pending) \in Nat /\ loop.i \in Nat /\ c = pending[loop.i]
      BY <1>4, <2>1 DEF TypeOK, Begun
    <3>1. ASSUME NEW i \in 1 .. Len(pending'), NEW j \in 1 .. Len(pending'), pending'[i] = pending'[j]
          PROVE  i = j
      BY <1>4, <2>5, <3>0, <3>1 DEF PendingOnce
    <3>2. ASSUME NEW i \in 1 .. Len(pending') PROVE lane'[pending'[i]].pc = "none"
      <4> DEFINE k == IF i < loop.i THEN i ELSE i + 1
      <4>0. i \in 1 .. Len(pending) - 1 /\ pending'[i] = IF i < loop.i THEN pending[i] ELSE pending[i + 1]
        BY <2>5
      <4>1. k \in 1 .. Len(pending) /\ k # loop.i /\ pending'[i] = pending[k]
        BY <1>4, <3>0, <4>0
      <4> HIDE DEF k
      <4>2. pending[k] # c /\ pending[k] \in Chapters
        <5>1. pending \in Seq(Chapters)
          BY DEF TypeOK
        <5> QED
          BY <1>4, <3>0, <4>1, <5>1 DEF PendingOnce
      <4> QED
        BY <2>2, <4>1, <4>2 DEF PendingOnce
    <3>3. ASSUME NEW d \in Chapters, lane'[d].pc = "none" PROVE InPending(d)'
      <4>1. d # c /\ lane[d].pc = "none"
        BY <2>2, <3>3
      <4>2. PICK i \in 1 .. Len(pending) : pending[i] = d
        BY <4>1 DEF PendingOnce, InPending
      <4>3. i # loop.i
        BY <3>0, <4>1, <4>2
      <4>4. CASE i < loop.i
        <5>1. i \in 1 .. Len(pending') /\ pending'[i] = d
          BY <1>4, <2>5, <3>0, <4>2, <4>4
        <5> QED
          BY <5>1 DEF InPending
      <4>5. CASE i > loop.i
        <5>1. i - 1 \in 1 .. Len(pending') /\ pending'[i - 1] = d
          BY <1>4, <2>5, <3>0, <4>2, <4>5
        <5> QED
          BY <5>1 DEF InPending
      <4> QED
        BY <3>0, <4>2, <4>3, <4>4, <4>5
    <3> QED
      BY <3>1, <3>2, <3>3 DEF PendingOnce
  <2>7. OpenIsFree' /\ BegunApart'
    <3>1. loop'.open = {} /\ ~LaneOn(s)
      BY <2>1 DEF Begun
    <3>2. \A d \in Running : lane'[d].on = lane[d].on /\ Key[lane[d].on] # Key[s]
      BY <2>2, <2>3, <3>1 DEF LaneOn, Running
    <3> QED
      BY <2>2, <2>4, <3>1, <3>2 DEF OpenIsFree, BegunApart
  <2>8. CopyIsThere'
    <3>1. loop'.k = 1 /\ loop'.i \in Nat \ {0} /\ pending' \in Seq(Chapters)
      BY <2>1 DEF Begun, LookDone, LoopState
    <3>2. \A d \in Chapters : 1 <= Len(rota[d])
      BY OwnType
    <3>3. loop'.i <= Len(pending') => pending'[loop'.i] \in Chapters
      BY <3>1
    <3> QED
      BY <1>1, <3>1, <3>2, <3>3 DEF CopyIsThere
  <2>9. AskedForNothingThere'
    BY <1>1, <2>2, <2>3 DEF AskedForNothingThere
  <2>10. Accounts'
    BY <1>1, <1>2, <2>2, <2>3, <2>4, Answers DEF Accounts
  <2>11. FolderFirst'
    BY <1>1 DEF FolderFirst
  <2> QED
    BY <2>6, <2>7, <2>8, <2>9, <2>10, <2>11
<1> QED
  BY <1>3, <1>4 DEF LookDone

(* Nothing the rest of the loop or the world does begins a lane.           *)
LEMMA LoopKeeps ==
    ASSUME IInv, Folder \/ NewRound \/ LookEnds \/ LaneEnded
    PROVE  /\ PendingOnce' /\ OpenIsFree' /\ CopyIsThere' /\ BegunApart'
           /\ AskedForNothingThere' /\ Accounts' /\ FolderFirst'
PROOF
<1> USE DEF IInv
<1>1. /\ UNCHANGED <<rota, there, pending, lane, told, file, held, active, cancel, stop, thrown>>
      /\ loop.pc # "end"
  BY DEF Folder, NewRound, LookEnds, LaneEnded, ends
<1>2. \E pc \in {"round", "look", "race", "tail"}, on \in SUBSET Chapters : loop' = Rest(pc, on)
  BY DEF Folder, NewRound, LookEnds, LaneEnded, Looked, Running
<1>3. /\ loop'.open = {} /\ loop'.k = 1 /\ loop'.i = 1 /\ loop'.pc \in {"round", "look", "race", "tail"}
  BY <1>2 DEF Rest
<1>4. PendingOnce' /\ BegunApart' /\ AskedForNothingThere' /\ OpenIsFree'
  BY <1>1, <1>3 DEF PendingOnce, InPending, BegunApart, Running, AskedForNothingThere, OpenIsFree
<1>5. CopyIsThere'
  <2>1. \A d \in Chapters : 1 <= Len(rota[d])
    BY OwnType
  <2>2. 1 <= Len(pending) => pending[1] \in Chapters
    BY DEF TypeOK
  <2> QED
    BY <1>1, <1>3, <2>1, <2>2 DEF CopyIsThere
<1>6. Accounts'
  BY <1>1, <1>3 DEF Accounts, Running, AtStart
<1>7. FolderFirst'
  <2>1. Running' = Running /\ Halted' = Halted
    BY <1>1 DEF Running, Halted
  <2>2. ASSUME held PROVE Running = {} /\ Halted /\ loop'.pc \in {"round", "tail"}
    <3>1. Running = {}
      BY <2>2 DEF FolderFirst
    <3>2. CASE Folder
      BY <2>2, <3>1, <3>2, <1>2 DEF Folder, Rest
    <3>3. CASE NewRound
      BY <2>2, <3>1, <3>3 DEF NewRound, FolderFirst, Rest
    <3>4. CASE LookEnds \/ LaneEnded
      BY <2>2, <3>4 DEF LookEnds, LaneEnded, FolderFirst
    <3> QED
      BY <3>2, <3>3, <3>4
  <2> QED
    BY <1>1, <1>3, <2>1, <2>2 DEF FolderFirst
<1> QED
  BY <1>4, <1>5, <1>6, <1>7
(* The end of a job settles what was never begun.                          *)
LEMMA EndKeeps ==
    ASSUME IInv, JobEnds
    PROVE  /\ PendingOnce' /\ OpenIsFree' /\ CopyIsThere' /\ BegunApart'
           /\ AskedForNothingThere' /\ Accounts' /\ FolderFirst'
PROOF
<1> USE DEF IInv
<1>1. /\ UNCHANGED <<rota, there, pending, lane, file, held, cancel, stop, thrown>>
      /\ loop.pc = "tail" /\ Running = {} /\ active' = FALSE
  BY DEF JobEnds
<1>2. loop'.pc = "end" /\ loop'.open = {}
  BY DEF JobEnds, Rest
<1>3. /\ PendingOnce' /\ BegunApart' /\ AskedForNothingThere' /\ OpenIsFree' /\ CopyIsThere'
  BY <1>1, <1>2 DEF PendingOnce, InPending, BegunApart, Running, AskedForNothingThere, OpenIsFree,
     CopyIsThere
<1>4. Accounts'
  <2>1. \A c \in Chapters : InPending(c) <=> lane[c].pc = "none"
    BY DEF PendingOnce, InPending
  <2>2. ASSUME NEW c \in Chapters
        PROVE  /\ lane[c].pc = "none" => told[c] = <<>> /\ told'[c] = <<FALSE>>
               /\ lane[c].pc # "none" => lane[c].pc = "over" /\ told'[c] = told[c]
    <3>1. lane[c].pc = "none" => told[c] = <<>>
      BY <1>1 DEF Accounts
    <3>2. told'[c] = IF InPending(c) THEN Append(told[c], FALSE) ELSE told[c]
      BY DEF JobEnds
    <3>3. lane[c].pc # "none" => lane[c].pc = "over"
      BY <1>1 DEF Running
    <3> QED
      BY <2>1, <3>1, <3>2, <3>3, Answers
  <2>3. Running' = {} /\ \A c \in Chapters : AtStart(c)' = AtStart(c)
    BY <1>1 DEF Running, AtStart
  <2> QED
    BY <1>1, <1>2, <2>2, <2>3, Answers DEF Accounts
<1>5. FolderFirst'
  BY <1>1, <1>2 DEF FolderFirst, Running, Halted
<1> QED
  BY <1>3, <1>4, <1>5

LEMMA WorldKeeps ==
    ASSUME IInv, OtherLetsGo \/ Cancel \/ Change \/ UNCHANGED vars
    PROVE  /\ PendingOnce' /\ OpenIsFree' /\ CopyIsThere' /\ BegunApart'
           /\ AskedForNothingThere' /\ Accounts' /\ FolderFirst'
PROOF
<1> USE DEF IInv
<1>1. /\ UNCHANGED <<rota, there, pending, lane, told, file, loop, active, stop, thrown>>
      /\ held' => held
      /\ cancel => cancel'
  BY DEF OtherLetsGo, Cancel, Change, Still, vars, world, ends
<1>2. /\ PendingOnce' /\ BegunApart' /\ AskedForNothingThere' /\ OpenIsFree' /\ CopyIsThere'
  BY <1>1 DEF PendingOnce, InPending, BegunApart, Running, AskedForNothingThere, OpenIsFree,
     CopyIsThere, LaneOn
<1>3. Accounts'
  BY <1>1 DEF Accounts, Running, AtStart
<1>4. FolderFirst'
  <2>1. Running' = Running /\ (Halted => Halted')
    BY <1>1 DEF Running, Halted
  <2> QED
    BY <1>1, <2>1 DEF FolderFirst
<1> QED
  BY <1>2, <1>3, <1>4

LEMMA IInvStep ==
    IInv /\ [Next]_vars => IInv'
PROOF
<1> SUFFICES ASSUME IInv, [Next]_vars PROVE IInv'
  OBVIOUS
<1>1. TypeOK'
  <2>1. CASE Next
    BY <2>1, TypeStep DEF IInv
  <2>2. CASE UNCHANGED vars
    BY <2>2 DEF IInv, TypeOK, vars, world, ends
  <2> QED
    BY <2>1, <2>2
<1>2. /\ PendingOnce' /\ OpenIsFree' /\ CopyIsThere' /\ BegunApart'
      /\ AskedForNothingThere' /\ Accounts' /\ FolderFirst'
  <2>1. CASE Folder \/ NewRound \/ LookEnds \/ LaneEnded
    BY <2>1, LoopKeeps
  <2>2. CASE LookAtOne \/ LookAtCopy
    BY <2>2, LookAtOneStep, LookAtCopyStep, LookKeeps DEF IInv
  <2>3. CASE JobEnds
    BY <2>3, EndKeeps
  <2>4. ASSUME NEW c \in Chapters, Lane(c)
        PROVE  /\ PendingOnce' /\ OpenIsFree' /\ CopyIsThere' /\ BegunApart'
               /\ AskedForNothingThere' /\ Accounts' /\ FolderFirst'
    BY <2>4, LaneStep, LaneKeeps DEF IInv
  <2>5. CASE OtherLetsGo \/ Cancel \/ Change \/ UNCHANGED vars
    BY <2>5, WorldKeeps
  <2> QED
    BY <2>1, <2>2, <2>3, <2>4, <2>5 DEF Next, Loop
<1> QED
  BY <1>1, <1>2 DEF IInv

LEMMA AtFirst ==
    Init => IInv
PROOF
<1> SUFFICES ASSUME Init PROVE IInv
  OBVIOUS
<1> USE DEF Init
<1>1. NoLane \in LaneState /\ NoLane.pc = "none" /\ NoLane.hold = None
  BY DEF NoLane, LaneState, LanePc
<1>2. loop \in LoopState /\ loop.pc = "wait" /\ loop.open = {}
  BY RestType DEF Rest, LoopPc
<1>3. TypeOK
  <2>1. told \in [Chapters -> Seq(BOOLEAN)]
    OBVIOUS
  <2>2. file \in [Chapters -> {"none", "whole", "holes"}]
    OBVIOUS
  <2>3. pending \in Seq(Chapters) /\ changes \in 0 .. MaxChanges /\ throws \in 0 .. MaxThrows
    BY JobAssumption
  <2> QED
    BY <1>1, <1>2, <2>1, <2>2, <2>3 DEF TypeOK
<1>4. Running = {}
  BY <1>1 DEF Running
<1>5. PendingOnce
  <2>1. \A c \in Chapters : InPending(c)
    BY JobAssumption DEF InPending
  <2>2. \A i \in 1 .. Len(pending) : pending[i] \in Chapters
    BY <1>3 DEF TypeOK
  <2>3. \A i, j \in 1 .. Len(pending) : pending[i] = pending[j] => i = j
    BY JobAssumption
  <2> QED
    BY <1>1, <2>1, <2>2, <2>3 DEF PendingOnce
<1>6. OpenIsFree /\ CopyIsThere /\ BegunApart /\ AskedForNothingThere
  BY <1>1, <1>2, <1>4 DEF OpenIsFree, CopyIsThere, BegunApart, AskedForNothingThere
<1>7. Accounts /\ FolderFirst
  BY <1>1, <1>2, <1>4, Answers DEF Accounts, FolderFirst, AtStart
<1> QED
  BY <1>3, <1>5, <1>6, <1>7 DEF IInv

LEMMA Invariance ==
    Spec => []IInv
PROOF
<1> QED
  BY AtFirst, IInvStep, PTL DEF Spec

(* Every variable keeps its type.                                          *)
THEOREM TypeCorrect ==
    Spec => []TypeOK
PROOF
<1>1. IInv => TypeOK
  BY DEF IInv
<1> QED
  BY <1>1, Invariance, PTL

(* No two lanes are begun on copies of one image server, however the lanes *)
(* end and the sources refuse while the loop looks from one to the next.   *)
THEOREM LanesBegunApart ==
    Spec => []BegunApart
PROOF
<1>1. IInv => BegunApart
  BY DEF IInv
<1> QED
  BY <1>1, Invariance, PTL

(* The hook hears of every chapter once, and truly, though lanes settle    *)
(* theirs in any order, the loop settles the rest and some throw.          *)
THEOREM EveryChapterSettledOnce ==
    Spec => []SettledOnce
PROOF
<1>1. IInv => SettledOnce
  <2> SUFFICES ASSUME IInv, NEW c \in Chapters
               PROVE  /\ Len(told[c]) <= 1
                      /\ told[c] = <<TRUE>> <=> file[c] # (IF c \in there THEN "whole" ELSE "none")
                      /\ loop.pc = "end" /\ ~thrown => Len(told[c]) = 1
    BY DEF SettledOnce
  <2>1. Len(<<>>) = 0 /\ Len(<<TRUE>>) = 1 /\ Len(<<FALSE>>) = 1
    OBVIOUS
  <2> QED
    <3>1. /\ told[c] \in {<<>>, <<TRUE>>, <<FALSE>>}
          /\ told[c] # <<TRUE>> => file[c] = AtStart(c)
          /\ told[c] = <<TRUE>> => file[c] # AtStart(c)
          /\ loop.pc = "end" /\ ~thrown => told[c] # <<>>
      BY DEF IInv, Accounts
    <3>2. told[c] = <<>> \/ told[c] = <<TRUE>> \/ told[c] = <<FALSE>>
      BY <3>1
    <3>3. Len(told[c]) \in {0, 1} /\ (told[c] # <<>> => Len(told[c]) = 1)
      BY <2>1, <3>2, Zenon
    <3>4. told[c] = <<TRUE>> <=> file[c] # AtStart(c)
      BY <3>1
    <3> QED
      <4>1. Len(told[c]) <= 1
        <5> DEFINE n == Len(told[c])
        <5>1. n \in {0, 1}
          BY <3>3
        <5> HIDE DEF n
        <5>2. n <= 1
          BY <5>1
        <5> QED
          BY <5>2 DEF n
      <4>2. loop.pc = "end" /\ ~thrown => Len(told[c]) = 1
        BY <3>1, <3>3
      <4>3. told[c] = <<TRUE>> <=> file[c] # (IF c \in there THEN "whole" ELSE "none")
        BY <3>4, Zenon DEF AtStart
      <4> QED
        BY <4>1, <4>2, <4>3
<1> QED
  BY <1>1, Invariance, PTL

(* While nothing threw, a lane that runs has the folder to itself.         *)
THEOREM FolderIsKept ==
    Spec => []FolderKept
PROOF
<1>1. IInv => FolderKept
  BY DEF IInv, FolderFirst, FolderKept, TypeOK
<1> QED
  BY <1>1, Invariance, PTL

(* No file that is whole is ever written over.                             *)
THEOREM WholeFilesStay ==
    Spec => WholeStays
PROOF
<1>1. IInv /\ [Next]_vars => [\A c \in Chapters : file[c] = "whole" => file'[c] = "whole"]_vars
  <2> SUFFICES ASSUME IInv, Next, NEW d \in Chapters, file[d] = "whole" PROVE file'[d] = "whole"
    OBVIOUS
  <2>1. ASSUME NEW c \in Chapters, Lane(c) PROVE file'[d] = "whole"
    <3>1. LaneDone(c)
      BY <2>1, LaneStep DEF IInv
    <3>2. file' = file \/ (file[c] = "none" /\ \E x \in {"whole", "holes"} : file' = [file EXCEPT ![c] = x])
      BY <3>1 DEF LaneDone, StaysBegun, IsSettled, HasThrown
    <3> QED
      BY <3>2 DEF IInv, TypeOK
  <2>2. CASE Loop \/ OtherLetsGo \/ Cancel \/ Change
    <3>1. file' = file
      BY <2>2 DEF Loop, Folder, NewRound, LookAtOne, LookAtCopy, LookEnds, LaneEnded, JobEnds,
         OtherLetsGo, Cancel, Change, Still
    <3> QED
      BY <3>1
  <2> QED
    BY <2>1, <2>2 DEF Next
<1> QED
  BY <1>1, Invariance, PTL DEF Spec, WholeStays
=============================================================================
