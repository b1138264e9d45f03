---------------------------- MODULE AccessProofs ----------------------------
(***************************************************************************)
(* How a source may be asked: the lanes of its key (Gate), and the pace    *)
(* that key is kept to (Pace).                                             *)
(*                                                                         *)
(* Gate, for every set of calls and keys, every width and every gap.  The  *)
(* inductive invariant is Inv: the state is well typed, a lane's queue     *)
(* holds its waiters once each, and the calls that hold a slot are as many *)
(* as the lane counts.                                                     *)
(*                                                                         *)
(* Pace, for any groups and servers, and any levels, holds and idle times. *)
(***************************************************************************)
EXTENDS Gate, Pace, FiniteSetTheorems, WellFoundedInduction, TLAPS

(* Gate *)

(* A width is a positive number: Math.max(1, _).                           *)
LEMMA WidthType ==
    ASSUME TypeOK, NEW k \in Keys
    PROVE  Width(k) \in Nat /\ Width(k) >= 1
  BY WidthAssumption DEF TypeOK, Width, WidthOf

LEMMA GapType ==
    ASSUME TypeOK, NEW k \in Keys
    PROVE  Gap(k) \in Nat
  BY GapAssumption DEF TypeOK, Gap

(* admit() lets in no more than wait and no more than fit, and nobody      *)
(* stays while there is room.                                              *)
LEMMA LetInBounds ==
    ASSUME TypeOK, NEW k \in Keys, NEW a \in Nat, NEW q \in Seq(Ops)
    PROVE  /\ LetIn(k, a, q) \in 0..Len(q)
           /\ LetIn(k, a, q) > 0 => a + LetIn(k, a, q) <= Width(k)
           /\ LetIn(k, a, q) < Len(q) => a + LetIn(k, a, q) >= Width(k)
           /\ Len(q) > 0 => a + LetIn(k, a, q) > 0
  BY WidthType DEF LetIn

(* What is left of the queue is its suffix.                                *)
LEMMA RemainingSuffix ==
    ASSUME NEW q \in Seq(Ops), NEW n \in 0..Len(q)
    PROVE  /\ Remaining(q, n) \in Seq(Ops)
           /\ Len(Remaining(q, n)) = Len(q) - n
           /\ \A i \in 1..(Len(q) - n) : Remaining(q, n)[i] = q[n + i]
  BY DEF Remaining

(* The first n of a queue that holds nobody twice are n calls.             *)
LEMMA PrefixCount ==
    ASSUME NEW q \in Seq(Ops), NEW n \in 0..Len(q),
           \A i, j \in 1..Len(q) : q[i] = q[j] => i = j
    PROVE  LET first == {o \in Ops : \E i \in 1..n : q[i] = o}
           IN  IsFiniteSet(first) /\ Cardinality(first) = n
<1> DEFINE first == {o \in Ops : \E i \in 1..n : q[i] = o}
           f == [i \in 1..n |-> q[i]]
<1>1. f \in Bijection(1..n, first)
  <2>1. f \in [1..n -> first]
    OBVIOUS
  <2>2. \A i, j \in 1..n : f[i] = f[j] => i = j
    OBVIOUS
  <2>3. \A o \in first : \E i \in 1..n : f[i] = o
    OBVIOUS
  <2>4. QED
    BY <2>1, <2>2, <2>3 DEF Bijection, Injection, Surjection, IsInjective
<1>2. ExistsBijection(1..n, first)
  BY <1>1 DEF ExistsBijection
<1>3. IsFiniteSet(1..n) /\ Cardinality(1..n) = n
  BY FS_Interval
<1>4. QED
  BY <1>2, <1>3, FS_Bijection

-----------------------------------------------------------------------------
(* The inductive invariant, lane by lane.                                  *)
LaneOK(k) ==
    /\ active[k] = Cardinality(Holders(k))
    /\ Enumerates(queue[k], Waiters(k))
    /\ k \in open <=> Holders(k) \cup Waiters(k) # {}
    /\ Waiters(k) # {} => Holders(k) # {}
    /\ \E l \in Levels : active[k] <= WidthOf(l)

Inv == TypeOK /\ \A k \in Keys : LaneOK(k)

LEMMA HoldersFinite ==
    ASSUME NEW k \in Keys, NEW ph
    PROVE  /\ IsFiniteSet(HoldersIn(k, ph))
           /\ Cardinality(HoldersIn(k, ph)) \in Nat
           /\ Cardinality(HoldersIn(k, ph)) = 0 <=> HoldersIn(k, ph) = {}
<1>1. IsFiniteSet(HoldersIn(k, ph))
  BY OpsAssumption, FS_Subset DEF HoldersIn
<1>2. QED
  BY <1>1, FS_CardinalityType, FS_EmptySet

(* A step that touches one lane keeps Inv if it keeps that lane.           *)
LEMMA OneLane ==
    ASSUME Inv, TypeOK', NEW k \in Keys, LaneOK(k)',
           \A o \in Ops : KeyOf[o] # k => phase'[o] = phase[o],
           \A j \in Keys \ {k} : /\ active'[j] = active[j]
                                 /\ queue'[j] = queue[j]
                                 /\ j \in open' <=> j \in open
    PROVE  Inv'
<1>1. ASSUME NEW j \in Keys \ {k} PROVE LaneOK(j)'
  <2>1. Holders(j)' = Holders(j) /\ Waiters(j)' = Waiters(j)
    BY DEF Holders, HoldersIn, Waiters, WaitersIn
  <2>2. LaneOK(j)
    BY DEF Inv
  <2>3. QED
    BY <2>1, <2>2 DEF LaneOK, Enumerates, WidthOf
<1>2. QED
  BY <1>1 DEF Inv

(* admit() touches one lane, and leaves in it what belongs there: the      *)
(* queue enumerates those who wait, and the count is that of the holders.  *)
LEMMA AdmitKeeps ==
    ASSUME TypeOK, NEW k \in Keys, NEW a \in Nat, NEW q \in Seq(Ops),
           NEW ph \in [Ops -> Phases], Admit(k, a, q, ph),
           a = Cardinality(HoldersIn(k, ph)),
           Enumerates(q, WaitersIn(k, ph)),
           \E l \in Levels : a <= WidthOf(l),
           \A o \in Ops : KeyOf[o] # k => ph[o] = phase[o]
    PROVE  /\ phase' \in [Ops -> Phases] /\ open' \subseteq Keys
           /\ active' \in [Keys -> Nat] /\ queue' \in [Keys -> Seq(Ops)]
           /\ rest' \in [Keys -> Nat]
           /\ LaneOK(k)'
           /\ \A o \in Ops : KeyOf[o] # k => phase'[o] = phase[o]
           /\ \A j \in Keys \ {k} : /\ active'[j] = active[j]
                                    /\ queue'[j] = queue[j]
                                    /\ j \in open' <=> j \in open
<1> DEFINE n == LetIn(k, a, q)
           first == {o \in Ops : \E i \in 1..n : q[i] = o}
<1>1. n \in 0..Len(q)
  BY LetInBounds
<1>2. first \subseteq WaitersIn(k, ph)
  BY <1>1 DEF Enumerates
<1>3. phase' = [o \in Ops |-> IF o \in first THEN "admitted" ELSE ph[o]]
  BY DEF Admit
<1>4. phase' \in [Ops -> Phases]
  BY <1>3 DEF Phases
<1>5. Holders(k)' = HoldersIn(k, ph) \cup first
  BY <1>2, <1>3 DEF Holders, HoldersIn, WaitersIn, Holding
<1>6. Waiters(k)' = WaitersIn(k, ph) \ first
  BY <1>2, <1>3 DEF Waiters, WaitersIn
<1>7. active' = [active EXCEPT ![k] = a + n]
  BY DEF Admit, Counted
<1>8. active' \in [Keys -> Nat] /\ active'[k] = a + n
  BY <1>1, <1>7 DEF TypeOK
<1>9. queue' = [queue EXCEPT ![k] = Remaining(q, n)]
  BY DEF Admit
<1>10. queue' \in [Keys -> Seq(Ops)] /\ queue'[k] = Remaining(q, n)
  BY <1>1, <1>9, RemainingSuffix DEF TypeOK
<1>11. active'[k] = Cardinality(Holders(k)')
  <2>1. IsFiniteSet(first) /\ Cardinality(first) = n
    BY <1>1, PrefixCount DEF Enumerates
  <2>2. IsFiniteSet(HoldersIn(k, ph))
    BY OpsAssumption, FS_Subset DEF HoldersIn
  <2>3. HoldersIn(k, ph) \cap first = {}
    BY <1>2 DEF HoldersIn, WaitersIn, Holding
  <2>4. Cardinality(HoldersIn(k, ph) \cup first)
            = Cardinality(HoldersIn(k, ph)) + Cardinality(first)
              - Cardinality(HoldersIn(k, ph) \cap first)
    BY <2>1, <2>2, FS_Union
  <2>5. Cardinality(HoldersIn(k, ph) \cap first) = 0
    BY <2>3, FS_EmptySet
  <2>6. QED
    BY <1>1, <1>5, <1>8, <2>1, <2>4, <2>5
<1>12. Enumerates(queue'[k], Waiters(k)')
  <2> DEFINE r == Remaining(q, n)
  <2>1. Len(r) = Len(q) - n /\ \A i \in 1..Len(r) : r[i] = q[n + i]
    BY <1>1, RemainingSuffix
  <2>2. ASSUME NEW i \in 1..Len(r)
        PROVE  r[i] \in WaitersIn(k, ph) \ first
    <3>1. n + i \in 1..Len(q) /\ r[i] = q[n + i]
      BY <1>1, <2>1
    <3>2. q[n + i] \in WaitersIn(k, ph)
      BY <3>1 DEF Enumerates
    <3>3. \A h \in 1..n : h \in 1..Len(q) /\ h # n + i
      BY <1>1, <3>1
    <3>4. \A h \in 1..n : q[h] # q[n + i]
      BY <3>1, <3>3 DEF Enumerates
    <3>5. QED
      BY <3>1, <3>2, <3>4
  <2>3. ASSUME NEW o \in WaitersIn(k, ph) \ first
        PROVE  \E i \in 1..Len(r) : r[i] = o
    <3>1. PICK j \in 1..Len(q) : q[j] = o
      BY DEF Enumerates
    <3>2. j > n
      BY <1>1, <3>1, <2>3 DEF WaitersIn
    <3>3. j - n \in 1..Len(r) /\ r[j - n] = o
      BY <1>1, <2>1, <3>1, <3>2
    <3>4. QED
      BY <3>3
  <2>4. ASSUME NEW i \in 1..Len(r), NEW j \in 1..Len(r), r[i] = r[j]
        PROVE  i = j
    <3>1. n + i \in 1..Len(q) /\ n + j \in 1..Len(q)
      BY <1>1, <2>1
    <3>2. q[n + i] = q[n + j]
      BY <2>1, <2>4
    <3>3. n + i = n + j
      BY <3>1, <3>2 DEF Enumerates
    <3>4. QED
      BY <1>1, <3>3
  <2>5. QED
    BY <1>6, <1>10, <2>2, <2>3, <2>4 DEF Enumerates
<1>13. k \in open' <=> Holders(k)' \cup Waiters(k)' # {}
  <2>1. k \notin open' <=> a + n = 0 /\ Len(q) = n
    BY DEF Admit, Empties
  <2>2. a + n = 0 <=> Holders(k)' = {}
    BY <1>8, <1>11, HoldersFinite DEF Holders
  <2>3. Len(q) = n <=> Waiters(k)' = {}
    <3>1. Len(queue'[k]) = Len(q) - n
      BY <1>1, <1>10, RemainingSuffix
    <3>2. Len(queue'[k]) = 0 <=> Waiters(k)' = {}
      BY <1>1, <1>12, <3>1 DEF Enumerates
    <3>3. QED
      BY <1>1, <3>1, <3>2
  <2>4. QED
    BY <2>1, <2>2, <2>3
<1>14. Waiters(k)' # {} => Holders(k)' # {}
  <2>1. Waiters(k)' # {} => Len(q) > 0
    BY <1>6, <1>1 DEF Enumerates
  <2>2. Len(q) > 0 => a + n > 0
    BY LetInBounds
  <2>3. Holders(k)' = {} => a + n = 0
    BY <1>8, <1>11, HoldersFinite DEF Holders
  <2>4. QED
    BY <1>1, <2>1, <2>2, <2>3
<1>15. \E l \in Levels : active'[k] <= WidthOf(l)
  <2>1. CASE n > 0
    <3>1. a + n <= WidthOf(level[k]) /\ level[k] \in Levels
      BY <2>1, LetInBounds DEF Width, TypeOK
    <3>2. QED
      BY <1>8, <3>1
  <2>2. CASE n = 0
    BY <1>8, <2>2
  <2>3. QED
    BY <1>1, <2>1, <2>2
<1>16. LaneOK(k)'
  BY <1>11, <1>12, <1>13, <1>14, <1>15 DEF LaneOK, WidthOf
<1>17. \A o \in Ops : KeyOf[o] # k => phase'[o] = phase[o]
  BY <1>2, <1>3 DEF WaitersIn
<1>18. /\ open' \subseteq Keys /\ rest' \in [Keys -> Nat]
       /\ \A j \in Keys \ {k} : j \in open' <=> j \in open
  <2>1. CASE Empties(a, q, n)
    <3>1. open' = open \ {k} /\ rest' = [rest EXCEPT ![k] = 0]
      BY <2>1 DEF Admit
    <3>2. QED
      BY <3>1 DEF TypeOK
  <2>2. CASE ~Empties(a, q, n)
    <3>1. open' = open \cup {k} /\ rest' = rest
      BY <2>2 DEF Admit
    <3>2. QED
      BY <3>1 DEF TypeOK
  <2>3. QED
    BY <2>1, <2>2
<1>19. \A j \in Keys \ {k} : active'[j] = active[j] /\ queue'[j] = queue[j]
  BY <1>7, <1>9 DEF TypeOK
<1>20. QED
  BY <1>4, <1>8, <1>10, <1>16, <1>17, <1>18, <1>19

(* Taking the slot, sleeping or not: only the phase of the caller moves.   *)
LEMMA TakeSlotKeeps ==
    ASSUME TypeOK, NEW o \in Ops, TakeSlot(o)
    PROVE  /\ rest' \in [Keys -> Nat]
           /\ left' \in [Ops -> Nat] /\ gap' \in [Ops -> Nat]
           /\ \E p \in {"sleeping", "running"} : phase' = [phase EXCEPT ![o] = p]
<1>1. KeyOf[o] \in Keys /\ Gap(KeyOf[o]) \in Nat
  BY OpsAssumption, GapType
<1>2. CASE MustSleep(KeyOf[o])
  BY <1>1, <1>2 DEF TakeSlot, TypeOK
<1>3. CASE ~MustSleep(KeyOf[o])
  BY <1>1, <1>3 DEF TakeSlot, TypeOK
<1>4. QED
  BY <1>2, <1>3

(* A call that keeps its slot while its phase moves on changes no lane.    *)
LEMMA SameSlot ==
    ASSUME Inv, TypeOK', NEW o \in Ops, NEW p \in Holding,
           phase[o] \in Holding, phase' = [phase EXCEPT ![o] = p],
           UNCHANGED <<open, active, queue, level>>
    PROVE  Inv'
<1>1. \A k \in Keys : Holders(k)' = Holders(k) /\ Waiters(k)' = Waiters(k)
  BY DEF Inv, TypeOK, Holders, HoldersIn, Waiters, WaitersIn, Holding
<1>2. ASSUME NEW k \in Keys PROVE LaneOK(k)'
  BY <1>1 DEF Inv, LaneOK, Enumerates, WidthOf
<1>3. QED
  BY <1>2 DEF Inv

(* Time, the pace of a source and stuttering leave the lanes alone.        *)
LEMMA SameLanes ==
    ASSUME Inv, TypeOK', UNCHANGED <<open, active, queue, phase>>
    PROVE  Inv'
<1>1. \A k \in Keys : Holders(k)' = Holders(k) /\ Waiters(k)' = Waiters(k)
  BY DEF Holders, HoldersIn, Waiters, WaitersIn
<1>2. ASSUME NEW k \in Keys PROVE LaneOK(k)'
  BY <1>1 DEF Inv, LaneOK, Enumerates, WidthOf
<1>3. QED
  BY <1>2 DEF Inv

LEMMA InitInv == Init => Inv
<1> SUFFICES ASSUME Init PROVE Inv
  OBVIOUS
<1>1. TypeOK
  BY DEF Init, TypeOK, Phases
<1>2. ASSUME NEW k \in Keys PROVE LaneOK(k)
  <2>1. Holders(k) = {} /\ Waiters(k) = {}
    BY DEF Init, Holders, HoldersIn, Waiters, WaitersIn, Holding
  <2>2. level[k] \in Levels /\ 0 <= WidthOf(level[k])
    BY <1>1, WidthAssumption DEF TypeOK, WidthOf
  <2>3. QED
    BY <2>1, <2>2, FS_EmptySet DEF Init, LaneOK, Enumerates
<1>3. QED
  BY <1>1, <1>2 DEF Inv

(* withGate() into a lane with room and no queue.                          *)
LEMMA ArriveFreeInv ==
    ASSUME Inv, NEW o \in Ops, ArriveFree(o)
    PROVE  Inv'
<1> DEFINE k == KeyOf[o]
<1>1. k \in Keys /\ TypeOK /\ LaneOK(k) /\ TakeSlot(o)
  BY OpsAssumption DEF Inv, ArriveFree
<1>2. PICK p \in {"sleeping", "running"} : phase' = [phase EXCEPT ![o] = p]
  BY <1>1, TakeSlotKeeps
<1>3. /\ phase[o] = "idle" /\ queue[k] = <<>> /\ active[k] < Width(k)
      /\ open' = open \cup {k} /\ queue' = queue /\ level' = level
      /\ active' = [active EXCEPT ![k] = active[k] + 1]
  BY DEF ArriveFree, HasRoom
<1>4. TypeOK'
  <2>1. /\ rest' \in [Keys -> Nat]
        /\ left' \in [Ops -> Nat] /\ gap' \in [Ops -> Nat]
    BY <1>1, TakeSlotKeeps
  <2>2. phase' \in [Ops -> Phases]
    BY <1>1, <1>2 DEF TypeOK, Phases
  <2>3. open' \subseteq Keys /\ active' \in [Keys -> Nat]
    BY <1>1, <1>3 DEF TypeOK
  <2>4. QED
    BY <1>1, <1>3, <2>1, <2>2, <2>3 DEF TypeOK
<1>5. Waiters(k)' = Waiters(k) /\ Waiters(k) = {}
  BY <1>1, <1>2, <1>3 DEF TypeOK, LaneOK, Enumerates, Waiters, WaitersIn
<1>6. Holders(k)' = Holders(k) \cup {o} /\ o \notin Holders(k)
  BY <1>1, <1>2, <1>3 DEF TypeOK, Holders, HoldersIn, Holding
<1>7. active'[k] = active[k] + 1 /\ active[k] \in Nat
  BY <1>1, <1>3 DEF TypeOK
<1>8. Cardinality(Holders(k)') = active'[k]
  <2>1. IsFiniteSet(Holders(k))
    BY <1>1, HoldersFinite DEF Holders
  <2>2. Cardinality(Holders(k) \cup {o}) = Cardinality(Holders(k)) + 1
    BY <1>6, <2>1, FS_AddElement
  <2>3. Cardinality(Holders(k)) = active[k]
    BY <1>1 DEF LaneOK
  <2> QED
    BY <1>6, <1>7, <2>2, <2>3
<1>9. \E l \in Levels : active'[k] <= WidthOf(l)
  <2>1. level[k] \in Levels /\ Width(k) = WidthOf(level[k]) /\ Width(k) \in Nat
    BY <1>1, WidthType DEF TypeOK, Width
  <2>2. QED
    BY <1>3, <1>7, <2>1
<1>10. LaneOK(k)'
  BY <1>3, <1>5, <1>6, <1>8, <1>9 DEF LaneOK, Enumerates, WidthOf
<1>11. /\ \A x \in Ops : KeyOf[x] # k => phase'[x] = phase[x]
       /\ \A j \in Keys \ {k} : active'[j] = active[j] /\ queue'[j] = queue[j]
       /\ \A j \in Keys \ {k} : j \in open' <=> j \in open
  BY <1>1, <1>2, <1>3 DEF TypeOK
<1>12. QED
  BY <1>1, <1>4, <1>10, <1>11, OneLane

(* withGate() behind those who wait.                                       *)
LEMMA ArriveBehindInv ==
    ASSUME Inv, NEW o \in Ops, ArriveBehind(o)
    PROVE  Inv'
<1> DEFINE k  == KeyOf[o]
           q  == Append(queue[k], o)
           ph == [phase EXCEPT ![o] = "queued"]
<1>1. k \in Keys /\ TypeOK /\ LaneOK(k) /\ phase[o] = "idle"
  BY OpsAssumption DEF Inv, ArriveBehind
<1>2. Admit(k, active[k], q, ph) /\ UNCHANGED <<left, gap, level>>
  BY DEF ArriveBehind
<1>3. active[k] \in Nat /\ queue[k] \in Seq(Ops) /\ ph \in [Ops -> Phases]
  BY <1>1 DEF TypeOK, Phases
<1>4. HoldersIn(k, ph) = Holders(k)
  BY <1>1 DEF TypeOK, Holders, HoldersIn, Holding
<1>5. WaitersIn(k, ph) = Waiters(k) \cup {o} /\ o \notin Waiters(k)
  BY <1>1 DEF TypeOK, Waiters, WaitersIn
<1>6. Enumerates(q, WaitersIn(k, ph))
  <2>1. /\ Len(q) = Len(queue[k]) + 1 /\ q[Len(q)] = o
        /\ \A i \in 1..Len(queue[k]) : q[i] = queue[k][i]
    BY <1>3
  <2>2. Enumerates(queue[k], Waiters(k))
    BY <1>1 DEF LaneOK
  <2>3. \A i \in 1..Len(q) : i = Len(q) \/ i \in 1..Len(queue[k])
    BY <1>3, <2>1
  <2>4. \A i \in 1..Len(q) : q[i] \in WaitersIn(k, ph)
    BY <1>5, <2>1, <2>2, <2>3 DEF Enumerates
  <2>5. \A x \in WaitersIn(k, ph) : \E i \in 1..Len(q) : q[i] = x
    <3>1. Len(q) \in 1..Len(q) /\ \A i \in 1..Len(queue[k]) : i \in 1..Len(q)
      BY <1>3, <2>1
    <3>2. QED
      BY <1>5, <2>1, <2>2, <3>1 DEF Enumerates
  <2>6. \A i \in 1..Len(queue[k]) : queue[k][i] # o
    BY <1>5, <2>2 DEF Enumerates
  <2>7. \A i, j \in 1..Len(q) : q[i] = q[j] => i = j
    BY <2>1, <2>2, <2>3, <2>6 DEF Enumerates
  <2>8. QED
    BY <2>4, <2>5, <2>7 DEF Enumerates
<1>7. /\ active[k] = Cardinality(HoldersIn(k, ph))
      /\ \E l \in Levels : active[k] <= WidthOf(l)
      /\ \A x \in Ops : KeyOf[x] # k => ph[x] = phase[x]
  BY <1>1, <1>4 DEF LaneOK
<1>8. q \in Seq(Ops)
  BY <1>3
<1>9. /\ phase' \in [Ops -> Phases] /\ open' \subseteq Keys
      /\ active' \in [Keys -> Nat] /\ queue' \in [Keys -> Seq(Ops)]
      /\ rest' \in [Keys -> Nat]
      /\ LaneOK(k)'
      /\ \A x \in Ops : KeyOf[x] # k => phase'[x] = phase[x]
      /\ \A j \in Keys \ {k} : /\ active'[j] = active[j]
                               /\ queue'[j] = queue[j]
                               /\ j \in open' <=> j \in open
  <2>1. k \in Keys /\ q \in Seq(Ops) /\ ph \in [Ops -> Phases] /\ active[k] \in Nat
    BY <1>1, <1>3, <1>8
  <2> HIDE DEF k, q, ph
  <2> QED
    BY <1>1, <1>2, <1>3, <1>6, <1>7, <2>1, AdmitKeeps
<1>10. TypeOK'
  BY <1>1, <1>2, <1>9 DEF TypeOK
<1>11. QED
  BY <1>1, <1>9, <1>10, OneLane

(* The finally block: the slot is given back, and the next are let in.     *)
LEMMA FinishInv ==
    ASSUME Inv, NEW o \in Ops, Finish(o)
    PROVE  Inv'
<1> DEFINE k  == KeyOf[o]
           a  == active[k] - 1
           ph == [phase EXCEPT ![o] = "idle"]
<1>1. k \in Keys /\ TypeOK /\ LaneOK(k) /\ phase[o] = "running"
  BY OpsAssumption DEF Inv, Finish
<1>2. /\ Admit(k, a, queue[k], ph)
      /\ gap' = [gap EXCEPT ![o] = 0] /\ UNCHANGED <<left, level>>
  BY DEF Finish
<1>3. active[k] \in Nat /\ queue[k] \in Seq(Ops) /\ ph \in [Ops -> Phases]
  BY <1>1 DEF TypeOK, Phases
<1>4. HoldersIn(k, ph) = Holders(k) \ {o} /\ o \in Holders(k)
  BY <1>1 DEF TypeOK, Holders, HoldersIn, Holding
<1>5. WaitersIn(k, ph) = Waiters(k)
  BY <1>1 DEF TypeOK, Waiters, WaitersIn
<1>6. a = Cardinality(HoldersIn(k, ph)) /\ a \in Nat
  <2>1. IsFiniteSet(Holders(k)) /\ Cardinality(HoldersIn(k, ph)) \in Nat
    BY <1>1, HoldersFinite DEF Holders
  <2>2. Cardinality(Holders(k) \ {o}) = Cardinality(Holders(k)) - 1
    BY <1>4, <2>1, FS_RemoveElement
  <2>3. active[k] = Cardinality(Holders(k))
    BY <1>1 DEF LaneOK
  <2>4. QED
    BY <1>4, <2>1, <2>2, <2>3
<1>7. Enumerates(queue[k], WaitersIn(k, ph))
  BY <1>1, <1>5 DEF LaneOK
<1>8. \E l \in Levels : a <= WidthOf(l)
  <2>1. PICK l \in Levels : active[k] <= WidthOf(l)
    BY <1>1 DEF LaneOK
  <2>2. WidthOf(l) \in Nat
    BY WidthAssumption DEF WidthOf
  <2>3. QED
    BY <1>3, <2>1, <2>2
<1>9. /\ phase' \in [Ops -> Phases] /\ open' \subseteq Keys
      /\ active' \in [Keys -> Nat] /\ queue' \in [Keys -> Seq(Ops)]
      /\ rest' \in [Keys -> Nat]
      /\ LaneOK(k)'
      /\ \A x \in Ops : KeyOf[x] # k => phase'[x] = phase[x]
      /\ \A j \in Keys \ {k} : /\ active'[j] = active[j]
                               /\ queue'[j] = queue[j]
                               /\ j \in open' <=> j \in open
  BY <1>1, <1>2, <1>3, <1>6, <1>7, <1>8, AdmitKeeps
<1>10. TypeOK'
  BY <1>1, <1>2, <1>9 DEF TypeOK
<1>11. QED
  BY <1>1, <1>9, <1>10, OneLane

(* The continuation of a waiter, and of a sleeper: the slot is kept.       *)
LEMMA GoOnInv ==
    ASSUME Inv, NEW o \in Ops, GoOn(o)
    PROVE  Inv'
<1>1. TypeOK /\ TakeSlot(o) /\ UNCHANGED <<open, active, queue, level>>
  BY DEF Inv, GoOn
<1>2. PICK p \in {"sleeping", "running"} : phase' = [phase EXCEPT ![o] = p]
  BY <1>1, TakeSlotKeeps
<1>3. TypeOK'
  <2>1. /\ rest' \in [Keys -> Nat]
        /\ left' \in [Ops -> Nat] /\ gap' \in [Ops -> Nat]
    BY <1>1, TakeSlotKeeps
  <2>2. phase' \in [Ops -> Phases]
    BY <1>1, <1>2 DEF TypeOK, Phases
  <2>3. QED
    BY <1>1, <2>1, <2>2 DEF TypeOK
<1>4. p \in Holding /\ phase[o] \in Holding
  BY DEF GoOn, Holding
<1>5. QED
  BY <1>1, <1>2, <1>3, <1>4, SameSlot

LEMMA WakeInv ==
    ASSUME Inv, NEW o \in Ops, Wake(o)
    PROVE  Inv'
<1>1. /\ phase' = [phase EXCEPT ![o] = "running"]
      /\ UNCHANGED <<open, active, queue, level>>
      /\ "running" \in Holding /\ phase[o] \in Holding
  BY DEF Wake, Holding
<1>2. TypeOK'
  BY OpsAssumption DEF Inv, Wake, TypeOK, Phases
<1>3. QED
  BY <1>1, <1>2, SameSlot

LEMMA NextInv == Inv /\ [Next]_vars => Inv'
<1> SUFFICES ASSUME Inv, [Next]_vars PROVE Inv'
  OBVIOUS
<1>1. ASSUME NEW o \in Ops, ArriveFree(o) PROVE Inv'
  BY <1>1, ArriveFreeInv
<1>2. ASSUME NEW o \in Ops, ArriveBehind(o) PROVE Inv'
  BY <1>2, ArriveBehindInv
<1>3. ASSUME NEW o \in Ops, GoOn(o) PROVE Inv'
  BY <1>3, GoOnInv
<1>4. ASSUME NEW o \in Ops, Wake(o) PROVE Inv'
  BY <1>4, WakeInv
<1>5. ASSUME NEW o \in Ops, Finish(o) PROVE Inv'
  BY <1>5, FinishInv
<1>6. CASE Tick
  <2>1. TypeOK'
    BY <1>6 DEF Inv, Tick, Less, TypeOK
  <2>2. QED
    BY <1>6, <2>1, SameLanes DEF Tick
<1>7. ASSUME NEW k \in Keys, NEW l \in Levels, SetLevel(k, l) PROVE Inv'
  <2>1. TypeOK'
    BY <1>7 DEF Inv, SetLevel, TypeOK
  <2>2. QED
    BY <1>7, <2>1, SameLanes DEF SetLevel
<1>8. CASE UNCHANGED vars
  <2>1. TypeOK'
    BY <1>8 DEF Inv, vars, TypeOK
  <2>2. QED
    BY <1>8, <2>1, SameLanes DEF vars
<1>9. QED
  BY <1>1, <1>2, <1>3, <1>4, <1>5, <1>6, <1>7, <1>8 DEF Next

-----------------------------------------------------------------------------
(* Inv holds in every reachable state.                                     *)
THEOREM Invariance == Spec => []Inv
<1>1. QED
  BY InitInv, NextInv, PTL DEF Spec

(* The gate's state is well typed whatever the calls do.                   *)
THEOREM TypeCorrect == Spec => []TypeOK
<1>1. Inv => TypeOK
  BY DEF Inv
<1>2. QED
  BY <1>1, Invariance, PTL

(* A lane counts a slot once for every call that holds one and gives it    *)
(* back once; it queues exactly those that wait, each once; and it exists  *)
(* exactly while a call runs or waits in it, so gateBusy (gate.ts:85)      *)
(* answers right and no lane is leaked.                                    *)
THEOREM LanesAlwaysAgree == Spec => []LanesAgree
<1>1. Inv => SlotsAreCounted /\ QueueHoldsWaiters /\ LaneIsBusy
  BY DEF Inv, LaneOK, SlotsAreCounted, QueueHoldsWaiters, LaneIsBusy
<1>2. QED
  BY <1>1, Invariance, PTL DEF LanesAgree

(* A waiter always has somebody in front of it who will let it in.         *)
THEOREM NoWakeupLost == Spec => []NoLostWakeup
<1>1. Inv => NoLostWakeup
  BY DEF Inv, LaneOK, NoLostWakeup
<1>2. QED
  BY <1>1, Invariance, PTL

(* A lane never holds more calls than the widest of its widths.            *)
THEOREM WidthBounded == Spec => []WidthBound
<1>1. Inv => WidthBound
  BY DEF Inv, LaneOK, WidthBound
<1>2. QED
  BY <1>1, Invariance, PTL

-----------------------------------------------------------------------------
(* Whoever admit() gives a slot was in the queue, everybody before it has  *)
(* a slot too, and the lane is within its width.                           *)
LEMMA AdmitLets ==
    ASSUME TypeOK, NEW k \in Keys, NEW a \in Nat, NEW q \in Seq(Ops),
           NEW ph, Admit(k, a, q, ph),
           NEW o \in Ops, ph[o] \notin Holding, phase'[o] \in Holding
    PROVE  /\ active'[k] <= Width(k)
           /\ \E i \in 1..Len(q) :
                 q[i] = o /\ \A j \in 1..i : phase'[q[j]] \in Holding
<1> DEFINE n == LetIn(k, a, q)
<1>1. n \in 0..Len(q)
  BY LetInBounds
<1>2. active'[k] = a + n
  BY DEF Admit, Counted, TypeOK
<1>3. phase' = [x \in Ops |-> IF \E i \in 1..n : q[i] = x
                              THEN "admitted" ELSE ph[x]]
  BY DEF Admit
<1>4. \E i \in 1..n : q[i] = o
  BY <1>3
<1>5. PICK i \in 1..n : q[i] = o
  BY <1>4
<1>6. i \in 1..Len(q) /\ n > 0
  BY <1>1
<1>7. \A j \in 1..i : phase'[q[j]] \in Holding
  <2>1. ASSUME NEW j \in 1..i PROVE phase'[q[j]] = "admitted"
    <3>1. j \in 1..n /\ j \in 1..Len(q) /\ q[j] \in Ops
      BY <1>1
    <3>2. QED
      BY <1>3, <3>1
  <2>2. QED
    BY <2>1 DEF Holding
<1>8. a + n <= Width(k)
  BY <1>6, LetInBounds
<1>9. QED
  BY <1>2, <1>5, <1>6, <1>7, <1>8

(* A slot is given by admit() to one of a queue, or to an arrival that     *)
(* finds room and no queue.  In both cases the lane is within its width,   *)
(* and everybody who was in the queue before has a slot by then.           *)
GivenInTurn(o) ==
    LET k == KeyOf[o] IN
    /\ active'[k] <= Width(k)
    /\ \/ queue[k] = <<>>
       \/ \E i \in 1..Len(queue[k]) :
             queue[k][i] = o /\ \A j \in 1..i : phase'[queue[k][j]] \in Holding
       \/ \A j \in 1..Len(queue[k]) : phase'[queue[k][j]] \in Holding

LEMMA FreeInTurn ==
    ASSUME Inv, NEW o \in Ops, NEW x \in Ops, ArriveFree(x), GetsSlot(o)
    PROVE  GivenInTurn(o)
<1>1. TypeOK /\ TakeSlot(x) /\ KeyOf[x] \in Keys
  BY OpsAssumption DEF Inv, ArriveFree
<1>2. PICK p \in {"sleeping", "running"} : phase' = [phase EXCEPT ![x] = p]
  BY <1>1, TakeSlotKeeps
<1>3. x = o
  BY <1>1, <1>2 DEF GetsSlot, TypeOK
<1>4. /\ active'[KeyOf[x]] = active[KeyOf[x]] + 1
      /\ active[KeyOf[x]] < Width(KeyOf[x]) /\ queue[KeyOf[x]] = <<>>
      /\ active[KeyOf[x]] \in Nat
  BY <1>1 DEF ArriveFree, HasRoom, TypeOK
<1>5. Width(KeyOf[x]) \in Nat
  BY <1>1, WidthType
<1>6. QED
  BY <1>3, <1>4, <1>5 DEF GivenInTurn

LEMMA BehindInTurn ==
    ASSUME Inv, NEW o \in Ops, NEW x \in Ops, ArriveBehind(x), GetsSlot(o)
    PROVE  GivenInTurn(o)
<1> DEFINE k  == KeyOf[x]
           ph == [phase EXCEPT ![x] = "queued"]
           q  == Append(queue[k], x)
<1>1. TypeOK /\ k \in Keys /\ active[k] \in Nat /\ queue[k] \in Seq(Ops)
  BY OpsAssumption DEF Inv, TypeOK
<1>2. q \in Seq(Ops) /\ Admit(k, active[k], q, ph)
  BY <1>1 DEF ArriveBehind
<1>3. ph[o] \notin Holding /\ phase'[o] \in Holding
  BY <1>1 DEF GetsSlot, TypeOK, Holding
<1>4. /\ Len(q) = Len(queue[k]) + 1 /\ q[Len(q)] = x
      /\ \A i \in 1..Len(queue[k]) : q[i] = queue[k][i]
  BY <1>1
<1> HIDE DEF ph, q
<1>5. /\ active'[k] <= Width(k)
      /\ \E i \in 1..Len(q) :
            q[i] = o /\ \A j \in 1..i : phase'[q[j]] \in Holding
  BY <1>1, <1>2, <1>3, AdmitLets
<1>6. PICK i \in 1..Len(q) :
            q[i] = o /\ \A j \in 1..i : phase'[q[j]] \in Holding
  BY <1>5
<1>7. CASE i \in 1..Len(queue[k])
  <2>1. queue[k][i] = o /\ KeyOf[o] = k
    BY <1>1, <1>4, <1>6, <1>7 DEF Inv, LaneOK, Enumerates, Waiters, WaitersIn
  <2>2. \A j \in 1..i : j \in 1..Len(queue[k])
    BY <1>1, <1>7
  <2>3. \A j \in 1..i : phase'[queue[k][j]] \in Holding
    BY <1>4, <1>6, <2>2
  <2>4. QED
    BY <1>5, <1>7, <2>1, <2>3 DEF GivenInTurn
<1>8. CASE i = Len(q)
  <2>1. o = x
    BY <1>4, <1>6, <1>8
  <2>2. \A j \in 1..Len(queue[k]) : j \in 1..i
    BY <1>1, <1>4, <1>8
  <2>3. \A j \in 1..Len(queue[k]) : phase'[queue[k][j]] \in Holding
    BY <1>4, <1>6, <2>2
  <2>4. QED
    BY <1>5, <2>1, <2>3 DEF GivenInTurn
<1>9. i \in 1..Len(queue[k]) \/ i = Len(q)
  BY <1>1, <1>4
<1>10. QED
  BY <1>7, <1>8, <1>9

LEMMA FinishInTurn ==
    ASSUME Inv, NEW o \in Ops, NEW x \in Ops, Finish(x), GetsSlot(o)
    PROVE  GivenInTurn(o)
<1> DEFINE k  == KeyOf[x]
           ph == [phase EXCEPT ![x] = "idle"]
<1>1. TypeOK /\ k \in Keys /\ active[k] \in Nat /\ queue[k] \in Seq(Ops)
  BY OpsAssumption DEF Inv, TypeOK
<1>2. active[k] - 1 \in Nat
  <2>1. x \in Holders(k) /\ active[k] = Cardinality(Holders(k))
    BY <1>1 DEF Finish, Inv, LaneOK, Holders, HoldersIn, Holding
  <2>2. active[k] # 0
    BY <1>1, <2>1, HoldersFinite DEF Holders
  <2>3. QED
    BY <1>1, <2>2
<1>3. Admit(k, active[k] - 1, queue[k], ph)
  BY DEF Finish
<1>4. ph[o] \notin Holding /\ phase'[o] \in Holding
  BY <1>1 DEF GetsSlot, TypeOK, Holding
<1> HIDE DEF ph
<1>5. /\ active'[k] <= Width(k)
      /\ \E i \in 1..Len(queue[k]) :
            queue[k][i] = o /\ \A j \in 1..i : phase'[queue[k][j]] \in Holding
  BY <1>1, <1>2, <1>3, <1>4, AdmitLets
<1>6. KeyOf[o] = k
  BY <1>1, <1>5 DEF Inv, LaneOK, Enumerates, Waiters, WaitersIn
<1>7. QED
  BY <1>5, <1>6 DEF GivenInTurn

LEMMA SlotGiven ==
    ASSUME Inv, [Next]_vars, NEW o \in Ops, GetsSlot(o)
    PROVE  GivenInTurn(o)
<1>1. TypeOK
  BY DEF Inv
<1>2. ASSUME NEW x \in Ops, GoOn(x) PROVE FALSE
  <2>1. PICK p \in {"sleeping", "running"} : phase' = [phase EXCEPT ![x] = p]
    BY <1>1, <1>2, TakeSlotKeeps DEF GoOn
  <2>2. QED
    BY <1>1, <1>2, <2>1 DEF GoOn, GetsSlot, TypeOK, Holding
<1>3. ASSUME NEW x \in Ops, Wake(x) PROVE FALSE
  BY <1>1, <1>3 DEF Wake, GetsSlot, TypeOK, Holding
<1>4. ~ Tick /\ ~ UNCHANGED vars /\ \A k \in Keys, l \in Levels : ~ SetLevel(k, l)
  BY DEF GetsSlot, Tick, SetLevel, vars
<1>5. QED
  BY <1>2, <1>3, <1>4, FreeInTurn, BehindInTurn, FinishInTurn DEF Next

(* Whoever gets a slot gets it within the width asked for at that moment:  *)
(* a lane that was narrowed drains before it admits again.                 *)
THEOREM AdmissionUnderWidth == Spec => AdmittedUnderWidth
<1> DEFINE Step == \A o \in Ops : GetsSlot(o) =>
                     Cardinality(Holders(KeyOf[o])') <= Width(KeyOf[o])
<1>1. ASSUME Inv, Inv', [Next]_vars, NEW o \in Ops, GetsSlot(o)
      PROVE  Cardinality(Holders(KeyOf[o])') <= Width(KeyOf[o])
  <2>1. active'[KeyOf[o]] = Cardinality(Holders(KeyOf[o])')
    BY <1>1, OpsAssumption DEF Inv, LaneOK
  <2>2. QED
    BY <1>1, <2>1, SlotGiven DEF GivenInTurn
<1>2. Inv /\ Inv' /\ [Next]_vars => [Step]_vars
  BY <1>1
<1>3. QED
  BY <1>2, Invariance, PTL DEF Spec, AdmittedUnderWidth

(* First come, first served: whoever was in the queue before a call that   *)
(* gets a slot has one by then.                                            *)
THEOREM AdmissionInOrder == Spec => FirstComeFirstServed
<1> DEFINE Ahead(o) == LET q == queue[KeyOf[o]] IN
              {q[j] : j \in {i \in 1..Len(q) : \A h \in 1..i : q[h] # o}}
           Step == \A o \in Ops : GetsSlot(o) =>
                     \A p \in Ahead(o) : phase'[p] \in Holding
<1>1. ASSUME Inv, [Next]_vars, NEW o \in Ops, GetsSlot(o), NEW p \in Ahead(o)
      PROVE  phase'[p] \in Holding
  <2> DEFINE q == queue[KeyOf[o]]
  <2>1. PICK j \in 1..Len(q) : q[j] = p /\ \A h \in 1..j : q[h] # o
    BY <1>1
  <2>2. GivenInTurn(o)
    BY <1>1, SlotGiven
  <2>3. CASE q = <<>>
    BY <2>1, <2>3
  <2>4. ASSUME NEW i \in 1..Len(q), q[i] = o,
               \A h \in 1..i : phase'[q[h]] \in Holding
        PROVE  phase'[p] \in Holding
    <3>1. j < i
      BY <2>1, <2>4
    <3>2. j \in 1..i
      BY <3>1
    <3>3. QED
      BY <2>1, <2>4, <3>2
  <2>5. CASE \A h \in 1..Len(q) : phase'[q[h]] \in Holding
    BY <2>1, <2>5
  <2>6. QED
    BY <2>2, <2>3, <2>4, <2>5 DEF GivenInTurn
<1>2. Inv /\ [Next]_vars => [Step]_vars
  BY <1>1
<1>3. QED
  BY <1>2, Invariance, PTL DEF Spec, FirstComeFirstServed

-----------------------------------------------------------------------------
(* Pace *)

(* The least and the greatest of a set that has one.                       *)
LEMMA LeastIs ==
    ASSUME NEW S \in SUBSET Nat, S # {}
    PROVE  Least(S) \in S /\ \A y \in S : Least(S) <= y
<1> DEFINE R == {ss \in Nat \X Nat : ss[1] < ss[2]}
<1>1. IsWellFoundedOn(R, Nat)
  <2>1. OpToRel(<, Nat) = R
    BY DEF OpToRel
  <2>2. QED
    BY <2>1, NatLessThanWellFounded
<1>2. \E x \in S : \A y \in S : ~ (<<y, x>> \in R)
  <2> HIDE DEF R
  <2> QED
    BY <1>1, WFMin
<1>3. \A x, y \in Nat : y < x => <<y, x>> \in R
  OBVIOUS
<1>4. \E x \in S : \A y \in S : x <= y
  <2> HIDE DEF R
  <2>1. PICK x \in S : \A y \in S : <<y, x>> \notin R
    BY <1>2
  <2>2. \A y \in S : ~ (y < x)
    BY <1>3, <2>1
  <2>3. \A y \in S : x <= y
    BY <2>2
  <2>4. QED
    BY <2>3
<1>5. QED
  BY <1>4 DEF Least

LEMMA GreatestIs ==
    ASSUME NEW S \in SUBSET Nat, S # {}, NEW n \in Nat, \A y \in S : y <= n
    PROVE  Greatest(S) \in S /\ \A y \in S : y <= Greatest(S)
<1> DEFINE above == {x \in Nat : \A y \in S : y <= x}
<1>1. PICK m \in above : \A y \in above : m <= y
  <2>1. n \in above
    OBVIOUS
  <2>2. above \in SUBSET Nat /\ above # {}
    BY <2>1
  <2>3. QED
    BY <2>2, LeastIs
<1>2. m \in S
  <2> SUFFICES ASSUME m \notin S PROVE FALSE
    OBVIOUS
  <2>1. m \in Nat /\ \A y \in S : y <= m - 1
    BY <1>1
  <2>2. m >= 1 /\ m - 1 \in above
    <3>1. PICK y \in S : TRUE
      OBVIOUS
    <3>2. y \in Nat /\ y <= m - 1
      BY <2>1, <3>1
    <3>3. m - 1 \in Nat
      BY <2>1, <3>2
    <3>4. QED
      BY <2>1, <3>3
  <2>3. QED
    BY <1>1, <2>1, <2>2
<1>3. \E x \in S : \A y \in S : x >= y
  BY <1>1, <1>2
<1>4. QED
  BY <1>3 DEF Greatest

LEMMA GreatestOfTwo ==
    ASSUME NEW x \in Nat, NEW y \in Nat
    PROVE  Greatest({x, y}) = IF x >= y THEN x ELSE y
<1>1. Greatest({x, y}) \in {x, y} /\ \A z \in {x, y} : z <= Greatest({x, y})
  BY GreatestIs, x + y \in Nat, x <= x + y, y <= x + y
<1>2. QED
  BY <1>1

-----------------------------------------------------------------------------
(* What joined() answers: groups in one component have one key, which is   *)
(* itself in the component, and learning more servers only joins more.     *)
Wired(sv) == sv \in [Groups -> SUBSET Servers]

LEMMA ComponentClosed ==
    ASSUME NEW sv, NEW g \in Groups
    PROVE  /\ Component(sv, g) \in SUBSET Groups
           /\ g \in Component(sv, g)
           /\ Closed(sv, Component(sv, g))
<1>1. Component(sv, g) \in SUBSET Groups /\ g \in Component(sv, g)
  BY DEF Component
<1>2. ASSUME NEW x \in Component(sv, g), NEW y \in Groups, Shares(sv, x, y)
      PROVE  y \in Component(sv, g)
  <2>1. ASSUME NEW C \in SUBSET Groups, g \in C, Closed(sv, C) PROVE y \in C
    <3>1. x \in C
      BY <2>1 DEF Component
    <3>2. QED
      BY <1>2, <2>1, <3>1 DEF Closed
  <2>2. QED
    BY <2>1 DEF Component
<1>3. QED
  BY <1>1, <1>2 DEF Closed

LEMMA ComponentLeast ==
    ASSUME NEW sv, NEW g \in Groups, NEW C \in SUBSET Groups, g \in C, Closed(sv, C)
    PROVE  Component(sv, g) \subseteq C
  BY DEF Component

LEMMA ComponentSymmetric ==
    ASSUME NEW sv, NEW g \in Groups, NEW h \in Component(sv, g)
    PROVE  h \in Groups /\ g \in Component(sv, h)
<1>1. h \in Groups
  BY ComponentClosed
<1> DEFINE others == Groups \ Component(sv, h)
<1>2. Closed(sv, others)
  <2>1. ASSUME NEW x \in others, NEW y \in Groups, Shares(sv, x, y) PROVE y \in others
    <3>1. Shares(sv, y, x)
      BY <2>1 DEF Shares
    <3>2. Closed(sv, Component(sv, h))
      BY <1>1, ComponentClosed
    <3>3. QED
      BY <2>1, <3>1, <3>2 DEF Closed
  <2>2. QED
    BY <2>1 DEF Closed
<1>3. h \in Component(sv, h)
  BY <1>1, ComponentClosed
<1>4. QED
  BY <1>1, <1>2, <1>3, ComponentLeast

LEMMA ComponentSame ==
    ASSUME NEW sv, NEW g \in Groups, NEW h \in Component(sv, g)
    PROVE  Component(sv, h) = Component(sv, g)
<1>1. h \in Groups /\ g \in Component(sv, h)
  BY ComponentSymmetric
<1>2. Component(sv, h) \subseteq Component(sv, g)
  BY <1>1, ComponentClosed, ComponentLeast
<1>3. Component(sv, g) \subseteq Component(sv, h)
  BY <1>1, ComponentClosed, ComponentLeast
<1>4. QED
  BY <1>2, <1>3

LEMMA KeyInComponent ==
    ASSUME NEW sv, NEW g \in Groups
    PROVE  /\ joined(sv)[g] \in Component(sv, g)
           /\ joined(sv)[g] \in Groups
           /\ \A h \in Component(sv, g) : joined(sv)[h] = joined(sv)[g]
<1>1. Component(sv, g) \in SUBSET Groups /\ g \in Component(sv, g)
  BY ComponentClosed
<1>2. Component(sv, g) \in SUBSET Nat /\ Component(sv, g) # {}
  BY <1>1, GroupsAssumption
<1>3. Least(Component(sv, g)) \in Component(sv, g)
  BY <1>2, LeastIs
<1>4. ASSUME NEW h \in Component(sv, g) PROVE joined(sv)[h] = joined(sv)[g]
  BY <1>1, ComponentSame DEF joined
<1>5. QED
  BY <1>1, <1>3, <1>4 DEF joined

LEMMA JoinedType ==
    ASSUME NEW sv
    PROVE  joined(sv) \in [Groups -> Groups]
  BY KeyInComponent DEF joined

(* The key a group shares is a group that keeps its own key.               *)
LEMMA KeyOfKey ==
    ASSUME NEW sv, NEW g \in Groups
    PROVE  joined(sv)[joined(sv)[g]] = joined(sv)[g]
  BY KeyInComponent

LEMMA OneServerJoins ==
    ASSUME NEW sv, NEW g \in Groups, NEW h \in Groups, Shares(sv, g, h)
    PROVE  joined(sv)[g] = joined(sv)[h]
<1>1. h \in Component(sv, g)
  BY ComponentClosed DEF Closed
<1>2. QED
  BY <1>1, KeyInComponent

(* Whoever shared a key still does once more servers are known.            *)
LEMMA MoreServers ==
    ASSUME NEW sv, NEW tv, \A g \in Groups : sv[g] \subseteq tv[g],
           NEW g \in Groups
    PROVE  joined(tv)[joined(sv)[g]] = joined(tv)[g]
<1>1. Closed(sv, Component(tv, g))
  <2>1. Closed(tv, Component(tv, g)) /\ Component(tv, g) \in SUBSET Groups
    BY ComponentClosed
  <2>2. \A x, y \in Groups : Shares(sv, x, y) => Shares(tv, x, y)
    BY DEF Shares
  <2>3. QED
    BY <2>1, <2>2 DEF Closed
<1>2. Component(sv, g) \subseteq Component(tv, g)
  BY <1>1, ComponentClosed, ComponentLeast
<1>3. joined(sv)[g] \in Component(tv, g)
  BY <1>2, KeyInComponent
<1>4. QED
  BY <1>3, KeyInComponent

-----------------------------------------------------------------------------
(* One level: what each change of it leaves it.                            *)
LEMMA NoPaceType == NoPace \in PaceType
<1>1. AgeCap \in Nat
  BY BoundsAssumption DEF AgeCap
<1>2. QED
  BY <1>1, BoundsAssumption DEF NoPace, PaceType

LEMMA PaceChanged ==
    ASSUME NEW p \in PaceType, NEW l \in 0..PACE_MAX_LEVEL, NEW a \in 0..AgeCap
    PROVE  [p EXCEPT !.level = l, !.age = a, !.run = 0] \in PaceType
<1>1. 0 \in 0..PACE_STEADY_RUN
  BY BoundsAssumption
<1>2. QED
  BY <1>1 DEF PaceType

LEMMA DecayedType ==
    ASSUME NEW p \in PaceType
    PROVE  /\ Decayed(p) \in PaceType
           /\ p.age < PACE_IDLE_MS => Decayed(p) = p
           /\ p.level = 0 => Decayed(p) = p
<1> DEFINE steps == p.age \div PACE_IDLE_MS
           taken == steps * PACE_IDLE_MS
<1>1. PACE_IDLE_MS \in Nat /\ PACE_IDLE_MS > 0
  BY BoundsAssumption, HoldAssumption
<1>2. p.age \in Nat /\ p.level \in 0..PACE_MAX_LEVEL /\ AgeCap \in Nat /\ p.age <= AgeCap
  BY BoundsAssumption DEF PaceType, AgeCap
<1>3. steps \in Nat /\ taken \in Nat /\ taken <= p.age
  BY <1>1, <1>2
<1>4. p.age < PACE_IDLE_MS => steps = 0
  BY <1>1, <1>2
<1> HIDE DEF steps, taken
<1>5. Decayed(p) = IF steps = 0 \/ p.level = 0 THEN p
                   ELSE IF p.level <= steps THEN NoPace
                   ELSE [p EXCEPT !.level = @ - steps, !.age = @ - taken, !.run = 0]
  BY DEF Decayed, steps, taken
<1>6. CASE steps = 0 \/ p.level = 0
  BY <1>4, <1>5, <1>6
<1>7. CASE ~(steps = 0 \/ p.level = 0) /\ p.level <= steps
  BY <1>4, <1>5, <1>7, NoPaceType
<1>8. CASE ~(steps = 0 \/ p.level = 0) /\ p.level > steps
  <2>1. p.level - steps \in 0..PACE_MAX_LEVEL /\ p.age - taken \in 0..AgeCap
    BY <1>2, <1>3, <1>8, BoundsAssumption
  <2>2. Decayed(p) = [p EXCEPT !.level = @ - steps, !.age = @ - taken, !.run = 0]
    BY <1>2, <1>3, <1>5, <1>8, BoundsAssumption
  <2>3. [p EXCEPT !.level = @ - steps, !.age = @ - taken, !.run = 0] \in PaceType
    BY <2>1, PaceChanged
  <2>4. QED
    BY <1>4, <1>8, <2>2, <2>3
<1>9. QED
  BY <1>2, <1>3, <1>6, <1>7, <1>8, BoundsAssumption

LEMMA RaisedType ==
    ASSUME NEW p \in PaceType, NEW r \in Rests
    PROVE  /\ Raised(p, r) \in PaceType
           /\ Raised(p, r).level > 0
           /\ Raised(p, r).age = 0 /\ Raised(p, r).hitAge = 0
           /\ Raised(p, r).rest >= p.rest /\ Raised(p, r).rest >= r
<1>1. p.rest \in Nat /\ r \in Nat /\ p.rest <= PACE_HOLD_MS /\ r <= PACE_HOLD_MS
  BY BoundsAssumption, RestsAssumption DEF PaceType
<1>2. Greatest({p.rest, r}) = IF p.rest >= r THEN p.rest ELSE r
  BY <1>1, GreatestOfTwo
<1>3. AtMost(PACE_MAX_LEVEL, p.level + 1) \in 1..PACE_MAX_LEVEL
  BY BoundsAssumption DEF PaceType, AtMost
<1>4. AgeCap \in Nat
  BY BoundsAssumption DEF AgeCap
<1>5. QED
  BY <1>1, <1>2, <1>3, <1>4, BoundsAssumption DEF Raised, PaceType

LEMMA EasedType ==
    ASSUME NEW p \in PaceType
    PROVE  /\ Eased(p) \in PaceType
           /\ p.age < PACE_HOLD_MS =>
                 /\ Eased(p).level = p.level /\ Eased(p).age = p.age
                 /\ Eased(p).hitAge = p.hitAge /\ Eased(p).rest = p.rest
<1> DEFINE q == [p EXCEPT !.run = AtMost(PACE_STEADY_RUN, @ + 1)]
<1>1. q \in PaceType /\ q.level = p.level /\ q.age = p.age /\ q.hitAge = p.hitAge /\ q.rest = p.rest
  BY BoundsAssumption DEF PaceType, AtMost
<1>2. ASSUME ~(q.level <= 1) PROVE [q EXCEPT !.level = @ - 1, !.age = 0, !.run = 0] \in PaceType
  <2>1. q.level - 1 \in 0..PACE_MAX_LEVEL /\ 0 \in 0..AgeCap
    BY <1>1, <1>2, BoundsAssumption DEF PaceType, AgeCap
  <2> HIDE DEF q
  <2>2. QED
    BY <1>1, <2>1, PaceChanged
<1>3. Eased(p) = IF p.level = 0 THEN p
                 ELSE IF ~Steady(q) \/ ~Held(q) THEN q
                 ELSE IF q.level <= 1 THEN NoPace
                 ELSE [q EXCEPT !.level = @ - 1, !.age = 0, !.run = 0]
  BY DEF Eased
<1> HIDE DEF q
<1>4. Eased(p) \in PaceType
  BY <1>1, <1>2, <1>3, NoPaceType
<1>5. ASSUME p.age < PACE_HOLD_MS PROVE ~Held(q)
  BY <1>1, <1>5, BoundsAssumption DEF PaceType, AgeCap, Held
<1>6. QED
  BY <1>1, <1>3, <1>4, <1>5

LEMMA OlderType ==
    ASSUME NEW p \in PaceType
    PROVE  /\ Older(p) \in PaceType
           /\ Older(p).level = p.level
           /\ Older(p).age <= p.age + 1 /\ Older(p).hitAge <= p.hitAge + 1
           /\ Older(p).rest = OneLess(p.rest)
<1>1. AgeCap \in Nat
  BY BoundsAssumption DEF AgeCap
<1> DEFINE age == IF p.level = 0 THEN 0 ELSE AtMost(AgeCap, p.age + 1)
           hitAge == AtMost(PACE_HOLD_MS, p.hitAge + 1)
           restAfter == IF p.rest > 0 THEN p.rest - 1 ELSE 0
<1>2. Older(p) = [p EXCEPT !.age = age, !.hitAge = hitAge, !.rest = restAfter]
  BY DEF Older
<1>3. /\ p.level \in 0..PACE_MAX_LEVEL /\ p.age \in 0..AgeCap /\ p.hitAge \in 0..PACE_HOLD_MS
      /\ p.rest \in 0..PACE_HOLD_MS
  BY DEF PaceType
<1>4. /\ age \in 0..AgeCap /\ age <= p.age + 1
      /\ hitAge \in 0..PACE_HOLD_MS /\ hitAge <= p.hitAge + 1
      /\ restAfter \in 0..PACE_HOLD_MS /\ restAfter = OneLess(p.rest)
  BY <1>1, <1>3, BoundsAssumption DEF AtMost, OneLess
<1> HIDE DEF age, hitAge, restAfter
<1>5. QED
  BY <1>2, <1>4 DEF PaceType

LEMMA OlderNoPace == Older(NoPace) = NoPace
<1>1. AtMost(PACE_HOLD_MS, PACE_HOLD_MS + 1) = PACE_HOLD_MS
  BY BoundsAssumption DEF AtMost
<1>2. /\ NoPace.level = 0 /\ NoPace.age = 0 /\ NoPace.hitAge = PACE_HOLD_MS /\ NoPace.rest = 0
      /\ ~ (NoPace.rest > 0)
  BY DEF NoPace
<1>3. Older(NoPace) = [NoPace EXCEPT !.age = 0, !.hitAge = PACE_HOLD_MS, !.rest = 0]
  BY <1>1, <1>2 DEF Older
<1>4. Older(NoPace).run = NoPace.run
  BY <1>3, NoPaceType DEF PaceType
<1>5. /\ Older(NoPace).level = NoPace.level /\ Older(NoPace).age = NoPace.age
      /\ Older(NoPace).hitAge = NoPace.hitAge /\ Older(NoPace).rest = NoPace.rest
  BY <1>2, <1>3, NoPaceType DEF PaceType
<1>6. Older(NoPace) \in PaceType
  BY NoPaceType, OlderType
<1>7. QED
  BY <1>4, <1>5, <1>6, NoPaceType DEF PaceType

(* Levels that meet: the slower of them, and the latest of their holds.    *)
LEMMA MergedType ==
    ASSUME NEW S \in SUBSET PaceType
    PROVE  /\ Merged(S) \in PaceType
           /\ \A p \in S : /\ Merged(S).level >= p.level
                            /\ Merged(S).age <= p.age
                            /\ Merged(S).hitAge <= p.hitAge
                            /\ Merged(S).rest >= p.rest
<1>1. CASE S = {}
  BY <1>1, NoPaceType DEF Merged
<1>2. CASE S # {}
  <2> DEFINE levels == {p.level : p \in S}
             ages == {p.age : p \in S}
             hits == {p.hitAge : p \in S}
             runs == {p.run : p \in S}
             rests == {p.rest : p \in S}
  <2>1. AgeCap \in Nat
    BY BoundsAssumption DEF AgeCap
  <2>2. /\ levels \in SUBSET (0..PACE_MAX_LEVEL) /\ levels # {}
        /\ ages \in SUBSET (0..AgeCap) /\ ages # {}
        /\ hits \in SUBSET (0..PACE_HOLD_MS) /\ hits # {}
        /\ runs \in SUBSET (0..PACE_STEADY_RUN) /\ runs # {}
        /\ rests \in SUBSET (0..PACE_HOLD_MS) /\ rests # {}
    BY <1>2 DEF PaceType
  <2>3. \A p \in S : /\ p.level \in levels /\ p.age \in ages /\ p.hitAge \in hits
                     /\ p.rest \in rests
    OBVIOUS
  <2>4. Merged(S) = [level |-> Greatest(levels), age |-> Least(ages), hitAge |-> Least(hits),
                     run |-> Least(runs), rest |-> Greatest(rests)]
    BY <1>2 DEF Merged
  <2> HIDE DEF levels, ages, hits, runs, rests
  <2>5. Greatest(levels) \in levels /\ \A y \in levels : y <= Greatest(levels)
    BY <2>2, BoundsAssumption, GreatestIs
  <2>6. Greatest(rests) \in rests /\ \A y \in rests : y <= Greatest(rests)
    BY <2>2, BoundsAssumption, GreatestIs
  <2>7. Least(ages) \in ages /\ \A y \in ages : Least(ages) <= y
    BY <2>1, <2>2, LeastIs
  <2>8. Least(hits) \in hits /\ \A y \in hits : Least(hits) <= y
    BY <2>2, BoundsAssumption, LeastIs
  <2>9. Least(runs) \in runs
    BY <2>2, BoundsAssumption, LeastIs
  <2>10. Merged(S) \in PaceType
    <3>1. /\ Greatest(levels) \in 0..PACE_MAX_LEVEL /\ Least(ages) \in 0..AgeCap
          /\ Least(hits) \in 0..PACE_HOLD_MS /\ Least(runs) \in 0..PACE_STEADY_RUN
          /\ Greatest(rests) \in 0..PACE_HOLD_MS
      BY <2>2, <2>5, <2>6, <2>7, <2>8, <2>9
    <3>2. QED
      BY <2>4, <3>1 DEF PaceType
  <2>11. ASSUME NEW p \in S
         PROVE  /\ Merged(S).level >= p.level /\ Merged(S).age <= p.age
                /\ Merged(S).hitAge <= p.hitAge /\ Merged(S).rest >= p.rest
    <3>1. /\ Merged(S).level = Greatest(levels) /\ Merged(S).age = Least(ages)
          /\ Merged(S).hitAge = Least(hits) /\ Merged(S).rest = Greatest(rests)
      BY <2>4
    <3>2. /\ p.level <= Greatest(levels) /\ Least(ages) <= p.age
          /\ Least(hits) <= p.hitAge /\ p.rest <= Greatest(rests)
      BY <2>3, <2>5, <2>6, <2>7, <2>8
    <3>3. /\ p.level \in Int /\ Greatest(levels) \in Int /\ p.rest \in Int
          /\ Greatest(rests) \in Int
      <4>1. Greatest(levels) \in 0..PACE_MAX_LEVEL /\ Greatest(rests) \in 0..PACE_HOLD_MS
        BY <2>2, <2>5, <2>6
      <4>2. p \in PaceType
        OBVIOUS
      <4>3. QED
        BY <4>1, <4>2 DEF PaceType
    <3>4. QED
      BY <3>1, <3>2, <3>3
  <2>12. QED
    BY <2>10, <2>11
<1>3. QED
  BY <1>1, <1>2

-----------------------------------------------------------------------------
(* The inductive invariant.  The keys are what joined() answers for the    *)
(* servers known; and while a 429 of one of its groups counts, a key keeps *)
(* a level, changed no longer ago than that 429, and the rest it asked     *)
(* for.                                                                    *)
JoinsKnown == joins = joined(servers)
RefusalStands ==
    \A h \in Groups : refused[h] > 0 =>
        LET p == paces[rateKeyOf(h)] IN
        /\ p.level > 0
        /\ p.age <= PACE_HOLD_MS - refused[h]
        /\ p.hitAge <= PACE_HOLD_MS - refused[h]
RestStands ==
    \A h \in Groups : owed[h] <= refused[h] /\ owed[h] <= paces[rateKeyOf(h)].rest

PaceInv == PaceTypeOK /\ JoinsKnown /\ OneKeyEach /\ RefusalStands /\ RestStands

LEMMA CurrentType ==
    ASSUME PaceTypeOK, NEW g \in Groups
    PROVE  rateKeyOf(g) \in Groups /\ current(rateKeyOf(g)) \in PaceType
<1>1. rateKeyOf(g) \in Groups
  BY DEF PaceTypeOK, rateKeyOf
<1>2. paces[rateKeyOf(g)] \in PaceType
  BY <1>1 DEF PaceTypeOK
<1>3. QED
  BY <1>1, <1>2, DecayedType DEF current

(* A level that a 429 holds is not decayed.                                *)
LEMMA HeldIsCurrent ==
    ASSUME PaceTypeOK, RefusalStands, NEW h \in Groups, refused[h] > 0
    PROVE  current(rateKeyOf(h)) = paces[rateKeyOf(h)]
<1>1. rateKeyOf(h) \in Groups
  BY DEF PaceTypeOK, rateKeyOf
<1>2. paces[rateKeyOf(h)] \in PaceType /\ refused[h] \in 0..PACE_HOLD_MS
  BY <1>1 DEF PaceTypeOK
<1>3. paces[rateKeyOf(h)].age <= PACE_HOLD_MS - refused[h]
  BY DEF RefusalStands
<1>4. paces[rateKeyOf(h)].age < PACE_IDLE_MS
  BY <1>2, <1>3, BoundsAssumption, HoldAssumption DEF PaceType, AgeCap
<1>5. QED
  BY <1>2, <1>4, DecayedType DEF current

LEMMA PaceInitInv == PaceInit => PaceInv
<1> SUFFICES ASSUME PaceInit PROVE PaceInv
  OBVIOUS
<1>1. PaceTypeOK
  BY NoPaceType, BoundsAssumption DEF PaceInit, PaceTypeOK
<1>2. JoinsKnown
  <2>1. ASSUME NEW g \in Groups PROVE joined(servers)[g] = g
    <3>1. Closed(servers, {g})
      BY DEF PaceInit, Closed, Shares
    <3>2. Component(servers, g) \subseteq {g}
      BY <3>1, ComponentLeast
    <3>3. QED
      BY <3>2, KeyInComponent
  <2>2. joined(servers) = [g \in Groups |-> joined(servers)[g]]
    BY DEF joined
  <2>3. QED
    BY <2>1, <2>2 DEF PaceInit, JoinsKnown
<1>3. OneKeyEach
  BY DEF PaceInit, OneKeyEach
<1>4. RefusalStands
  BY DEF PaceInit, RefusalStands
<1>5. RestStands
  BY DEF PaceInit, RestStands, rateKeyOf, NoPace
<1>6. QED
  BY <1>1, <1>2, <1>3, <1>4, <1>5 DEF PaceInv

-----------------------------------------------------------------------------
(* What a step does to one key disturbs nothing of the others.             *)
LEMMA OneKeyChanges ==
    ASSUME PaceInv, NEW g \in Groups, NEW q \in PaceType,
           paces' = [paces EXCEPT ![rateKeyOf(g)] = q], UNCHANGED <<servers, joins>>
    PROVE  /\ paces' \in [Groups -> PaceType]
           /\ JoinsKnown' /\ OneKeyEach'
           /\ rateKeyOf(g) \in Groups
           /\ \A h \in Groups :
                 /\ rateKeyOf(h)' = rateKeyOf(h) /\ rateKeyOf(h) \in Groups
                 /\ paces'[rateKeyOf(h)] = IF rateKeyOf(h) = rateKeyOf(g) THEN q
                                            ELSE paces[rateKeyOf(h)]
<1> USE DEF PaceInv
<1>1. \A h \in Groups : rateKeyOf(h) \in Groups /\ rateKeyOf(h)' = rateKeyOf(h)
  BY DEF PaceTypeOK, rateKeyOf
<1>2. paces' \in [Groups -> PaceType]
  BY <1>1 DEF PaceTypeOK
<1>3. \A h \in Groups : paces'[rateKeyOf(h)] = IF rateKeyOf(h) = rateKeyOf(g) THEN q
                                                ELSE paces[rateKeyOf(h)]
  BY <1>1 DEF PaceTypeOK
<1>4. JoinsKnown'
  BY DEF JoinsKnown
<1>5. OneKeyEach'
  <2> SUFFICES ASSUME NEW h \in Groups, joins[h] # h PROVE paces'[h] = NoPace
    BY DEF OneKeyEach
  <2>1. joins[rateKeyOf(g)] = rateKeyOf(g)
    BY KeyOfKey DEF JoinsKnown, rateKeyOf
  <2>2. paces[h] = NoPace
    BY DEF OneKeyEach
  <2>3. QED
    BY <2>1, <2>2 DEF PaceTypeOK
<1>6. QED
  BY <1>1, <1>2, <1>3, <1>4, <1>5

(* A reader, or a chapter that came down whole, leaves a level alone while *)
(* a 429 to its key counts.                                                *)
LEMMA QuietKeeps ==
    ASSUME PaceInv, NEW g \in Groups, NEW q \in PaceType,
           paces' = [paces EXCEPT ![rateKeyOf(g)] = q],
           UNCHANGED <<servers, joins, refused, owed>>,
           \A h \in Groups : rateKeyOf(h) = rateKeyOf(g) /\ refused[h] > 0 =>
              LET p == paces[rateKeyOf(g)] IN
              q.level = p.level /\ q.age = p.age /\ q.hitAge = p.hitAge /\ q.rest = p.rest
    PROVE  PaceInv'
<1>1. /\ paces' \in [Groups -> PaceType]
      /\ JoinsKnown' /\ OneKeyEach'
      /\ \A h \in Groups :
            /\ rateKeyOf(h)' = rateKeyOf(h) /\ rateKeyOf(h) \in Groups
            /\ paces'[rateKeyOf(h)] = IF rateKeyOf(h) = rateKeyOf(g) THEN q
                                       ELSE paces[rateKeyOf(h)]
  BY OneKeyChanges
<1> USE DEF PaceInv
<1>2. PaceTypeOK'
  BY <1>1 DEF PaceTypeOK
<1>3. RefusalStands'
  <2> SUFFICES ASSUME NEW h \in Groups, refused[h] > 0
               PROVE  LET p == paces'[rateKeyOf(h)] IN
                      /\ p.level > 0
                      /\ p.age <= PACE_HOLD_MS - refused[h]
                      /\ p.hitAge <= PACE_HOLD_MS - refused[h]
    BY <1>1 DEF RefusalStands
  <2>1. /\ paces[rateKeyOf(h)].level > 0
        /\ paces[rateKeyOf(h)].age <= PACE_HOLD_MS - refused[h]
        /\ paces[rateKeyOf(h)].hitAge <= PACE_HOLD_MS - refused[h]
    BY DEF RefusalStands
  <2>2. QED
    BY <1>1, <2>1
<1>4. RestStands'
  <2> SUFFICES ASSUME NEW h \in Groups
               PROVE  owed[h] <= refused[h] /\ owed[h] <= paces'[rateKeyOf(h)].rest
    BY <1>1 DEF RestStands
  <2>1. /\ owed[h] <= refused[h] /\ owed[h] <= paces[rateKeyOf(h)].rest
        /\ owed[h] \in Nat /\ refused[h] \in Nat
    BY BoundsAssumption DEF RestStands, PaceTypeOK
  <2>2. CASE rateKeyOf(h) = rateKeyOf(g) /\ refused[h] = 0
    <3>1. owed[h] = 0 /\ q.rest >= 0
      BY <2>1, <2>2 DEF PaceType
    <3>2. QED
      BY <1>1, <2>1, <2>2, <3>1
  <2>3. CASE rateKeyOf(h) = rateKeyOf(g) /\ refused[h] > 0
    BY <1>1, <2>1, <2>3
  <2>4. CASE rateKeyOf(h) # rateKeyOf(g)
    BY <1>1, <2>1, <2>4
  <2>5. QED
    BY <2>1, <2>2, <2>3, <2>4
<1>5. QED
  BY <1>1, <1>2, <1>3, <1>4

LEMMA ReadKeeps ==
    ASSUME PaceInv, NEW g \in Groups, Read(g)
    PROVE  PaceInv'
<1>1. current(rateKeyOf(g)) \in PaceType
  BY CurrentType DEF PaceInv
<1>2. ASSUME NEW h \in Groups, rateKeyOf(h) = rateKeyOf(g), refused[h] > 0
      PROVE  current(rateKeyOf(g)) = paces[rateKeyOf(g)]
  BY <1>2, HeldIsCurrent DEF PaceInv
<1>3. QED
  BY <1>1, <1>2, QuietKeeps DEF Read

LEMMA DownloadedKeeps ==
    ASSUME PaceInv, NEW g \in Groups, noteDownloaded(g)
    PROVE  PaceInv'
<1> DEFINE q == Eased(current(rateKeyOf(g)))
<1>1. current(rateKeyOf(g)) \in PaceType /\ q \in PaceType
  BY CurrentType, EasedType DEF PaceInv
<1>2. ASSUME NEW h \in Groups, rateKeyOf(h) = rateKeyOf(g), refused[h] > 0
      PROVE  LET p == paces[rateKeyOf(g)] IN
             q.level = p.level /\ q.age = p.age /\ q.hitAge = p.hitAge /\ q.rest = p.rest
  <2>1. current(rateKeyOf(g)) = paces[rateKeyOf(g)]
    BY <1>2, HeldIsCurrent DEF PaceInv
  <2>2. paces[rateKeyOf(g)].age < PACE_HOLD_MS
    <3>1. paces[rateKeyOf(g)].age <= PACE_HOLD_MS - refused[h]
      BY <1>2 DEF PaceInv, RefusalStands
    <3>2. paces[rateKeyOf(g)].age \in Int /\ refused[h] \in Int
      BY <1>1, <2>1, BoundsAssumption DEF PaceInv, PaceTypeOK, PaceType, AgeCap
    <3>3. QED
      BY <1>2, <3>1, <3>2, BoundsAssumption
  <2>3. QED
    BY <1>1, <2>1, <2>2, EasedType
<1>3. QED
  <2> HIDE DEF q
  <2>1. paces' = [paces EXCEPT ![rateKeyOf(g)] = q] /\ UNCHANGED <<servers, joins, refused, owed>>
    BY DEF noteDownloaded, q
  <2>2. QED
    BY <1>1, <1>2, <2>1, QuietKeeps

(* A 429 raises the level of the key, and resets what is counted from it.  *)
LEMMA RateLimitedKeeps ==
    ASSUME PaceInv, NEW g \in Groups, NEW r \in Rests, noteRateLimited(g, r)
    PROVE  PaceInv'
<1> DEFINE q == Raised(current(rateKeyOf(g)), r)
<1>1. current(rateKeyOf(g)) \in PaceType /\ q \in PaceType
  BY CurrentType, RaisedType DEF PaceInv
<1>2. q.level > 0 /\ q.age = 0 /\ q.hitAge = 0 /\ q.rest >= current(rateKeyOf(g)).rest /\ q.rest >= r
  BY <1>1, RaisedType
<1>3. paces' = [paces EXCEPT ![rateKeyOf(g)] = q] /\ UNCHANGED <<servers, joins>>
  BY DEF noteRateLimited
<1> HIDE DEF q
<1>4. /\ paces' \in [Groups -> PaceType]
      /\ JoinsKnown' /\ OneKeyEach'
      /\ \A h \in Groups :
            /\ rateKeyOf(h)' = rateKeyOf(h) /\ rateKeyOf(h) \in Groups
            /\ paces'[rateKeyOf(h)] = IF rateKeyOf(h) = rateKeyOf(g) THEN q
                                       ELSE paces[rateKeyOf(h)]
  BY <1>1, <1>3, OneKeyChanges
<1> USE DEF PaceInv
<1>5. r \in 0..PACE_HOLD_MS /\ owed[g] \in 0..PACE_HOLD_MS
  BY RestsAssumption DEF PaceTypeOK
<1>6. Greatest({owed[g], r}) = IF owed[g] >= r THEN owed[g] ELSE r
  BY <1>5, GreatestOfTwo, BoundsAssumption
<1>7. /\ refused' = [refused EXCEPT ![g] = PACE_HOLD_MS]
      /\ owed' = [owed EXCEPT ![g] = IF owed[g] >= r THEN owed[g] ELSE r]
  BY <1>6 DEF noteRateLimited
<1>8. PaceTypeOK'
  BY <1>3, <1>4, <1>5, <1>7, BoundsAssumption DEF PaceTypeOK
<1>9. ASSUME NEW h \in Groups
      PROVE  /\ refused'[h] = (IF h = g THEN PACE_HOLD_MS ELSE refused[h])
             /\ owed'[h] = (IF h = g THEN (IF owed[g] >= r THEN owed[g] ELSE r) ELSE owed[h])
             /\ refused[h] \in 0..PACE_HOLD_MS /\ owed[h] \in 0..PACE_HOLD_MS
             /\ refused'[h] \in 0..PACE_HOLD_MS
  BY <1>7, BoundsAssumption DEF PaceTypeOK
<1>10. RefusalStands'
  <2> SUFFICES ASSUME NEW h \in Groups, refused'[h] > 0
               PROVE  LET p == paces'[rateKeyOf(h)] IN
                      /\ p.level > 0
                      /\ p.age <= PACE_HOLD_MS - refused'[h]
                      /\ p.hitAge <= PACE_HOLD_MS - refused'[h]
    BY <1>4 DEF RefusalStands
  <2>1. CASE rateKeyOf(h) = rateKeyOf(g)
    BY <1>2, <1>4, <1>9, <2>1, BoundsAssumption
  <2>2. CASE rateKeyOf(h) # rateKeyOf(g)
    BY <1>4, <1>9, <2>2 DEF RefusalStands
  <2>3. QED
    BY <2>1, <2>2
<1>11. RestStands'
  <2> SUFFICES ASSUME NEW h \in Groups
               PROVE  owed'[h] <= refused'[h] /\ owed'[h] <= paces'[rateKeyOf(h)].rest
    BY <1>4 DEF RestStands
  <2>1. owed[h] <= refused[h] /\ owed[h] <= paces[rateKeyOf(h)].rest
    BY DEF RestStands
  <2>2. owed'[h] <= refused'[h]
    BY <1>5, <1>9, <2>1
  <2>3. CASE rateKeyOf(h) # rateKeyOf(g)
    BY <1>4, <1>9, <2>1, <2>3
  <2>4. CASE rateKeyOf(h) = rateKeyOf(g)
    <3>1. paces'[rateKeyOf(h)] = q /\ q.rest \in Int
      BY <1>1, <1>4, <2>4, BoundsAssumption DEF PaceType
    <3>2. owed[h] <= q.rest
      <4>1. CASE refused[h] > 0
        <5>1. current(rateKeyOf(g)) = paces[rateKeyOf(h)]
          BY <2>4, <4>1, HeldIsCurrent
        <5>2. paces[rateKeyOf(h)].rest \in Int
          BY <1>1, <5>1, BoundsAssumption DEF PaceType
        <5>3. QED
          BY <1>2, <1>9, <2>1, <3>1, <5>1, <5>2
      <4>2. CASE refused[h] = 0
        <5>1. q.rest >= 0
          BY <1>1 DEF PaceType
        <5>2. QED
          BY <1>9, <2>1, <4>2, <3>1, <5>1
      <4>3. QED
        BY <1>9, <4>1, <4>2
    <3>3. owed'[h] \in {owed[h], r}
      BY <1>9
    <3>4. r <= q.rest
      BY <1>2, <1>5, <3>1
    <3>5. QED
      BY <2>2, <2>4, <3>1, <3>2, <3>3, <3>4
  <2>5. QED
    BY <2>2, <2>3, <2>4
<1>12. QED
  BY <1>4, <1>8, <1>10, <1>11

-----------------------------------------------------------------------------
(* A page list that names new servers: whoever shared a key still does,    *)
(* and the level of its key goes into the merged one.                      *)
LEMMA PageHostsKeeps ==
    ASSUME PaceInv, NEW g \in Groups, NEW found \in SUBSET Servers, notePageHosts(g, found)
    PROVE  PaceInv'
<1> USE DEF PaceInv
<1>1. /\ servers' = [servers EXCEPT ![g] = @ \cup found]
      /\ joins' = joined(servers') /\ paces' = Moved(joins')
      /\ UNCHANGED <<refused, owed>>
  BY DEF notePageHosts
<1>2. JoinsKnown'
  BY <1>1 DEF JoinsKnown
<1>3. joins' \in [Groups -> Groups] /\ servers' \in [Groups -> SUBSET Servers]
  BY <1>1, JoinedType DEF PaceTypeOK
<1>4. \A h \in Groups : /\ joins'[joins[h]] = joins'[h] /\ joins'[joins'[h]] = joins'[h]
                         /\ joins[h] \in Groups /\ joins'[h] \in Groups
  <2>1. \A h \in Groups : servers[h] \subseteq servers'[h]
    BY <1>1 DEF PaceTypeOK
  <2>2. joins = joined(servers)
    BY DEF JoinsKnown
  <2>3. ASSUME NEW h \in Groups
        PROVE  /\ joined(servers')[joined(servers)[h]] = joined(servers')[h]
               /\ joined(servers')[joined(servers')[h]] = joined(servers')[h]
    BY <2>1, MoreServers, KeyOfKey
  <2>4. QED
    BY <1>1, <1>3, <2>2, <2>3 DEF PaceTypeOK
<1> DEFINE met(k) == {paces[x] : x \in {y \in Groups : joins'[y] = k /\ paces[y].level > 0}}
<1>5. ASSUME NEW k \in Groups
      PROVE  met(k) \in SUBSET PaceType /\ paces'[k] = Merged(met(k))
  BY <1>1 DEF Moved, PaceTypeOK
<1>6. \A k \in Groups : paces'[k] \in PaceType
  BY <1>5, MergedType
<1>7. PaceTypeOK'
  <2>1. paces' \in [Groups -> PaceType]
    BY <1>1, <1>6 DEF Moved
  <2>2. QED
    BY <1>1, <1>3, <2>1 DEF PaceTypeOK
<1>8. OneKeyEach'
  <2> SUFFICES ASSUME NEW k \in Groups, joins'[k] # k PROVE paces'[k] = NoPace
    BY DEF OneKeyEach
  <2>1. \A y \in Groups : joins'[y] # k
    BY <1>4
  <2>2. met(k) = {}
    BY <2>1
  <2>3. QED
    BY <1>5, <2>2 DEF Merged
<1>9. ASSUME NEW h \in Groups, refused[h] > 0
      PROVE  /\ paces'[joins'[h]].level >= paces[joins[h]].level
             /\ paces'[joins'[h]].age <= paces[joins[h]].age
             /\ paces'[joins'[h]].hitAge <= paces[joins[h]].hitAge
             /\ paces'[joins'[h]].rest >= paces[joins[h]].rest
  <2>1. paces[joins[h]].level > 0
    BY <1>9 DEF RefusalStands, rateKeyOf
  <2>2. paces[joins[h]] \in met(joins'[h])
    BY <1>4, <2>1
  <2>3. met(joins'[h]) \in SUBSET PaceType /\ paces'[joins'[h]] = Merged(met(joins'[h]))
    BY <1>4, <1>5
  <2> HIDE DEF met
  <2>4. QED
    BY <2>2, <2>3, MergedType
<1>10. ASSUME NEW h \in Groups
       PROVE  paces[joins[h]] \in PaceType /\ paces'[joins'[h]] \in PaceType
  BY <1>4, <1>6 DEF PaceTypeOK
<1>11. RefusalStands'
  <2> SUFFICES ASSUME NEW h \in Groups, refused[h] > 0
               PROVE  LET p == paces'[joins'[h]] IN
                      /\ p.level > 0
                      /\ p.age <= PACE_HOLD_MS - refused[h]
                      /\ p.hitAge <= PACE_HOLD_MS - refused[h]
    BY <1>1 DEF RefusalStands, rateKeyOf
  <2>1. LET p == paces[joins[h]] IN
        /\ p.level > 0
        /\ p.age <= PACE_HOLD_MS - refused[h]
        /\ p.hitAge <= PACE_HOLD_MS - refused[h]
    BY DEF RefusalStands, rateKeyOf
  <2>2. /\ paces[joins[h]].level \in Int /\ paces'[joins'[h]].level \in Int
        /\ paces[joins[h]].age \in Int /\ paces'[joins'[h]].age \in Int
        /\ paces[joins[h]].hitAge \in Int /\ paces'[joins'[h]].hitAge \in Int
        /\ PACE_HOLD_MS - refused[h] \in Int
    BY <1>10, BoundsAssumption DEF PaceType, AgeCap, PaceTypeOK
  <2>3. QED
    BY <1>9, <2>1, <2>2
<1>12. RestStands'
  <2> SUFFICES ASSUME NEW h \in Groups
               PROVE  owed[h] <= refused[h] /\ owed[h] <= paces'[joins'[h]].rest
    BY <1>1 DEF RestStands, rateKeyOf
  <2>1. owed[h] <= refused[h] /\ owed[h] <= paces[joins[h]].rest
    BY DEF RestStands, rateKeyOf
  <2>2. owed[h] \in Nat /\ refused[h] \in Nat
    BY BoundsAssumption DEF PaceTypeOK
  <2>3. paces[joins[h]].rest \in Nat /\ paces'[joins'[h]].rest \in Nat
    BY <1>10, BoundsAssumption DEF PaceType
  <2>4. CASE refused[h] > 0
    BY <1>9, <2>1, <2>2, <2>3, <2>4
  <2>5. CASE refused[h] = 0
    BY <2>1, <2>2, <2>3, <2>5
  <2>6. QED
    BY <2>2, <2>4, <2>5
<1>13. QED
  BY <1>2, <1>7, <1>8, <1>11, <1>12

(* An hour passes: the 429 is as much older as the level it raised.        *)
LEMMA TimePassesKeeps ==
    ASSUME PaceInv, TimePasses
    PROVE  PaceInv'
<1> USE DEF PaceInv
<1>1. ASSUME NEW h \in Groups
      PROVE  /\ paces[h] \in PaceType /\ paces'[h] = Older(paces[h])
             /\ joins[h] \in Groups /\ joins'[h] = joins[h]
             /\ refused[h] \in 0..PACE_HOLD_MS /\ refused'[h] = OneLess(refused[h])
             /\ owed[h] \in 0..PACE_HOLD_MS /\ owed'[h] = OneLess(owed[h])
  BY DEF TimePasses, PaceTypeOK
<1>2. ASSUME NEW h \in Groups
      PROVE  /\ refused'[h] = (IF refused[h] > 0 THEN refused[h] - 1 ELSE 0)
             /\ owed'[h] = (IF owed[h] > 0 THEN owed[h] - 1 ELSE 0)
  BY <1>1 DEF OneLess
<1>3. PaceTypeOK'
  <2>1. paces' \in [Groups -> PaceType]
    BY <1>1, OlderType DEF TimePasses
  <2>2. refused' \in [Groups -> 0..PACE_HOLD_MS] /\ owed' \in [Groups -> 0..PACE_HOLD_MS]
    BY <1>1, <1>2, BoundsAssumption DEF TimePasses
  <2>3. QED
    BY <2>1, <2>2 DEF TimePasses, PaceTypeOK
<1>4. JoinsKnown'
  BY DEF TimePasses, JoinsKnown
<1>5. OneKeyEach'
  <2> SUFFICES ASSUME NEW h \in Groups, joins[h] # h PROVE paces'[h] = NoPace
    BY <1>1 DEF OneKeyEach
  <2>1. paces[h] = NoPace
    BY DEF OneKeyEach
  <2>2. QED
    BY <1>1, <2>1, OlderNoPace
<1>6. ASSUME NEW h \in Groups
      PROVE  LET p == paces[joins[h]]
                 q == paces'[joins'[h]] IN
             /\ p \in PaceType /\ q \in PaceType
             /\ q.level = p.level
             /\ q.age <= p.age + 1 /\ q.hitAge <= p.hitAge + 1 /\ q.rest = OneLess(p.rest)
  BY <1>1, OlderType
<1>7. RefusalStands'
  <2> SUFFICES ASSUME NEW h \in Groups, refused'[h] > 0
               PROVE  LET p == paces'[joins'[h]] IN
                      /\ p.level > 0
                      /\ p.age <= PACE_HOLD_MS - refused'[h]
                      /\ p.hitAge <= PACE_HOLD_MS - refused'[h]
    BY DEF RefusalStands, rateKeyOf
  <2>1. refused[h] > 0 /\ refused'[h] = refused[h] - 1 /\ refused[h] \in Int
    BY <1>1, <1>2
  <2>2. LET p == paces[joins[h]] IN
        /\ p.level > 0
        /\ p.age <= PACE_HOLD_MS - refused[h]
        /\ p.hitAge <= PACE_HOLD_MS - refused[h]
    BY <2>1 DEF RefusalStands, rateKeyOf
  <2>3. /\ paces[joins[h]].age \in Int /\ paces'[joins'[h]].age \in Int
        /\ paces[joins[h]].hitAge \in Int /\ paces'[joins'[h]].hitAge \in Int
        /\ PACE_HOLD_MS \in Int
    BY <1>6, BoundsAssumption DEF PaceType, AgeCap
  <2>4. QED
    BY <1>6, <2>1, <2>2, <2>3
<1>8. RestStands'
  <2> SUFFICES ASSUME NEW h \in Groups
               PROVE  owed'[h] <= refused'[h] /\ owed'[h] <= paces'[joins'[h]].rest
    BY DEF RestStands, rateKeyOf
  <2>1. owed[h] <= refused[h] /\ owed[h] <= paces[joins[h]].rest
    BY DEF RestStands, rateKeyOf
  <2>2. paces[joins[h]].rest \in Nat
    BY <1>6, BoundsAssumption DEF PaceType
  <2>3. paces'[joins'[h]].rest = IF paces[joins[h]].rest > 0 THEN paces[joins[h]].rest - 1 ELSE 0
    BY <1>6 DEF OneLess
  <2>4. owed[h] \in Nat /\ refused[h] \in Nat
    BY <1>1, BoundsAssumption
  <2>5. QED
    BY <1>2, <2>1, <2>2, <2>3, <2>4
<1>9. QED
  BY <1>3, <1>4, <1>5, <1>7, <1>8

LEMMA PaceNextInv == PaceInv /\ [PaceNext]_paceVars => PaceInv'
<1> SUFFICES ASSUME PaceInv, [PaceNext]_paceVars PROVE PaceInv'
  OBVIOUS
<1>1. ASSUME NEW g \in Groups, NEW r \in Rests, noteRateLimited(g, r) PROVE PaceInv'
  BY <1>1, RateLimitedKeeps
<1>2. ASSUME NEW g \in Groups, noteDownloaded(g) PROVE PaceInv'
  BY <1>2, DownloadedKeeps
<1>3. ASSUME NEW g \in Groups, Read(g) PROVE PaceInv'
  BY <1>3, ReadKeeps
<1>4. ASSUME NEW g \in Groups, NEW found \in SUBSET Servers, notePageHosts(g, found) PROVE PaceInv'
  BY <1>4, PageHostsKeeps
<1>5. CASE TimePasses
  BY <1>5, TimePassesKeeps
<1>6. CASE UNCHANGED paceVars
  <2>1. PaceTypeOK'
    BY <1>6 DEF PaceInv, PaceTypeOK, paceVars
  <2>2. JoinsKnown' /\ OneKeyEach'
    BY <1>6 DEF PaceInv, JoinsKnown, OneKeyEach, paceVars
  <2>3. RefusalStands' /\ RestStands'
    BY <1>6 DEF PaceInv, RefusalStands, RestStands, rateKeyOf, paceVars
  <2>4. QED
    BY <2>1, <2>2, <2>3 DEF PaceInv
<1>7. QED
  BY <1>1, <1>2, <1>3, <1>4, <1>5, <1>6 DEF PaceNext, RateLimited

LEMMA SpecInv == PaceSpec => []PaceInv
  BY PaceInitInv, PaceNextInv, PTL DEF PaceSpec

-----------------------------------------------------------------------------
(* The levels are well typed: no sequence of refusals, downloads, idle     *)
(* days and joins takes one below nothing or above the slowest.            *)
THEOREM PaceTypeCorrect == PaceSpec => []PaceTypeOK
<1>1. PaceInv => PaceTypeOK
  BY DEF PaceInv
<1>2. QED
  BY <1>1, SpecInv, PTL

(* Two groups seen on one image server are asked under one key, however    *)
(* many groups and servers there are and in whatever order they meet.      *)
THEOREM OneKey == PaceSpec => []OneServerOneKey
<1>1. PaceInv => OneServerOneKey
  <2> SUFFICES ASSUME PaceInv, NEW g \in Groups, NEW h \in Groups, servers[g] \cap servers[h] # {}
               PROVE  OneKeyEach /\ joins[g] = joins[h]
    BY DEF PaceInv, OneServerOneKey, Joint
  <2>1. joined(servers)[g] = joined(servers)[h]
    BY OneServerJoins DEF Shares
  <2>2. QED
    BY <2>1 DEF PaceInv, JoinsKnown
<1>2. QED
  BY <1>1, SpecInv, PTL

(* For PACE_HOLD_MS after a 429 every group of the key is slowed and said  *)
(* to have been refused lately.                                            *)
THEOREM RefusalHolds == PaceSpec => []RefusalIsHeld
<1>1. PaceInv => RefusalIsHeld
  <2> SUFFICES ASSUME PaceInv, NEW g \in Groups, NEW h \in Groups, joins[g] = joins[h], refused[h] > 0
               PROVE  LET p == current(rateKeyOf(g)) IN p.level > 0 /\ p.hitAge < PACE_HOLD_MS
    BY DEF RefusalIsHeld, Joint, paceLevel, refusedLately
  <2>1. rateKeyOf(g) = rateKeyOf(h)
    BY DEF rateKeyOf
  <2>2. current(rateKeyOf(g)) = paces[rateKeyOf(h)]
    BY <2>1, HeldIsCurrent DEF PaceInv
  <2>3. /\ paces[rateKeyOf(h)].level > 0
        /\ paces[rateKeyOf(h)].hitAge <= PACE_HOLD_MS - refused[h]
    BY DEF PaceInv, RefusalStands
  <2>4. paces[rateKeyOf(h)].hitAge \in Int /\ refused[h] \in Int
    <3>1. current(rateKeyOf(g)) \in PaceType
      BY CurrentType DEF PaceInv
    <3>2. QED
      BY <2>2, <3>1, BoundsAssumption DEF PaceType, PaceInv, PaceTypeOK
  <2>5. QED
    BY <2>2, <2>3, <2>4, BoundsAssumption
<1>2. QED
  BY <1>1, SpecInv, PTL

(* The rest a 429 asked for is waited out by every group of the key.       *)
THEOREM RestHolds == PaceSpec => []RestIsKept
<1>1. PaceInv => RestIsKept
  <2> SUFFICES ASSUME PaceInv, NEW g \in Groups, NEW h \in Groups, joins[g] = joins[h]
               PROVE  current(rateKeyOf(g)).rest >= owed[h]
    BY DEF RestIsKept, Joint, restLeft
  <2>1. rateKeyOf(g) = rateKeyOf(h)
    BY DEF rateKeyOf
  <2>2. owed[h] <= refused[h] /\ owed[h] <= paces[rateKeyOf(h)].rest
    BY DEF PaceInv, RestStands
  <2>3. owed[h] \in Nat /\ refused[h] \in Nat
    BY BoundsAssumption DEF PaceInv, PaceTypeOK
  <2>4. current(rateKeyOf(g)) \in PaceType
    BY CurrentType DEF PaceInv
  <2>5. current(rateKeyOf(g)).rest \in Nat
    BY <2>4, BoundsAssumption DEF PaceType
  <2>6. CASE refused[h] > 0
    <3>1. current(rateKeyOf(g)) = paces[rateKeyOf(h)]
      BY <2>1, <2>6, HeldIsCurrent DEF PaceInv
    <3>2. QED
      BY <2>2, <2>3, <2>5, <3>1
  <2>7. CASE refused[h] = 0
    BY <2>2, <2>3, <2>5, <2>7
  <2>8. QED
    BY <2>3, <2>6, <2>7
<1>2. QED
  BY <1>1, SpecInv, PTL
=============================================================================
