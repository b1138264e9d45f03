----------------------------- MODULE SweepProofs -----------------------------
(***************************************************************************)
(* What Sweep promises for any series and routes, any number of lanes and  *)
(* any budget.                                                             *)
(***************************************************************************)
EXTENDS Sweep, FiniteSetTheorems, SequenceTheorems, WellFoundedInduction, TLAPS

LEMMA LeastIndex ==
    ASSUME NEW S \in SUBSET Nat, S # {}
    PROVE  \E x \in S : \A y \in S : x <= y
<1> DEFINE R == {ss \in Nat \X Nat : ss[1] < ss[2]}
<1>1. IsWellFoundedOn(R, Nat)
  <2>1. OpToRel(<, Nat) = R
    BY DEF OpToRel
  <2>2. QED
    BY <2>1, NatLessThanWellFounded
<1>2. \E x \in S : \A y \in S : ~ (<<y, x>> \in R)
  <2> HIDE DEF R
  <2> QED
    BY <1>1, WFMin
<1>3. \A x, y \in Nat : y < x => <<y, x>> \in R
  OBVIOUS
<1> HIDE DEF R
<1>4. PICK x \in S : \A y \in S : <<y, x>> \notin R
  BY <1>2
<1>5. \A y \in S : ~ (y < x)
  BY <1>3, <1>4
<1>6. \A y \in S : x <= y
  BY <1>5
<1>7. QED
  BY <1>6

-----------------------------------------------------------------------------
(* Queues, seen as the sets of those who wait in them.                     *)
Distinct(q) == \A i, j \in DOMAIN q : q[i] = q[j] => i = j

(* Among keeps each member of the set that is there, and nobody else.      *)
LEMMA AmongIs ==
    ASSUME NEW S, NEW q \in Seq(S), NEW ids
    PROVE  /\ Among(q, ids) \in Seq(S)
           /\ Range(Among(q, ids)) = Range(q) \cap ids
           /\ Distinct(q) => Distinct(Among(q, ids))
<1> DEFINE at == {i \in DOMAIN q : q[i] \in ids}
           upTo(i) == {j \in at : j <= i}
           nth(n) == CHOOSE i \in at : Cardinality(upTo(i)) = n
           rank == [i \in at |-> Cardinality(upTo(i))]
           c == Cardinality(at)
<1>1. at \in SUBSET (1 .. Len(q)) /\ DOMAIN q = 1 .. Len(q) /\ Len(q) \in Nat
  OBVIOUS
<1>2. IsFiniteSet(at) /\ c \in Nat
  <2>1. IsFiniteSet(1 .. Len(q))
    BY <1>1, FS_Interval
  <2> HIDE DEF at
  <2>2. QED
    BY <1>1, <2>1, FS_Subset, FS_CardinalityType
<1>3. ASSUME NEW i \in at PROVE /\ IsFiniteSet(upTo(i)) /\ Cardinality(upTo(i)) \in 1 .. c
  <2>1. upTo(i) \in SUBSET at /\ upTo(i) # {}
    BY <1>1
  <2> HIDE DEF upTo, at, c
  <2>2. IsFiniteSet(upTo(i)) /\ Cardinality(upTo(i)) \in Nat /\ Cardinality(upTo(i)) <= c
    BY <1>2, <2>1, FS_Subset, FS_CardinalityType DEF c
  <2>3. Cardinality(upTo(i)) # 0
    BY <2>1, <2>2, FS_EmptySet
  <2>4. QED
    BY <1>2, <2>2, <2>3
<1>4. ASSUME NEW i \in at, NEW j \in at, Cardinality(upTo(i)) = Cardinality(upTo(j))
      PROVE  i = j
  <2>1. ASSUME NEW x \in at, NEW y \in at, x < y,
               Cardinality(upTo(x)) = Cardinality(upTo(y))
        PROVE  FALSE
    <3>1. upTo(x) \in SUBSET upTo(y) /\ y \in upTo(y) /\ y \notin upTo(x)
      BY <1>1, <2>1
    <3>2. IsFiniteSet(upTo(y))
      BY <1>3
    <3> HIDE DEF upTo
    <3>3. QED
      BY <2>1, <3>1, <3>2, FS_Subset
  <2>2. i \in Int /\ j \in Int
    BY <1>1
  <2>3. ~ (i < j) /\ ~ (j < i)
    BY <1>4, <2>1
  <2>4. QED
    BY <2>2, <2>3
<1>5. \A n \in 1 .. c : \E i \in at : Cardinality(upTo(i)) = n
  <2>1. rank \in Injection(at, 1 .. c)
    BY <1>3, <1>4 DEF Injection, IsInjective
  <2>2. IsFiniteSet(1 .. c) /\ Cardinality(1 .. c) = c
    BY <1>2, FS_Interval
  <2>3. rank \in Surjection(at, 1 .. c)
    <3> HIDE DEF rank, at
    <3> QED
      BY <2>1, <2>2, FS_Injection DEF c
  <2>4. QED
    BY <2>3 DEF Surjection
<1>6. ASSUME NEW n \in 1 .. c PROVE nth(n) \in at /\ Cardinality(upTo(nth(n))) = n
  BY <1>5
<1>7. Among(q, ids) = [n \in 1 .. c |-> q[nth(n)]]
  BY DEF Among
<1>8. ASSUME NEW i \in at PROVE \E n \in 1 .. c : nth(n) = i
  <2>1. Cardinality(upTo(i)) \in 1 .. c
    BY <1>3
  <2> DEFINE m == Cardinality(upTo(i))
  <2>2. nth(m) \in at /\ Cardinality(upTo(nth(m))) = m
    BY <1>6, <2>1
  <2>3. nth(m) = i
    BY <1>4, <2>2
  <2>4. QED
    BY <2>1, <2>3
<1>9. \A i \in at : i \in DOMAIN q /\ q[i] \in ids /\ q[i] \in S
  BY <1>1
<1>10. \A i \in DOMAIN q : q[i] \in ids => i \in at
  OBVIOUS
<1> HIDE DEF at, nth, c
<1>11. Among(q, ids) \in Seq(S)
  <2>1. \A n \in 1 .. c : q[nth(n)] \in S
    BY <1>6, <1>9
  <2> DEFINE picked == [n \in 1 .. c |-> q[nth(n)]]
  <2>2. picked \in [1 .. c -> S]
    BY <2>1
  <2> HIDE DEF picked
  <2>3. picked \in Seq(S)
    BY <1>2, <2>2
  <2>4. QED
    BY <1>7, <2>3 DEF picked
<1>12. Range(Among(q, ids)) = Range(q) \cap ids
  <2>1. Range(Among(q, ids)) = {q[nth(n)] : n \in 1 .. c}
    BY <1>7 DEF Range
  <2>2. QED
    BY <1>6, <1>8, <1>9, <1>10, <2>1 DEF Range
<1>13. ASSUME Distinct(q) PROVE Distinct(Among(q, ids))
  <2> SUFFICES ASSUME NEW m \in 1 .. c, NEW n \in 1 .. c, q[nth(m)] = q[nth(n)]
               PROVE  m = n
    BY <1>7 DEF Distinct
  <2>1. nth(m) = nth(n)
    BY <1>6, <1>9, <1>13 DEF Distinct
  <2>2. QED
    BY <1>6, <2>1
<1>14. QED
  BY <1>11, <1>12, <1>13

(* The head leaves a queue; somebody goes to its back; one is put behind   *)
(* another.                                                                *)
LEMMA TailIs ==
    ASSUME NEW S, NEW q \in Seq(S), q # <<>>, Distinct(q)
    PROVE  /\ Tail(q) \in Seq(S) /\ Distinct(Tail(q))
           /\ Range(Tail(q)) = Range(q) \ {Head(q)}
           /\ Head(q) \in Range(q) /\ Head(q) \in S
<1>1. /\ Len(q) \in Nat /\ Len(q) > 0 /\ DOMAIN q = 1 .. Len(q) /\ Head(q) = q[1]
      /\ Head(q) \in S
  OBVIOUS
<1>2. /\ Tail(q) \in Seq(S) /\ DOMAIN Tail(q) = 1 .. (Len(q) - 1)
      /\ \A i \in 1 .. (Len(q) - 1) : Tail(q)[i] = q[i + 1]
  OBVIOUS
<1>3. Distinct(Tail(q))
  <2> SUFFICES ASSUME NEW i \in DOMAIN Tail(q), NEW j \in DOMAIN Tail(q),
                      Tail(q)[i] = Tail(q)[j]
               PROVE  i = j
    BY DEF Distinct
  <2>1. q[i + 1] = q[j + 1] /\ i + 1 \in DOMAIN q /\ j + 1 \in DOMAIN q
    BY <1>1, <1>2
  <2>2. i + 1 = j + 1
    BY <2>1 DEF Distinct
  <2>3. QED
    BY <1>2, <2>2
<1>4. Head(q) \in Range(q)
  BY <1>1 DEF Range
<1>5. ASSUME NEW x \in Range(Tail(q)) PROVE x \in Range(q) \ {Head(q)}
  <2>1. PICK i \in DOMAIN Tail(q) : x = Tail(q)[i]
    BY DEF Range
  <2>2. x = q[i + 1] /\ i + 1 \in DOMAIN q /\ 1 \in DOMAIN q /\ i + 1 # 1
    BY <1>1, <1>2, <2>1
  <2>3. x # q[1]
    BY <2>2 DEF Distinct
  <2>4. QED
    BY <1>1, <2>2, <2>3 DEF Range
<1>6. ASSUME NEW x \in Range(q), x # Head(q) PROVE x \in Range(Tail(q))
  <2>1. PICK i \in DOMAIN q : x = q[i]
    BY DEF Range
  <2>2. i # 1 /\ i \in 1 .. Len(q)
    BY <1>1, <1>6, <2>1
  <2>3. i - 1 \in DOMAIN Tail(q) /\ Tail(q)[i - 1] = q[i]
    BY <1>1, <1>2, <2>2
  <2>4. QED
    BY <2>1, <2>3 DEF Range
<1>7. QED
  BY <1>1, <1>2, <1>3, <1>4, <1>5, <1>6

LEMMA ConcatIs ==
    ASSUME NEW S, NEW p \in Seq(S), NEW q \in Seq(S), Distinct(p), Distinct(q),
           Range(p) \cap Range(q) = {}
    PROVE  /\ p \o q \in Seq(S) /\ Distinct(p \o q)
           /\ Range(p \o q) = Range(p) \cup Range(q)
<1>1. /\ Len(p) \in Nat /\ DOMAIN p = 1 .. Len(p) /\ Len(q) \in Nat /\ DOMAIN q = 1 .. Len(q)
  OBVIOUS
<1>2. /\ p \o q \in Seq(S) /\ DOMAIN (p \o q) = 1 .. (Len(p) + Len(q))
      /\ \A i \in 1 .. (Len(p) + Len(q)) : (p \o q)[i] = IF i <= Len(p) THEN p[i] ELSE q[i - Len(p)]
  OBVIOUS
<1>3. \A i \in DOMAIN p : p[i] \in Range(p)
  BY DEF Range
<1>4. \A i \in DOMAIN q : q[i] \in Range(q)
  BY DEF Range
<1>5. Distinct(p \o q)
  <2> SUFFICES ASSUME NEW i \in DOMAIN (p \o q), NEW j \in DOMAIN (p \o q),
                      (p \o q)[i] = (p \o q)[j]
               PROVE  i = j
    BY DEF Distinct
  <2>1. i \in 1 .. (Len(p) + Len(q)) /\ j \in 1 .. (Len(p) + Len(q))
    BY <1>2
  <2>2. CASE i <= Len(p) /\ j <= Len(p)
    <3>1. p[i] = p[j] /\ i \in DOMAIN p /\ j \in DOMAIN p
      BY <1>1, <1>2, <2>1, <2>2
    <3>2. QED
      BY <3>1 DEF Distinct
  <2>3. CASE i > Len(p) /\ j > Len(p)
    <3>1. q[i - Len(p)] = q[j - Len(p)] /\ i - Len(p) \in DOMAIN q /\ j - Len(p) \in DOMAIN q
      BY <1>1, <1>2, <2>1, <2>3
    <3>2. i - Len(p) = j - Len(p)
      BY <3>1 DEF Distinct
    <3>3. QED
      BY <1>1, <2>1, <3>2
  <2>4. CASE i <= Len(p) /\ j > Len(p)
    <3>1. p[i] = q[j - Len(p)] /\ i \in DOMAIN p /\ j - Len(p) \in DOMAIN q
      BY <1>1, <1>2, <2>1, <2>4
    <3>2. QED
      BY <1>3, <1>4, <3>1
  <2>5. CASE i > Len(p) /\ j <= Len(p)
    <3>1. p[j] = q[i - Len(p)] /\ j \in DOMAIN p /\ i - Len(p) \in DOMAIN q
      BY <1>1, <1>2, <2>1, <2>5
    <3>2. QED
      BY <1>3, <1>4, <3>1
  <2>6. QED
    BY <1>1, <2>1, <2>2, <2>3, <2>4, <2>5
<1>6. Range(p \o q) = Range(p) \cup Range(q)
  BY RangeConcatenation
<1>7. QED
  BY <1>2, <1>5, <1>6

LEMMA AppendIs ==
    ASSUME NEW S, NEW q \in Seq(S), NEW e \in S, Distinct(q), e \notin Range(q)
    PROVE  /\ Append(q, e) \in Seq(S) /\ Distinct(Append(q, e))
           /\ Range(Append(q, e)) = Range(q) \cup {e}
<1>1. Len(q) \in Nat /\ DOMAIN q = 1 .. Len(q)
  OBVIOUS
<1>2. /\ Append(q, e) \in Seq(S) /\ DOMAIN Append(q, e) = 1 .. (Len(q) + 1)
      /\ \A i \in 1 .. Len(q) : Append(q, e)[i] = q[i]
      /\ Append(q, e)[Len(q) + 1] = e
  OBVIOUS
<1>3. \A i \in DOMAIN q : q[i] # e
  BY DEF Range
<1>4. Distinct(Append(q, e))
  <2> SUFFICES ASSUME NEW i \in DOMAIN Append(q, e), NEW j \in DOMAIN Append(q, e),
                      Append(q, e)[i] = Append(q, e)[j]
               PROVE  i = j
    BY DEF Distinct
  <2>1. i \in 1 .. (Len(q) + 1) /\ j \in 1 .. (Len(q) + 1)
    BY <1>2
  <2>2. CASE i \in 1 .. Len(q) /\ j \in 1 .. Len(q)
    BY <1>1, <1>2, <2>2 DEF Distinct
  <2>3. CASE i = Len(q) + 1 \/ j = Len(q) + 1
    BY <1>1, <1>2, <1>3, <2>1, <2>3
  <2>4. QED
    BY <1>1, <2>1, <2>2, <2>3
<1>5. Range(Append(q, e)) = Range(q) \cup {e}
  <2>1. ASSUME NEW x \in Range(Append(q, e)) PROVE x \in Range(q) \cup {e}
    <3>1. PICK i \in 1 .. (Len(q) + 1) : x = Append(q, e)[i]
      BY <1>2 DEF Range
    <3>2. i = Len(q) + 1 \/ i \in 1 .. Len(q)
      BY <1>1
    <3>3. QED
      BY <1>1, <1>2, <3>1, <3>2 DEF Range
  <2>2. ASSUME NEW x \in Range(q) PROVE x \in Range(Append(q, e))
    <3>1. PICK i \in 1 .. Len(q) : x = q[i]
      BY <1>1 DEF Range
    <3>2. i \in DOMAIN Append(q, e)
      BY <1>1, <1>2
    <3>3. QED
      BY <1>2, <3>1, <3>2 DEF Range
  <2>3. e \in Range(Append(q, e))
    <3>1. Len(q) + 1 \in DOMAIN Append(q, e)
      BY <1>1, <1>2
    <3>2. QED
      BY <1>2, <3>1 DEF Range
  <2>4. QED
    BY <2>1, <2>2, <2>3
<1>6. QED
  BY <1>2, <1>4, <1>5

LEMMA EmptyIs ==
    ASSUME NEW S
    PROVE  <<>> \in Seq(S) /\ Distinct(<<>>) /\ Range(<<>>) = {}
  BY DEF Distinct, Range

LEMMA EmptyRange ==
    ASSUME NEW S, NEW q \in Seq(S), Range(q) = {}
    PROVE  q = <<>>
<1>1. ASSUME q # <<>> PROVE FALSE
  <2>1. 1 \in DOMAIN q
    BY <1>1
  <2>2. q[1] \in Range(q)
    BY <2>1 DEF Range
  <2>3. QED
    BY <2>2
<1>2. QED
  BY <1>1

-----------------------------------------------------------------------------
(* What the visits of some series may take together.                       *)
Taken(ids, ln) == {p \in ids \X (1 .. MaxNew) : p[2] <= ln[p[1]].take}
Sum(ids, ln) == Cardinality(Taken(ids, ln))

LEMMA SumType ==
    ASSUME NEW ids, IsFiniteSet(ids), NEW ln
    PROVE  IsFiniteSet(Taken(ids, ln)) /\ Sum(ids, ln) \in Nat
<1>1. IsFiniteSet(1 .. MaxNew)
  BY LimitsAssumption, FS_Interval
<1>2. IsFiniteSet(ids \X (1 .. MaxNew))
  BY <1>1, FS_Product
<1>3. Taken(ids, ln) \in SUBSET (ids \X (1 .. MaxNew))
  BY DEF Taken
<1>4. QED
  BY <1>2, <1>3, FS_Subset, FS_CardinalityType DEF Sum

LEMMA SumOfNone ==
    ASSUME NEW ln
    PROVE  Sum({}, ln) = 0
<1>1. Taken({}, ln) = {}
  BY DEF Taken
<1>2. QED
  BY <1>1, FS_EmptySet DEF Sum

LEMMA SumSame ==
    ASSUME NEW ids, NEW ln, NEW kn, \A x \in ids : ln[x].take = kn[x].take
    PROVE  Sum(ids, ln) = Sum(ids, kn)
<1>1. Taken(ids, ln) = Taken(ids, kn)
  BY DEF Taken
<1>2. QED
  BY <1>1 DEF Sum

LEMMA SumOne ==
    ASSUME NEW ids, IsFiniteSet(ids), NEW x, x \notin ids, NEW ln,
           ln[x].take \in 1 .. MaxNew
    PROVE  Sum(ids \cup {x}, ln) = Sum(ids, ln) + ln[x].take
<1> DEFINE n == ln[x].take
           ofX == {x} \X (1 .. n)
<1>1. Taken(ids \cup {x}, ln) = Taken(ids, ln) \cup ofX
  <2>1. MaxNew \in Nat /\ n \in 1 .. MaxNew
    BY LimitsAssumption
  <2>2. \A i \in 1 .. MaxNew : i <= n <=> i \in 1 .. n
    BY <2>1
  <2>3. \A i \in 1 .. n : i \in 1 .. MaxNew
    BY <2>1
  <2>4. QED
    BY <2>2, <2>3 DEF Taken
<1>2. Taken(ids, ln) \cap ofX = {}
  BY DEF Taken
<1>3. IsFiniteSet(1 .. n) /\ Cardinality(1 .. n) = n
  <2>1. 1 \in Int /\ n \in Int /\ ~ (1 > n)
    BY LimitsAssumption
  <2> HIDE DEF n
  <2>2. Cardinality(1 .. n) = n - 1 + 1
    BY <2>1, FS_Interval
  <2>3. QED
    BY <2>1, <2>2, FS_Interval
<1>4. IsFiniteSet({x}) /\ Cardinality({x}) = 1
  BY FS_Singleton
<1>5. IsFiniteSet(ofX) /\ Cardinality(ofX) = n
  <2>1. IsFiniteSet(ofX) /\ Cardinality(ofX) = Cardinality({x}) * Cardinality(1 .. n)
    BY <1>3, <1>4, FS_Product
  <2>2. QED
    BY <1>3, <1>4, <2>1, LimitsAssumption
<1>6. IsFiniteSet(Taken(ids, ln)) /\ Sum(ids, ln) \in Nat
  BY SumType
<1>7. Cardinality(Taken(ids, ln) \cup ofX)
        = Cardinality(Taken(ids, ln)) + Cardinality(ofX) - Cardinality({})
  BY <1>2, <1>5, <1>6, FS_Union
<1> HIDE DEF ofX
<1>8. Cardinality({}) = 0 /\ n \in Int
  BY FS_EmptySet, LimitsAssumption
<1> HIDE DEF n
<1>9. Sum(ids \cup {x}, ln) = Sum(ids, ln) + n
  <2>1. Cardinality(Taken(ids, ln)) \in Int
    BY <1>6 DEF Sum
  <2>2. Cardinality(Taken(ids, ln) \cup ofX) = Cardinality(Taken(ids, ln)) + n
    BY <1>5, <1>7, <1>8, <2>1
  <2>3. QED
    BY <1>1, <2>2 DEF Sum
<1>10. QED
  BY <1>9 DEF n

LEMMA SumMonotone ==
    ASSUME NEW ids, IsFiniteSet(ids), NEW some \in SUBSET ids, NEW ln
    PROVE  Sum(some, ln) <= Sum(ids, ln) /\ Sum(some, ln) \in Nat
<1>1. Taken(some, ln) \in SUBSET Taken(ids, ln)
  BY DEF Taken
<1>2. IsFiniteSet(Taken(ids, ln))
  BY SumType
<1>3. IsFiniteSet(some)
  BY FS_Subset
<1>4. QED
  BY <1>1, <1>2, <1>3, FS_Subset, SumType DEF Sum

-----------------------------------------------------------------------------
(* Routes.                                                                 *)
LEMMA SeriesFinite == IsFiniteSet(AllSeries)
<1>1. Rows \in Surjection(1 .. Len(Rows), AllSeries)
  BY RouteAssumption DEF AllSeries, Range, Surjection
<1>2. Len(Rows) \in Nat
  BY RouteAssumption
<1>3. IsFiniteSet(1 .. Len(Rows))
  BY <1>2, FS_Interval
<1>4. QED
  BY <1>1, <1>3, FS_Surjection

LEMMA RowsOnce == Rows \in Seq(AllSeries) /\ Distinct(Rows) /\ Range(Rows) = AllSeries
  BY RouteAssumption DEF Distinct, AllSeries

LEMMA FirstOpenIs ==
    ASSUME NEW id \in AllSeries, NEW shut
    PROVE  FirstOpen(id, shut) \in (Sources \ shut) \cup {NoSource}
<1>1. Route[id] \in Seq(Sources)
  BY RouteAssumption
<1>2. CASE Usable(id, shut) = {}
  BY <1>2 DEF FirstOpen
<1>3. CASE Usable(id, shut) # {}
  <2>1. Usable(id, shut) \in SUBSET Nat
    BY <1>1 DEF Usable
  <2>2. \E i \in Usable(id, shut) : \A j \in Usable(id, shut) : i <= j
    BY <1>3, <2>1, LeastIndex
  <2>3. PICK i \in Usable(id, shut) : FirstOpen(id, shut) = Route[id][i]
    BY <1>3, <2>2 DEF FirstOpen
  <2>4. Route[id][i] \in Sources /\ Route[id][i] \notin shut
    BY <1>1 DEF Usable
  <2>5. QED
    BY <2>3, <2>4
<1>4. QED
  BY <1>2, <1>3

LEMMA StartQueueIs ==
    ASSUME NEW id \in AllSeries
    PROVE  StartQueue(id) \in Sources \cup {NoSource}
<1>1. Route[id][1] \in Sources
  BY RouteAssumption
<1>2. QED
  BY <1>1, FirstOpenIs DEF StartQueue

-----------------------------------------------------------------------------
(* The inductive invariant.  Every series is in one place; what the lanes  *)
(* have reserved is what they may take, and what visits may still take is  *)
(* inside the budget; and the loop gives up only when nothing moves.       *)
Queued(id) == \E s \in Sources : id \in Range(queues[s])
OnLane(id) == lane[id].at = "visiting"
Done(id) == fate[id] # "none"
Visiting == {id \in AllSeries : OnLane(id)}

QueuesApart ==
    /\ \A s \in Sources : Distinct(queues[s])
    /\ \A s, t \in Sources : s # t => Range(queues[s]) \cap Range(queues[t]) = {}
OnePlace(id) ==
    /\ Queued(id) \/ OnLane(id) \/ id \in waiting \/ Done(id)
    /\ Queued(id) => ~OnLane(id) /\ id \notin waiting /\ ~Done(id)
    /\ OnLane(id) => id \notin waiting /\ ~Done(id)
    /\ id \in waiting => ~Done(id)
    /\ lane[id].at \in {"parking", "pausing"} => Done(id)
Placed == QueuesApart /\ \A id \in AllSeries : OnePlace(id)

Budget ==
    /\ reserved = Sum(Running, lane)
    /\ spent + Sum(Visiting, lane) <= SweepMax

Settled == Running = {} /\ \A s \in Sources : queues[s] # <<>> => s \in parked
Quiet ==
    /\ loop \in {"pass", "asleep"} /\ seen # {} => moved
    /\ loop = "freeing" /\ ~moved => Settled
    /\ loop = "draining" /\ stopped = "none" => Settled
    /\ loop = "completing" => Running = {}

IInv == TypeOK /\ Placed /\ Budget /\ Quiet

(* The steps that leave every series where it is.                          *)
Elsewhere ==
    \/ World \/ PassOver \/ CompletionOver \/ Over \/ UNCHANGED vars
    \/ \E src \in Sources : Stop(src) \/ Unpark(src)
    \/ Complete(1, TRUE) \/ Complete(1, FALSE) \/ Complete(0, FALSE)

LEMMA Steps ==
    ASSUME [Next]_vars
    PROVE  \/ Elsewhere
           \/ \E src \in Sources : LeaveHeld(src) \/ Begin(src)
           \/ FreeSome \/ Drained
           \/ \E id \in AllSeries :
                 \/ \E n \in 0 .. MaxNew : Land(id, n) \/ DiskFull(id, n)
                 \/ Blocked(id) \/ Paused(id) \/ HandOn(id)
  BY DEF Next, Loop, VisitEnds, Elsewhere

LEMMA ElsewhereKeeps ==
    ASSUME Elsewhere
    PROVE  UNCHANGED <<queues, waiting, lane, fate, reserved>>
  BY DEF Elsewhere, World, Cool, Claim, Learn, AskToStop, Untouched, PassOver, CompletionOver,
         Over, vars, Stop, Unpark, Complete

LEMMA VisitType ==
    ASSUME TypeOK, NEW id \in AllSeries
    PROVE  /\ lane[id] = Idle \/ lane[id] \in Visit
           /\ lane[id] # Idle => lane[id] \in Visit /\ lane[id].take \in 1 .. MaxNew
           /\ lane[id] = Idle => lane[id].at = "idle"
           /\ lane[id].at # "idle" => lane[id] # Idle
           /\ Running \in SUBSET AllSeries /\ IsFiniteSet(Running)
           /\ Visiting \in SUBSET Running
<1>1. Running \in SUBSET AllSeries /\ IsFiniteSet(Running)
  BY SeriesFinite, FS_Subset DEF Running
<1>2. ASSUME NEW x \in AllSeries
      PROVE  /\ lane[x] = Idle \/ lane[x] \in Visit
             /\ lane[x] = Idle => lane[x].at = "idle"
  BY DEF TypeOK, Idle
<1>3. lane[id] \in Visit => lane[id].take \in 1 .. MaxNew
  BY DEF Visit
<1>4. Visiting \in SUBSET Running
  BY <1>2 DEF Visiting, OnLane, Running
<1>5. QED
  BY <1>1, <1>2, <1>3, <1>4

-----------------------------------------------------------------------------
(* The budget.                                                             *)
(* A visit that is over takes no more than it reserved.                    *)
LEMMA AnsweredInBudget ==
    ASSUME TypeOK, Budget, NEW id \in AllSeries, NEW n, Answered(id, n),
           \A x \in AllSeries \ {id} : lane'[x] = lane[x], lane'[id].at # "visiting"
    PROVE  spent' + Sum(Visiting', lane') <= SweepMax
<1>1. id \in Visiting /\ lane[id].take \in 1 .. MaxNew /\ lane[id].take \in Int
      /\ n \in Int /\ n <= lane[id].take /\ spent' = spent + n
  BY VisitType, LimitsAssumption DEF Answered, Visiting, OnLane, Idle
<1>2. Visiting' = Visiting \ {id}
  BY DEF Visiting, OnLane
<1>3. IsFiniteSet(Visiting \ {id}) /\ Visiting = (Visiting \ {id}) \cup {id}
  BY <1>1, VisitType, FS_Subset
<1>4. Sum(Visiting, lane) = Sum(Visiting \ {id}, lane) + lane[id].take
  BY <1>1, <1>3, SumOne
<1>5. Sum(Visiting', lane') = Sum(Visiting \ {id}, lane)
  <2>1. \A x \in Visiting \ {id} : lane'[x].take = lane[x].take
    BY DEF Visiting
  <2>2. Sum(Visiting \ {id}, lane') = Sum(Visiting \ {id}, lane)
    BY <2>1, SumSame
  <2>3. QED
    BY <1>2, <2>2
<1>6. Sum(Visiting \ {id}, lane) \in Int /\ spent \in Int /\ SweepMax \in Int
  BY <1>3, SumType, LimitsAssumption DEF TypeOK
<1>7. QED
  BY <1>1, <1>4, <1>5, <1>6 DEF Budget

(* A visit whose series keeps its lane keeps what it reserved.             *)
LEMMA StillReserved ==
    ASSUME TypeOK, Budget, NEW id \in AllSeries, lane[id] # Idle, UNCHANGED reserved,
           \A x \in AllSeries : lane'[x].take = lane[x].take /\ (lane'[x] = Idle <=> lane[x] = Idle)
    PROVE  reserved' = Sum(Running', lane')
<1>1. Running' = Running
  BY DEF Running
<1>2. Sum(Running, lane') = Sum(Running, lane)
  BY SumSame DEF Running
<1>3. QED
  BY <1>1, <1>2 DEF Budget

(* The lane's end gives it back.                                           *)
LEMMA LeavesInBudget ==
    ASSUME TypeOK, Budget, NEW id \in AllSeries, lane[id] # Idle, Leaves(id)
    PROVE  /\ reserved' = Sum(Running', lane')
           /\ \A x \in AllSeries \ {id} : lane'[x] = lane[x]
           /\ lane'[id] = Idle /\ lane'[id].at = "idle"
<1>1. /\ \A x \in AllSeries \ {id} : lane'[x] = lane[x]
      /\ lane'[id] = Idle /\ lane'[id].at = "idle"
  BY DEF Leaves, TypeOK, Idle
<1>2. id \in Running /\ lane[id].take \in 1 .. MaxNew /\ Running \in SUBSET AllSeries
  BY VisitType DEF Running
<1>3. Running' = Running \ {id}
  BY <1>1 DEF Running
<1>4. IsFiniteSet(Running \ {id}) /\ Running = (Running \ {id}) \cup {id}
  BY <1>2, VisitType, FS_Subset
<1>5. Sum(Running, lane) = Sum(Running \ {id}, lane) + lane[id].take
  BY <1>2, <1>4, SumOne
<1>6. Sum(Running', lane') = Sum(Running \ {id}, lane)
  <2>1. \A x \in Running \ {id} : lane'[x].take = lane[x].take
    BY <1>1, <1>2
  <2>2. Sum(Running \ {id}, lane') = Sum(Running \ {id}, lane)
    BY <2>1, SumSame
  <2>3. QED
    BY <1>3, <2>2
<1>7. Sum(Running \ {id}, lane) \in Int /\ lane[id].take \in Int
  BY <1>2, <1>4, SumType, LimitsAssumption
<1>8. reserved' = reserved - lane[id].take
  BY DEF Leaves
<1>9. reserved' = Sum(Running', lane')
  BY <1>5, <1>6, <1>7, <1>8 DEF Budget
<1>10. QED
  BY <1>1, <1>9

LEMMA MovedInBudget ==
    ASSUME TypeOK, Budget, NEW id \in AllSeries, NEW n, Answered(id, n), lane[id] \in Visit,
           NEW w \in {"pausing", "parking"}, lane' = [lane EXCEPT ![id].at = w], UNCHANGED reserved
    PROVE  Budget'
<1>1. /\ \A x \in AllSeries \ {id} : lane'[x] = lane[x]
      /\ lane'[id].at = w /\ lane'[id].take = lane[id].take
  BY DEF TypeOK, Visit
<1>2. lane'[id] # Idle /\ lane[id] # Idle /\ lane'[id].at # "visiting"
  BY <1>1 DEF Idle, Answered
<1>3. \A x \in AllSeries : lane'[x].take = lane[x].take /\ (lane'[x] = Idle <=> lane[x] = Idle)
  BY <1>1, <1>2
<1>4. QED
  BY <1>1, <1>2, <1>3, StillReserved, AnsweredInBudget DEF Budget

LEMMA SameVisitors ==
    ASSUME Budget, UNCHANGED spent, NEW id \in AllSeries, ~OnLane(id), lane'[id].at # "visiting",
           \A x \in AllSeries \ {id} : lane'[x] = lane[x]
    PROVE  spent' + Sum(Visiting', lane') <= SweepMax
<1>1. Visiting' = Visiting /\ id \notin Visiting
  BY DEF Visiting, OnLane
<1>2. \A x \in Visiting : lane'[x].take = lane[x].take
  BY <1>1 DEF Visiting
<1>3. Sum(Visiting, lane') = Sum(Visiting, lane)
  BY <1>2, SumSame
<1>4. QED
  BY <1>1, <1>3 DEF Budget

(* A visit begins with no more than the budget has left beside what others *)
(* reserved.                                                               *)
LEMMA QueuedIsIdle ==
    ASSUME TypeOK, Placed, NEW id \in AllSeries, Queued(id)
    PROVE  lane[id] = Idle
<1>1. ~OnLane(id) /\ ~Done(id)
  BY DEF Placed, OnePlace
<1>2. lane[id].at \notin {"visiting", "parking", "pausing"}
  BY <1>1 DEF Placed, OnePlace, OnLane
<1>3. QED
  BY <1>2, VisitType DEF Visit

LEMMA HeadIs ==
    ASSUME TypeOK, QueuesApart, NEW src \in Sources, queues[src] # <<>>
    PROVE  /\ Head(queues[src]) \in AllSeries /\ Queued(Head(queues[src]))
           /\ Head(queues[src]) \in Range(queues[src])
           /\ Tail(queues[src]) \in Seq(AllSeries) /\ Distinct(Tail(queues[src]))
           /\ Range(Tail(queues[src])) = Range(queues[src]) \ {Head(queues[src])}
<1>1. queues[src] \in Seq(AllSeries) /\ Distinct(queues[src])
  BY DEF TypeOK, QueuesApart
<1>2. QED
  BY <1>1, TailIs DEF Queued

LEMMA BeginInBudget ==
    ASSUME IInv, NEW src \in Sources, Begin(src)
    PROVE  Budget' /\ Take(reserved) \in 1 .. MaxNew
<1> DEFINE id == Head(queues[src])
           take == Take(reserved)
<1> USE DEF IInv
<1>1. id \in AllSeries /\ lane[id] = Idle
  BY HeadIs, QueuedIsIdle DEF Begin, Turn, Ready, Placed
<1>2. ~ (spent + reserved >= SweepMax)
  BY DEF Begin, stopNow
<1>3. /\ spent \in Nat /\ reserved \in Nat /\ SweepMax \in Nat /\ MaxNew \in Nat /\ MaxNew >= 1
  BY LimitsAssumption DEF TypeOK
<1>4. take \in 1 .. MaxNew /\ spent + reserved + take <= SweepMax
  BY <1>2, <1>3 DEF Take, Least
<1>5. /\ lane' = [lane EXCEPT ![id] = [at |-> "visiting", src |-> src, key |-> key[src], take |-> take]]
      /\ reserved' = reserved + take /\ UNCHANGED spent
  BY DEF Begin
<1> HIDE DEF id, take
<1>6. /\ lane'[id].take = take /\ lane'[id].at = "visiting" /\ lane'[id] # Idle
      /\ \A x \in AllSeries \ {id} : lane'[x] = lane[x]
  BY <1>1, <1>5 DEF TypeOK, Idle
<1>7. Running' = Running \cup {id} /\ id \notin Running
  BY <1>1, <1>6 DEF Running
<1>8. Visiting' = Visiting \cup {id} /\ id \notin Visiting
  BY <1>1, <1>6 DEF Visiting, OnLane, Idle
<1>9. IsFiniteSet(Running) /\ IsFiniteSet(Visiting) /\ Visiting \in SUBSET Running
      /\ Running \in SUBSET AllSeries
  BY <1>1, VisitType, FS_Subset
<1>10. Sum(Running', lane') = Sum(Running, lane) + take
  <2>1. Sum(Running \cup {id}, lane') = Sum(Running, lane') + take
    BY <1>4, <1>6, <1>7, <1>9, SumOne
  <2>2. Sum(Running, lane') = Sum(Running, lane)
    BY <1>6, <1>7, <1>9, SumSame
  <2>3. QED
    BY <1>7, <2>1, <2>2
<1>11. Sum(Visiting', lane') = Sum(Visiting, lane) + take
  <2>1. Sum(Visiting \cup {id}, lane') = Sum(Visiting, lane') + take
    BY <1>4, <1>6, <1>8, <1>9, SumOne
  <2>2. Sum(Visiting, lane') = Sum(Visiting, lane)
    BY <1>6, <1>8, <1>9, SumSame
  <2>3. QED
    BY <1>8, <2>1, <2>2
<1>12. Sum(Visiting, lane) <= Sum(Running, lane) /\ Sum(Visiting, lane) \in Nat
  BY <1>9, SumMonotone
<1>13. reserved = Sum(Running, lane)
  BY DEF Budget
<1>14. reserved' = Sum(Running', lane')
  BY <1>5, <1>10, <1>13
<1>15. spent' + Sum(Visiting', lane') <= SweepMax
  BY <1>3, <1>4, <1>5, <1>11, <1>12, <1>13
<1>16. QED
  BY <1>4, <1>14, <1>15 DEF Budget, take

LEMMA BudgetKept ==
    ASSUME IInv, [Next]_vars
    PROVE  Budget'
<1> USE DEF IInv
<1>1. CASE Elsewhere
  <2>1. UNCHANGED <<lane, reserved>>
    BY <1>1, ElsewhereKeeps
  <2>2. Running' = Running /\ Visiting' = Visiting
    BY <2>1 DEF Running, Visiting, OnLane
  <2>3. ASSUME NEW cost \in {0, 1}, NEW full, Complete(cost, full)
        PROVE  spent' + Sum(Visiting, lane) <= SweepMax
    <3>1. loop = "completing" /\ spent' = spent + cost /\ StopCompleting = "none"
      BY <2>3 DEF Complete
    <3>2. ~ (spent >= SweepMax)
      BY <3>1 DEF StopCompleting
    <3>3. Visiting = {}
      BY <3>1 DEF Quiet, Running, Visiting, OnLane, Idle
    <3>4. Sum(Visiting, lane) = 0
      BY <3>3, SumOfNone
    <3>5. spent \in Nat /\ SweepMax \in Nat
      BY LimitsAssumption DEF TypeOK
    <3>6. QED
      BY <3>1, <3>2, <3>4, <3>5
  <2>4. CASE UNCHANGED spent
    BY <2>1, <2>2, <2>4 DEF Budget
  <2>5. CASE Complete(1, TRUE) \/ Complete(1, FALSE) \/ Complete(0, FALSE)
    <3>1. spent' + Sum(Visiting, lane) <= SweepMax
      BY <2>3, <2>5
    <3>2. QED
      BY <2>1, <2>2, <3>1 DEF Budget
  <2>6. UNCHANGED spent \/ Complete(1, TRUE) \/ Complete(1, FALSE) \/ Complete(0, FALSE)
    BY <1>1 DEF Elsewhere, World, Cool, Claim, Learn, AskToStop, Untouched, PassOver,
                CompletionOver, Over, vars, Stop, Unpark
  <2>7. QED
    BY <2>4, <2>5, <2>6
<1>2. ASSUME NEW src \in Sources, LeaveHeld(src) PROVE Budget'
  BY <1>2 DEF LeaveHeld, Budget, Running, Visiting, OnLane
<1>3. ASSUME NEW src \in Sources, Begin(src) PROVE Budget'
  BY <1>3, BeginInBudget
<1>4. CASE FreeSome
  BY <1>4 DEF FreeSome, Budget, Running, Visiting, OnLane
<1>5. CASE Drained
  BY <1>5 DEF Drained, Budget, Running, Visiting, OnLane
<1>6. ASSUME NEW id \in AllSeries, NEW n \in 0 .. MaxNew, Land(id, n) PROVE Budget'
  <2>1. Answered(id, n) /\ lane' = [lane EXCEPT ![id].at = "pausing"] /\ UNCHANGED reserved
    BY <1>6 DEF Land
  <2>2. lane[id] \in Visit
    BY <2>1, VisitType DEF Answered, Idle
  <2>3. QED
    BY <2>1, <2>2, MovedInBudget
<1>7. ASSUME NEW id \in AllSeries, Blocked(id) PROVE Budget'
  <2>1. Answered(id, 0) /\ lane' = [lane EXCEPT ![id].at = "parking"] /\ UNCHANGED reserved
    BY <1>7 DEF Blocked
  <2>2. lane[id] \in Visit
    BY <2>1, VisitType DEF Answered, Idle
  <2>3. QED
    BY <2>1, <2>2, MovedInBudget
<1>8. ASSUME NEW id \in AllSeries, NEW n \in 0 .. MaxNew, DiskFull(id, n) PROVE Budget'
  <2>1. Answered(id, n) /\ Leaves(id)
    BY <1>8 DEF DiskFull
  <2>2. lane[id] # Idle
    BY <2>1 DEF Answered, Idle
  <2>3. QED
    BY <2>1, <2>2, LeavesInBudget, AnsweredInBudget DEF Budget
<1>9. ASSUME NEW id \in AllSeries, Paused(id) \/ HandOn(id) PROVE Budget'
  <2>1. Leaves(id) /\ UNCHANGED spent /\ lane[id].at \in {"pausing", "parking"}
    BY <1>9 DEF Paused, HandOn
  <2>2. lane[id] # Idle /\ ~OnLane(id)
    BY <2>1 DEF Idle, OnLane
  <2>3. QED
    BY <2>1, <2>2, LeavesInBudget, SameVisitors DEF Budget
<1>10. QED
  BY <1>1, <1>2, <1>3, <1>4, <1>5, <1>6, <1>7, <1>8, <1>9, Steps

-----------------------------------------------------------------------------
(* The state stays well typed.                                             *)
LEMMA ReservedType ==
    ASSUME Budget'
    PROVE  reserved' \in Nat
<1>1. IsFiniteSet(Running')
  <2>1. Running' \in SUBSET AllSeries
    BY DEF Running
  <2>2. QED
    BY <2>1, SeriesFinite, FS_Subset
<1>2. Sum(Running', lane') \in Nat
  BY <1>1, SumType
<1>3. QED
  BY <1>2 DEF Budget

LEMMA LanesTyped ==
    ASSUME TypeOK, NEW id \in AllSeries
    PROVE  /\ Leaves(id) => lane' \in [AllSeries -> Visit \cup {Idle}]
           /\ \A w \in {"pausing", "parking"} : lane[id] \in Visit =>
                 [lane EXCEPT ![id].at = w] \in [AllSeries -> Visit \cup {Idle}]
<1>1. lane \in [AllSeries -> Visit \cup {Idle}]
  BY DEF TypeOK
<1>2. Leaves(id) => lane' \in [AllSeries -> Visit \cup {Idle}]
  BY <1>1 DEF Leaves
<1>3. ASSUME NEW w \in {"pausing", "parking"}, lane[id] \in Visit
      PROVE  [lane EXCEPT ![id].at = w] \in [AllSeries -> Visit \cup {Idle}]
  <2>1. [lane[id] EXCEPT !.at = w] \in Visit
    BY <1>3 DEF Visit
  <2>2. [lane EXCEPT ![id].at = w] = [lane EXCEPT ![id] = [lane[id] EXCEPT !.at = w]]
    OBVIOUS
  <2>3. QED
    BY <1>1, <2>1, <2>2
<1>4. QED
  BY <1>2, <1>3

LEMMA HandOnQueues ==
    ASSUME TypeOK, QueuesApart, NEW id \in AllSeries, HandOn(id)
    PROVE  LET src == lane[id].src IN
           /\ src \in Sources
           /\ queues' \in [Sources -> Seq(AllSeries)]
           /\ \A s \in Sources : Distinct(queues'[s])
           /\ Range(queues'[src]) = {x \in Range(queues[src]) : Stays(src, x)}
           /\ \A s \in Sources \ {src} :
                 Range(queues'[s]) = Range(queues[s]) \cup {x \in Range(queues[src]) : Onward(src, x) = s}
<1> DEFINE src == lane[id].src
           staying == {x \in AllSeries : Stays(src, x)}
           going(s) == {x \in AllSeries : Onward(src, x) = s}
<1>1. src \in Sources
  <2>1. lane[id] # Idle
    BY DEF HandOn, Idle
  <2>2. QED
    BY <2>1, VisitType DEF Visit
<1>2. \A s \in Sources : queues[s] \in Seq(AllSeries) /\ Distinct(queues[s])
  BY DEF TypeOK, QueuesApart
<1>3. queues' = [s \in Sources |-> IF s = src THEN Among(queues[s], staying)
                                   ELSE queues[s] \o Among(queues[src], going(s))]
  BY DEF HandOn
<1>4. Range(queues[src]) \in SUBSET AllSeries
  BY <1>1, <1>2, RangeOfSeq
<1> HIDE DEF src
<1>5. /\ Among(queues[src], staying) \in Seq(AllSeries)
      /\ Range(Among(queues[src], staying)) = Range(queues[src]) \cap staying
      /\ Distinct(Among(queues[src], staying))
  BY <1>1, <1>2, AmongIs
<1>6. ASSUME NEW s \in Sources \ {src}
      PROVE  /\ queues[s] \o Among(queues[src], going(s)) \in Seq(AllSeries)
             /\ Distinct(queues[s] \o Among(queues[src], going(s)))
             /\ Range(queues[s] \o Among(queues[src], going(s)))
                  = Range(queues[s]) \cup (Range(queues[src]) \cap going(s))
  <2> DEFINE more == Among(queues[src], going(s))
  <2>1. more \in Seq(AllSeries) /\ Range(more) = Range(queues[src]) \cap going(s) /\ Distinct(more)
    BY <1>1, <1>2, AmongIs
  <2>2. Range(queues[s]) \cap Range(more) = {}
    BY <1>1, <2>1 DEF QueuesApart
  <2> HIDE DEF more
  <2>3. /\ queues[s] \o more \in Seq(AllSeries) /\ Distinct(queues[s] \o more)
        /\ Range(queues[s] \o more) = Range(queues[s]) \cup Range(more)
    BY <1>2, <2>1, <2>2, ConcatIs
  <2>4. QED
    BY <2>1, <2>3 DEF more
<1>7. queues' \in [Sources -> Seq(AllSeries)]
  BY <1>3, <1>5, <1>6
<1>8. \A s \in Sources : Distinct(queues'[s])
  BY <1>3, <1>5, <1>6
<1>9. Range(queues'[src]) = {x \in Range(queues[src]) : Stays(src, x)}
  BY <1>1, <1>3, <1>4, <1>5
<1>10. ASSUME NEW s \in Sources \ {src}
       PROVE  Range(queues'[s]) = Range(queues[s]) \cup {x \in Range(queues[src]) : Onward(src, x) = s}
  <2>1. queues'[s] = queues[s] \o Among(queues[src], going(s))
    BY <1>3
  <2>2. Range(queues'[s]) = Range(queues[s]) \cup (Range(queues[src]) \cap going(s))
    BY <1>6, <2>1
  <2>3. QED
    BY <1>4, <2>2
<1>11. QED
  BY <1>1, <1>7, <1>8, <1>9, <1>10 DEF src

LEMMA FreeSomeQueues ==
    ASSUME TypeOK, Placed, FreeSome
    PROVE  /\ queues' \in [Sources -> Seq(AllSeries)]
           /\ \A s \in Sources : Distinct(queues'[s])
           /\ \A s \in Sources :
                 Range(queues'[s]) = Range(queues[s]) \cup {x \in AllSeries : JoinsTo(x) = s}
<1> DEFINE joining(s) == {x \in AllSeries : JoinsTo(x) = s}
<1>1. \A s \in Sources : queues[s] \in Seq(AllSeries) /\ Distinct(queues[s])
  BY DEF TypeOK, Placed, QueuesApart
<1>2. queues' = [s \in Sources |-> queues[s] \o Among(Rows, joining(s))]
  BY DEF FreeSome
<1>3. ASSUME NEW s \in Sources
      PROVE  /\ queues'[s] \in Seq(AllSeries) /\ Distinct(queues'[s])
             /\ Range(queues'[s]) = Range(queues[s]) \cup joining(s)
  <2> DEFINE more == Among(Rows, joining(s))
  <2>1. more \in Seq(AllSeries) /\ Range(more) = joining(s) /\ Distinct(more)
    BY RowsOnce, AmongIs
  <2>2. s # NoSource
    BY RouteAssumption
  <2>3. joining(s) \in SUBSET waiting
    BY <2>2 DEF JoinsTo
  <2>4. Range(queues[s]) \cap Range(more) = {}
    <3>1. ASSUME NEW x \in Range(queues[s]), x \in Range(more) PROVE FALSE
      <4>1. x \in AllSeries /\ x \in waiting /\ Queued(x)
        BY <2>1, <2>3, <3>1 DEF Queued
      <4>2. QED
        BY <4>1 DEF Placed, OnePlace
    <3>2. QED
      BY <3>1
  <2>5. queues'[s] = queues[s] \o more
    BY <1>2
  <2> HIDE DEF more
  <2>6. /\ queues[s] \o more \in Seq(AllSeries) /\ Distinct(queues[s] \o more)
        /\ Range(queues[s] \o more) = Range(queues[s]) \cup Range(more)
    BY <1>1, <2>1, <2>4, ConcatIs
  <2>7. QED
    BY <2>1, <2>5, <2>6
<1>4. queues' \in [Sources -> Seq(AllSeries)]
  <2>1. \A s \in Sources : queues'[s] \in Seq(AllSeries)
    BY <1>3
  <2>2. DOMAIN queues' = Sources /\ queues' = [s \in Sources |-> queues'[s]]
    BY <1>2
  <2>3. QED
    BY <2>1, <2>2
<1>5. QED
  BY <1>3, <1>4

LEMMA TypeKept ==
    ASSUME IInv, [Next]_vars
    PROVE  TypeOK'
<1> USE DEF IInv
<1>1. reserved' \in Nat
  BY BudgetKept, ReservedType
<1>2. CASE Elsewhere
  <2>1. UNCHANGED <<queues, waiting, lane, fate, reserved>>
    BY <1>2, ElsewhereKeeps
  <2>2. ASSUME World PROVE TypeOK'
    <3>1. UNCHANGED <<parked, deferred, spent, stopped, cut, loop, seen, moved, partials, finishing>>
      BY <2>2 DEF World, Cool, Claim, Learn, AskToStop, Untouched
    <3>2. cooling' \subseteq CanCool /\ held' \subseteq CanHold
      BY <2>2 DEF World, Cool, Claim, Learn, AskToStop, Untouched, TypeOK
    <3>3. asked' \in {"none", "shutdown", "cancelled", "yield"}
      BY <2>2 DEF World, Cool, Claim, Learn, AskToStop, Untouched, TypeOK
    <3>4. key' \in [Sources -> Range(KeyAt)]
      <4>1. ASSUME NEW s \in CanJoin, NEW t \in CanJoin, Learn(s, t)
            PROVE  key' \in [Sources -> Range(KeyAt)]
        <5>1. s \in Sources /\ t \in Sources
          BY KeyAssumption
        <5>2. QED
          BY <4>1, <5>1 DEF Learn, TypeOK
      <4>2. UNCHANGED key \/ \E s, t \in CanJoin : Learn(s, t)
        BY <2>2 DEF World, Cool, Claim, AskToStop
      <4>3. QED
        BY <4>1, <4>2 DEF TypeOK
    <3>5. QED
      BY <2>1, <3>1, <3>2, <3>3, <3>4 DEF TypeOK
  <2>3. ASSUME ~World PROVE TypeOK'
    <3>1. UNCHANGED <<finishing, cooling, held, asked, key, deferred, cut>>
      BY <1>2, <2>3 DEF Elsewhere, PassOver, CompletionOver, Over, vars, Stop, Unpark, Complete, world
    <3>2. spent' \in Nat /\ partials' \in Nat
      BY <1>2, <2>3 DEF Elsewhere, PassOver, CompletionOver, Over, vars, Stop, Unpark, Complete, TypeOK
    <3>3. stopped' \in Stops \cup {"none"}
      BY <1>2, <2>3 DEF Elsewhere, PassOver, CompletionOver, Over, vars, Stop, Unpark, Complete,
                        TypeOK, Stops, stopNow, StopCompleting
    <3>4. loop' \in {"pass", "asleep", "freeing", "draining", "completing", "over"}
      BY <1>2, <2>3 DEF Elsewhere, PassOver, CompletionOver, Over, vars, Stop, Unpark, Complete, TypeOK
    <3>5. parked' \subseteq Sources /\ seen' \subseteq Sources
      BY <1>2, <2>3 DEF Elsewhere, PassOver, CompletionOver, Over, vars, Stop, Unpark, Complete, TypeOK
    <3>6. moved' \in BOOLEAN
      BY <1>2, <2>3 DEF Elsewhere, PassOver, CompletionOver, Over, vars, Stop, Unpark, Complete, TypeOK
    <3>7. QED
      BY <2>1, <3>1, <3>2, <3>3, <3>4, <3>5, <3>6 DEF TypeOK
  <2>4. QED
    BY <2>2, <2>3
<1>3. ASSUME NEW src \in Sources, LeaveHeld(src) PROVE TypeOK'
  <2> DEFINE id == Head(queues[src])
  <2>1. id \in AllSeries /\ Tail(queues[src]) \in Seq(AllSeries)
    BY <1>3, HeadIs DEF LeaveHeld, Turn, Ready, Placed
  <2>2. Append(Tail(queues[src]), id) \in Seq(AllSeries)
    BY <2>1
  <2>3. queues' \in [Sources -> Seq(AllSeries)]
    <3> HIDE DEF id
    <3>1. queues' = [queues EXCEPT ![src] = IF id \in deferred THEN Tail(queues[src])
                                            ELSE Append(Tail(queues[src]), id)]
      BY <1>3 DEF LeaveHeld, id
    <3>2. QED
      BY <2>1, <2>2, <3>1 DEF TypeOK
  <2>4. fate' \in [AllSeries -> {"none", "visited", "skipped", "blocked"}]
    BY <1>3, <2>1 DEF LeaveHeld, TypeOK
  <2>5. deferred' \subseteq AllSeries /\ seen' \subseteq Sources /\ moved' \in BOOLEAN
    BY <1>3, <2>1 DEF LeaveHeld, Passed, TypeOK
  <2>6. UNCHANGED <<world, waiting, parked, lane, spent, reserved, stopped, cut, loop, partials>>
    BY <1>3 DEF LeaveHeld
  <2>7. QED
    BY <2>3, <2>4, <2>5, <2>6 DEF TypeOK, world
<1>4. ASSUME NEW src \in Sources, Begin(src) PROVE TypeOK'
  <2> DEFINE id == Head(queues[src])
             visit == [at |-> "visiting", src |-> src, key |-> key[src], take |-> Take(reserved)]
  <2>1. id \in AllSeries /\ Tail(queues[src]) \in Seq(AllSeries)
    BY <1>4, HeadIs DEF Begin, Turn, Ready, Placed
  <2>2. queues' \in [Sources -> Seq(AllSeries)]
    BY <1>4, <2>1 DEF Begin, TypeOK
  <2>3. visit \in Visit
    <3>1. Take(reserved) \in 1 .. MaxNew
      BY <1>4, BeginInBudget
    <3>2. key[src] \in Range(KeyAt)
      BY DEF TypeOK
    <3>3. QED
      BY <3>1, <3>2 DEF Visit
  <2>4. lane' \in [AllSeries -> Visit \cup {Idle}]
    <3> HIDE DEF visit
    <3>1. lane' = [lane EXCEPT ![id] = visit]
      BY <1>4 DEF Begin, visit
    <3>2. QED
      BY <2>1, <2>3, <3>1 DEF TypeOK
  <2>5. seen' \subseteq Sources /\ moved' \in BOOLEAN /\ loop' \in {"asleep", "pass"}
    BY <1>4 DEF Begin, Passed, TypeOK
  <2>6. UNCHANGED <<world, waiting, parked, deferred, spent, stopped, cut, fate, partials>>
    BY <1>4 DEF Begin
  <2>7. QED
    BY <1>1, <2>2, <2>4, <2>5, <2>6 DEF TypeOK, world
<1>5. CASE FreeSome
  <2>1. queues' \in [Sources -> Seq(AllSeries)]
    BY <1>5, FreeSomeQueues
  <2>2. waiting' \subseteq AllSeries /\ seen' = {} /\ moved' = FALSE /\ loop' \in {"pass", "draining"}
    BY <1>5 DEF FreeSome, TypeOK
  <2>3. UNCHANGED <<world, parked, deferred, lane, spent, reserved, stopped, cut, fate, partials>>
    BY <1>5 DEF FreeSome
  <2>4. QED
    BY <2>1, <2>2, <2>3 DEF TypeOK, world
<1>6. CASE Drained
  <2>1. stopped' \in Stops \cup {"none"}
    BY <1>6 DEF Drained, TypeOK, Stops
  <2>2. fate' \in [AllSeries -> {"none", "visited", "skipped", "blocked"}]
    BY <1>6 DEF Drained, TypeOK
  <2>3. queues' \in [Sources -> Seq(AllSeries)] /\ waiting' = {}
    BY <1>6, EmptyIs DEF Drained
  <2>4. loop' \in {"completing", "over"}
    BY <1>6 DEF Drained
  <2>5. UNCHANGED <<world, parked, deferred, lane, spent, reserved, cut, seen, moved, partials>>
    BY <1>6 DEF Drained
  <2>6. QED
    BY <2>1, <2>2, <2>3, <2>4, <2>5 DEF TypeOK, world
<1>7. ASSUME NEW id \in AllSeries, NEW n \in Nat, Answered(id, n)
      PROVE  /\ lane[id] \in Visit /\ spent' \in Nat /\ cut' \in BOOLEAN
             /\ fate' \in [AllSeries -> {"none", "visited", "skipped", "blocked"}]
  <2>1. lane[id] \in Visit
    BY <1>7, VisitType DEF Answered, Idle
  <2>2. spent' \in Nat
    BY <1>7 DEF Answered, TypeOK
  <2>3. cut' \in BOOLEAN
    <3>1. cut \in BOOLEAN /\ cut' \in {cut, cut \/ asked = "yield"}
      BY <1>7 DEF Answered, TypeOK
    <3>2. QED
      BY <3>1, Zenon
  <2>4. fate' \in [AllSeries -> {"none", "visited", "skipped", "blocked"}]
    BY <1>7 DEF Answered, TypeOK
  <2>5. QED
    BY <2>1, <2>2, <2>3, <2>4
<1>8. ASSUME NEW id \in AllSeries, NEW n \in 0 .. MaxNew, Land(id, n) PROVE TypeOK'
  <2>1. Answered(id, n) /\ n \in Nat /\ lane' = [lane EXCEPT ![id].at = "pausing"]
    BY <1>8, LimitsAssumption DEF Land
  <2>2. lane' \in [AllSeries -> Visit \cup {Idle}]
    BY <1>7, <2>1, LanesTyped
  <2>3. UNCHANGED <<world, queues, waiting, parked, deferred, reserved, stopped, loop, seen, moved, partials>>
    BY <1>8 DEF Land
  <2>4. QED
    BY <1>7, <2>1, <2>2, <2>3 DEF TypeOK, world
<1>9. ASSUME NEW id \in AllSeries, Blocked(id) PROVE TypeOK'
  <2>1. Answered(id, 0) /\ lane' = [lane EXCEPT ![id].at = "parking"]
        /\ parked' = parked \cup {lane[id].src}
    BY <1>9 DEF Blocked
  <2>2. lane' \in [AllSeries -> Visit \cup {Idle}] /\ lane[id].src \in Sources
    BY <1>7, <2>1, LanesTyped DEF Visit
  <2>3. UNCHANGED <<world, queues, waiting, deferred, reserved, stopped, loop, seen, moved, partials>>
    BY <1>9 DEF Blocked
  <2>4. QED
    BY <1>7, <2>1, <2>2, <2>3 DEF TypeOK, world
<1>10. ASSUME NEW id \in AllSeries, Leaves(id)
       PROVE  /\ lane' \in [AllSeries -> Visit \cup {Idle}]
              /\ loop' \in {"pass", "asleep", "freeing", "draining", "completing", "over"}
  BY <1>10, LanesTyped DEF Leaves, Woken, TypeOK
<1>11. ASSUME NEW id \in AllSeries, NEW n \in 0 .. MaxNew, DiskFull(id, n) PROVE TypeOK'
  <2>1. Answered(id, n) /\ n \in Nat /\ Leaves(id) /\ stopped' = "disk"
    BY <1>11, LimitsAssumption DEF DiskFull
  <2>2. UNCHANGED <<world, queues, waiting, parked, deferred, seen, moved, partials>>
    BY <1>11 DEF DiskFull
  <2>3. QED
    BY <1>1, <1>7, <1>10, <2>1, <2>2 DEF TypeOK, world, Stops
<1>12. ASSUME NEW id \in AllSeries, Paused(id) PROVE TypeOK'
  <2>1. Leaves(id)
    BY <1>12 DEF Paused
  <2>2. UNCHANGED <<world, queues, waiting, parked, deferred, spent, stopped, cut, fate, seen, moved, partials>>
    BY <1>12 DEF Paused
  <2>3. QED
    BY <1>1, <1>10, <2>1, <2>2 DEF TypeOK, world
<1>13. ASSUME NEW id \in AllSeries, HandOn(id) PROVE TypeOK'
  <2>1. Leaves(id)
    BY <1>13 DEF HandOn
  <2>2. queues' \in [Sources -> Seq(AllSeries)]
    BY <1>13, HandOnQueues DEF Placed
  <2>3. UNCHANGED <<world, waiting, parked, deferred, spent, stopped, cut, fate, seen, moved, partials>>
    BY <1>13 DEF HandOn
  <2>4. QED
    BY <1>1, <1>10, <2>1, <2>2, <2>3 DEF TypeOK, world
<1>14. QED
  BY <1>2, <1>3, <1>4, <1>5, <1>6, <1>8, <1>9, <1>11, <1>12, <1>13, Steps

-----------------------------------------------------------------------------
(* Every series stays in one place.                                        *)
(* When each series is in the places it was in, nothing more is asked.     *)
LEMMA SamePlaces ==
    ASSUME Placed, QueuesApart', UNCHANGED <<waiting, fate>>,
           \A x \in AllSeries : /\ Queued(x)' <=> Queued(x)
                                /\ OnLane(x)' <=> OnLane(x)
                                /\ lane'[x].at \in {"parking", "pausing"} =>
                                       lane[x].at \in {"parking", "pausing"}
    PROVE  Placed'
  BY DEF Placed, OnePlace, Done

LEMMA PlacedSame ==
    ASSUME Placed, UNCHANGED <<queues, waiting, lane, fate>>
    PROVE  Placed'
  BY DEF Placed, QueuesApart, OnePlace, Queued, OnLane, Done

(* One queue loses its head, or moves it to the back.                      *)
LEMMA HeadLeaves ==
    ASSUME TypeOK, QueuesApart, NEW src \in Sources, queues[src] # <<>>,
           queues' = [queues EXCEPT ![src] = Tail(@)]
    PROVE  /\ QueuesApart'
           /\ \A x \in AllSeries : Queued(x)' <=> Queued(x) /\ x # Head(queues[src])
<1>1. PICK id \in AllSeries : id = Head(queues[src])
  BY HeadIs
<1>2. /\ id \in Range(queues[src]) /\ Distinct(Tail(queues[src]))
      /\ Range(Tail(queues[src])) = Range(queues[src]) \ {id}
  BY <1>1, HeadIs
<1>3. /\ queues'[src] = Tail(queues[src])
      /\ \A s \in Sources \ {src} : queues'[s] = queues[s]
  BY DEF TypeOK
<1>4. QueuesApart'
  BY <1>2, <1>3 DEF QueuesApart
<1>5. ~ Queued(id)'
  BY <1>2, <1>3 DEF QueuesApart, Queued
<1>6. \A x \in AllSeries : x # id => (Queued(x)' <=> Queued(x))
  BY <1>2, <1>3 DEF Queued
<1>7. QED
  BY <1>1, <1>4, <1>5, <1>6

LEMMA HeadGoesBack ==
    ASSUME TypeOK, QueuesApart, NEW src \in Sources, queues[src] # <<>>,
           queues' = [queues EXCEPT ![src] = Append(Tail(@), Head(queues[src]))]
    PROVE  /\ QueuesApart'
           /\ \A x \in AllSeries : Queued(x)' <=> Queued(x)
<1> DEFINE id == Head(queues[src])
           tail == Tail(queues[src])
           back == Append(tail, id)
<1>1. /\ id \in Range(queues[src]) /\ Distinct(tail) /\ id \in AllSeries
      /\ tail \in Seq(AllSeries)
      /\ Range(tail) = Range(queues[src]) \ {id}
  BY HeadIs
<1>2. queues' = [queues EXCEPT ![src] = back]
  OBVIOUS
<1> HIDE DEF id, tail
<1>3. Distinct(back) /\ Range(back) = Range(queues[src])
  <2>1. id \notin Range(tail)
    BY <1>1
  <2>2. Distinct(back) /\ Range(back) = Range(tail) \cup {id}
    BY <1>1, <2>1, AppendIs
  <2>3. QED
    BY <1>1, <2>2
<1> HIDE DEF back
<1>4. /\ queues'[src] = back
      /\ \A s \in Sources \ {src} : queues'[s] = queues[s]
  BY <1>2 DEF TypeOK
<1>5. \A s \in Sources : Range(queues'[s]) = Range(queues[s]) /\ Distinct(queues'[s])
  BY <1>3, <1>4 DEF QueuesApart
<1>6. QED
  BY <1>5 DEF QueuesApart, Queued

(* A visit that answered is accounted for, and on no queue.                *)
LEMMA AnsweredPlaced ==
    ASSUME TypeOK, Placed, NEW id \in AllSeries, NEW n, Answered(id, n),
           UNCHANGED <<queues, waiting>>, lane'[id].at # "visiting",
           \A x \in AllSeries \ {id} : lane'[x] = lane[x]
    PROVE  Placed'
<1>1. /\ fate'[id] = "visited" /\ \A x \in AllSeries \ {id} : fate'[x] = fate[x]
      /\ OnLane(id)
  BY DEF Answered, TypeOK, OnLane
<1>2. QueuesApart' /\ \A x \in AllSeries : Queued(x)' <=> Queued(x)
  BY DEF Placed, QueuesApart, Queued
<1>3. OnePlace(id)'
  BY <1>1, <1>2 DEF Placed, OnePlace, OnLane, Done
<1>4. ASSUME NEW x \in AllSeries \ {id} PROVE OnePlace(x)'
  BY <1>1, <1>2 DEF Placed, OnePlace, OnLane, Done
<1>5. QED
  BY <1>2, <1>3, <1>4 DEF Placed

(* Nobody who waited with a parked source is lost or doubled.              *)
LEMMA HandOnApart ==
    ASSUME TypeOK, QueuesApart, NEW id \in AllSeries, HandOn(id)
    PROVE  QueuesApart' /\ \A x \in AllSeries : Queued(x)' <=> Queued(x)
<1> DEFINE src == lane[id].src
<1>1. /\ src \in Sources
      /\ \A s \in Sources : Distinct(queues'[s])
      /\ Range(queues'[src]) = {x \in Range(queues[src]) : Stays(src, x)}
      /\ \A s \in Sources \ {src} :
            Range(queues'[s]) = Range(queues[s]) \cup {x \in Range(queues[src]) : Onward(src, x) = s}
  BY HandOnQueues
<1>2. \A x \in AllSeries : Onward(src, x) \in (Sources \ {src}) \cup {NoSource}
  BY FirstOpenIs DEF Onward
<1>3. \A x : Stays(src, x) <=> Onward(src, x) = NoSource
  BY DEF Stays
<1>4. NoSource \notin Sources
  BY RouteAssumption
<1>5. Range(queues[src]) \in SUBSET AllSeries
  BY <1>1, RangeOfSeq DEF TypeOK
<1> HIDE DEF src
<1>6. ASSUME NEW s \in Sources, NEW t \in Sources, s # t
      PROVE  Range(queues'[s]) \cap Range(queues'[t]) = {}
  <2>1. Range(queues[s]) \cap Range(queues[t]) = {}
    BY <1>6 DEF QueuesApart
  <2>2. \A u \in Sources : u # src => Range(queues[src]) \cap Range(queues[u]) = {}
    BY <1>1 DEF QueuesApart
  <2>3. CASE s = src
    BY <1>1, <1>3, <1>4, <1>6, <2>2, <2>3
  <2>4. CASE t = src
    BY <1>1, <1>3, <1>4, <1>6, <2>2, <2>4
  <2>5. CASE s # src /\ t # src
    BY <1>1, <1>6, <2>1, <2>2, <2>5
  <2>6. QED
    BY <2>3, <2>4, <2>5
<1>7. ASSUME NEW x \in AllSeries PROVE Queued(x)' <=> Queued(x)
  <2>1. ASSUME Queued(x) PROVE Queued(x)'
    <3>1. PICK s \in Sources : x \in Range(queues[s])
      BY <2>1 DEF Queued
    <3>2. CASE s # src
      BY <1>1, <3>1, <3>2 DEF Queued
    <3>3. CASE s = src /\ Onward(src, x) = NoSource
      BY <1>1, <1>3, <3>1, <3>3 DEF Queued
    <3>4. CASE s = src /\ Onward(src, x) # NoSource
      BY <1>1, <1>2, <3>1, <3>4 DEF Queued
    <3>5. QED
      BY <3>2, <3>3, <3>4
  <2>2. ASSUME Queued(x)' PROVE Queued(x)
    BY <1>1, <2>2 DEF Queued
  <2>3. QED
    BY <2>1, <2>2
<1>8. QED
  BY <1>1, <1>6, <1>7 DEF QueuesApart

(* Whoever waited aside and has a source again joins one queue.            *)
LEMMA FreeSomePlaced ==
    ASSUME TypeOK, Placed, FreeSome
    PROVE  Placed'
<1>1. /\ \A s \in Sources : Distinct(queues'[s])
      /\ \A s \in Sources :
            Range(queues'[s]) = Range(queues[s]) \cup {x \in AllSeries : JoinsTo(x) = s}
  BY FreeSomeQueues
<1>2. waiting' = {x \in waiting : JoinsTo(x) = NoSource} /\ UNCHANGED <<lane, fate>>
  BY DEF FreeSome
<1>3. ASSUME NEW x \in AllSeries
      PROVE  /\ JoinsTo(x) \in Sources \cup {NoSource}
             /\ JoinsTo(x) # NoSource => x \in waiting /\ ~Queued(x) /\ ~OnLane(x) /\ ~Done(x)
  BY FirstOpenIs DEF JoinsTo, Placed, OnePlace
<1>4. NoSource \notin Sources
  BY RouteAssumption
<1>5. \A s \in Sources : Range(queues[s]) \in SUBSET AllSeries
  BY RangeOfSeq DEF TypeOK
<1>6. ASSUME NEW s \in Sources, NEW t \in Sources, s # t
      PROVE  Range(queues'[s]) \cap Range(queues'[t]) = {}
  <2>1. Range(queues[s]) \cap Range(queues[t]) = {}
    BY <1>6 DEF Placed, QueuesApart
  <2>2. \A x \in AllSeries, u \in Sources : x \in Range(queues[u]) => JoinsTo(x) = NoSource
    BY <1>3 DEF Queued
  <2>3. QED
    BY <1>1, <1>4, <1>6, <2>1, <2>2
<1>7. ASSUME NEW x \in AllSeries PROVE OnePlace(x)'
  <2>1. Queued(x)' <=> Queued(x) \/ JoinsTo(x) # NoSource
    BY <1>1, <1>3, <1>4 DEF Queued
  <2>2. x \in waiting' <=> x \in waiting /\ JoinsTo(x) = NoSource
    BY <1>2
  <2>3. OnePlace(x)
    BY DEF Placed
  <2>4. QED
    BY <1>2, <1>3, <2>1, <2>2, <2>3 DEF OnePlace, OnLane, Done
<1>8. QED
  BY <1>1, <1>6, <1>7 DEF Placed, QueuesApart

LEMMA DrainedPlaced ==
    ASSUME TypeOK, Placed, Drained
    PROVE  Placed'
<1>1. /\ queues' = [s \in Sources |-> <<>>] /\ waiting' = {} /\ UNCHANGED lane
      /\ \A id \in AllSeries : fate'[id] = IF id \in waiting THEN "blocked"
                                           ELSE IF Queued(id) THEN "skipped" ELSE fate[id]
  BY DEF Drained, Queued
<1>2. \A s \in Sources : Distinct(queues'[s]) /\ Range(queues'[s]) = {}
  BY <1>1, EmptyIs
<1>3. ASSUME NEW x \in AllSeries PROVE OnePlace(x)'
  <2>1. ~ Queued(x)' /\ x \notin waiting'
    BY <1>1, <1>2 DEF Queued
  <2>2. lane[x] = Idle
    BY VisitType DEF Drained, Running
  <2>3. Queued(x) \/ x \in waiting \/ Done(x)
    BY <2>2 DEF Placed, OnePlace, OnLane, Idle
  <2>4. Done(x)'
    BY <1>1, <2>3 DEF Done
  <2>5. lane'[x].at = "idle"
    BY <1>1, <2>2 DEF Idle
  <2>6. QED
    BY <2>1, <2>4, <2>5 DEF OnePlace, OnLane
<1>4. QED
  BY <1>2, <1>3 DEF Placed, QueuesApart

LEMMA PlacedKept ==
    ASSUME IInv, [Next]_vars
    PROVE  Placed'
<1> USE DEF IInv
<1>1. CASE Elsewhere
  BY <1>1, ElsewhereKeeps, PlacedSame
<1>2. ASSUME NEW src \in Sources, LeaveHeld(src) PROVE Placed'
  <2>1. queues[src] # <<>> /\ QueuesApart /\ UNCHANGED <<waiting, lane>>
    BY <1>2 DEF LeaveHeld, Turn, Ready, Placed
  <2>2. PICK id \in AllSeries : id = Head(queues[src]) /\ Queued(id)
    BY <2>1, HeadIs
  <2>3. CASE id \in deferred
    <3>1. /\ queues' = [queues EXCEPT ![src] = Tail(@)]
          /\ fate' = [fate EXCEPT ![id] = "skipped"]
      BY <1>2, <2>2, <2>3 DEF LeaveHeld
    <3>2. QueuesApart' /\ \A x \in AllSeries : Queued(x)' <=> Queued(x) /\ x # id
      BY <2>1, <2>2, <3>1, HeadLeaves
    <3>3. OnePlace(id)'
      <4>1. ~OnLane(id) /\ id \notin waiting
        BY <2>2 DEF Placed, OnePlace
      <4>2. fate'[id] = "skipped"
        BY <3>1 DEF TypeOK
      <4>3. QED
        BY <2>1, <3>2, <4>1, <4>2 DEF OnePlace, OnLane, Done
    <3>4. ASSUME NEW x \in AllSeries, x # id PROVE OnePlace(x)'
      <4>1. fate'[x] = fate[x] /\ OnePlace(x)
        BY <3>1, <3>4 DEF TypeOK, Placed
      <4>2. QED
        BY <2>1, <3>2, <3>4, <4>1 DEF OnePlace, OnLane, Done
    <3>5. QED
      BY <3>2, <3>3, <3>4 DEF Placed
  <2>4. CASE id \notin deferred
    <3>1. /\ queues' = [queues EXCEPT ![src] = Append(Tail(@), Head(queues[src]))]
          /\ fate' = [fate EXCEPT ![id] = fate[id]]
      BY <1>2, <2>2, <2>4 DEF LeaveHeld
    <3>2. QueuesApart' /\ \A x \in AllSeries : Queued(x)' <=> Queued(x)
      BY <2>1, <3>1, HeadGoesBack
    <3>3. fate' = fate
      BY <3>1 DEF TypeOK
    <3>4. QED
      BY <2>1, <3>2, <3>3, SamePlaces DEF OnLane
  <2>5. QED
    BY <2>3, <2>4
<1>3. ASSUME NEW src \in Sources, Begin(src) PROVE Placed'
  <2>1. queues[src] # <<>> /\ QueuesApart
    BY <1>3 DEF Begin, Turn, Ready, Placed
  <2>2. PICK id \in AllSeries : id = Head(queues[src]) /\ Queued(id)
    BY <2>1, HeadIs
  <2>3. /\ queues' = [queues EXCEPT ![src] = Tail(@)] /\ UNCHANGED <<waiting, fate>>
        /\ lane' = [lane EXCEPT ![id] =
               [at |-> "visiting", src |-> src, key |-> key[src], take |-> Take(reserved)]]
    BY <1>3, <2>2 DEF Begin
  <2>4. QueuesApart' /\ \A x \in AllSeries : Queued(x)' <=> Queued(x) /\ x # id
    BY <2>1, <2>2, <2>3, HeadLeaves
  <2>5. lane'[id].at = "visiting" /\ \A x \in AllSeries \ {id} : lane'[x] = lane[x]
    BY <2>3 DEF TypeOK
  <2>6. OnePlace(id)'
    <3>1. id \notin waiting /\ ~Done(id)
      BY <2>2 DEF Placed, OnePlace
    <3>2. QED
      BY <2>3, <2>4, <2>5, <3>1 DEF OnePlace, OnLane, Done
  <2>7. ASSUME NEW x \in AllSeries, x # id PROVE OnePlace(x)'
    <3>1. OnePlace(x)
      BY DEF Placed
    <3>2. QED
      BY <2>3, <2>4, <2>5, <2>7, <3>1 DEF OnePlace, OnLane, Done
  <2>8. QED
    BY <2>4, <2>6, <2>7 DEF Placed
<1>4. CASE FreeSome
  BY <1>4, FreeSomePlaced
<1>5. CASE Drained
  BY <1>5, DrainedPlaced
<1>6. ASSUME NEW id \in AllSeries, NEW n, Answered(id, n), NEW w \in {"pausing", "parking"},
             lane' = [lane EXCEPT ![id].at = w], UNCHANGED <<queues, waiting>>
      PROVE  Placed'
  <2>1. lane[id] \in Visit
    BY <1>6, VisitType DEF Answered, Idle
  <2>2. lane'[id].at = w /\ \A x \in AllSeries \ {id} : lane'[x] = lane[x]
    BY <1>6, <2>1 DEF TypeOK, Visit
  <2>3. QED
    BY <1>6, <2>2, AnsweredPlaced
<1>7. ASSUME NEW id \in AllSeries, NEW n \in 0 .. MaxNew, Land(id, n) PROVE Placed'
  BY <1>6, <1>7 DEF Land
<1>8. ASSUME NEW id \in AllSeries, Blocked(id) PROVE Placed'
  BY <1>6, <1>8 DEF Blocked
<1>9. ASSUME NEW id \in AllSeries, NEW n \in 0 .. MaxNew, DiskFull(id, n) PROVE Placed'
  <2>1. Answered(id, n) /\ Leaves(id) /\ UNCHANGED <<queues, waiting>>
    BY <1>9 DEF DiskFull
  <2>2. lane[id] # Idle
    BY <2>1 DEF Answered, Idle
  <2>3. lane'[id].at = "idle" /\ \A x \in AllSeries \ {id} : lane'[x] = lane[x]
    BY <2>1, <2>2, LeavesInBudget
  <2>4. QED
    BY <2>1, <2>3, AnsweredPlaced
<1>10. ASSUME NEW id \in AllSeries, Paused(id) \/ HandOn(id) PROVE Placed'
  <2>1. Leaves(id) /\ UNCHANGED <<waiting, fate>> /\ lane[id].at \in {"pausing", "parking"}
    BY <1>10 DEF Paused, HandOn
  <2>2. lane[id] # Idle /\ ~OnLane(id)
    BY <2>1 DEF Idle, OnLane
  <2>3. lane'[id].at = "idle" /\ \A x \in AllSeries \ {id} : lane'[x] = lane[x]
    BY <2>1, <2>2, LeavesInBudget
  <2>4. QueuesApart' /\ \A x \in AllSeries : Queued(x)' <=> Queued(x)
    <3>1. CASE Paused(id)
      BY <3>1 DEF Paused, Placed, QueuesApart, Queued
    <3>2. CASE HandOn(id)
      BY <3>2, HandOnApart DEF Placed
    <3>3. QED
      BY <1>10, <3>1, <3>2
  <2>5. ASSUME NEW x \in AllSeries
        PROVE  /\ OnLane(x)' <=> OnLane(x)
               /\ lane'[x].at \in {"parking", "pausing"} => lane[x].at \in {"parking", "pausing"}
    BY <2>2, <2>3 DEF OnLane
  <2>6. QED
    BY <2>1, <2>4, <2>5, SamePlaces
<1>11. QED
  BY <1>1, <1>2, <1>3, <1>4, <1>5, <1>7, <1>8, <1>9, <1>10, Steps

-----------------------------------------------------------------------------
(* The loop gives up only when nothing can move.                           *)
LEMMA NothingRuns ==
    ASSUME Running = {}, NEW id \in AllSeries
    PROVE  lane[id] = Idle /\ lane[id].at = "idle"
  BY DEF Running, Idle

LEMMA FreeWhenNothingRuns ==
    ASSUME Running = {}, NEW src
    PROVE  Free(src)
<1>1. Width >= 1 /\ Width \in Nat
  BY LimitsAssumption DEF Width
<1>2. Cardinality(Running) = 0
  BY FS_EmptySet
<1>3. QED
  BY <1>1, <1>2 DEF Free

(* Nobody joined: the queues are what they were.                           *)
LEMMA NobodyJoins ==
    ASSUME TypeOK, FreeSome, {x \in waiting : JoinsTo(x) # NoSource} = {}
    PROVE  \A s \in Sources : queues'[s] = queues[s]
<1> SUFFICES ASSUME NEW s \in Sources PROVE queues'[s] = queues[s]
  OBVIOUS
<1>1. s # NoSource
  BY RouteAssumption
<1>2. {x \in AllSeries : JoinsTo(x) = s} = {}
  BY <1>1 DEF JoinsTo
<1> DEFINE more == Among(Rows, {x \in AllSeries : JoinsTo(x) = s})
<1>3. more \in Seq(AllSeries) /\ Range(more) = {}
  BY <1>2, RowsOnce, AmongIs
<1>4. queues'[s] = queues[s] \o more
  BY DEF FreeSome
<1> HIDE DEF more
<1>5. more = <<>>
  BY <1>3, EmptyRange
<1>6. queues[s] \in Seq(AllSeries)
  BY DEF TypeOK
<1>7. QED
  BY <1>4, <1>5, <1>6, ConcatEmptySeq

LEMMA FreeSomeQuiet ==
    ASSUME IInv, FreeSome
    PROVE  Quiet'
<1> USE DEF IInv
<1> DEFINE joining == {x \in waiting : JoinsTo(x) # NoSource}
<1>1. /\ loop = "freeing" /\ seen' = {} /\ UNCHANGED <<lane, parked>>
      /\ loop' = IF Freed(Cardinality(joining)) THEN "pass" ELSE "draining"
  BY DEF FreeSome
<1>2. CASE loop' = "pass"
  BY <1>1, <1>2 DEF Quiet
<1>3. CASE loop' = "draining"
  <2>1. ~moved /\ ~ (Cardinality(joining) > 0)
    BY <1>1, <1>3 DEF Freed
  <2>2. joining = {}
    <3>1. joining \in SUBSET AllSeries
      BY DEF TypeOK
    <3> HIDE DEF joining
    <3>2. IsFiniteSet(joining) /\ Cardinality(joining) \in Nat
      BY <3>1, SeriesFinite, FS_Subset, FS_CardinalityType
    <3>3. QED
      BY <2>1, <3>2, FS_EmptySet
  <2>3. \A s \in Sources : queues'[s] = queues[s]
    BY <2>2, NobodyJoins
  <2>4. Settled
    BY <1>1, <2>1 DEF Quiet
  <2>5. Settled'
    BY <1>1, <2>3, <2>4 DEF Settled, Running
  <2>6. QED
    BY <1>3, <2>5 DEF Quiet
<1>4. QED
  BY <1>1, <1>2, <1>3

(* A pass in which no queue moved, nothing running: all that is left is    *)
(* parked.                                                                 *)
LEMMA PassOverQuiet ==
    ASSUME IInv, PassOver
    PROVE  Quiet'
<1> USE DEF IInv
<1>1. /\ loop = "pass" /\ seen' = {} /\ \A src \in Sources : ~Ready(src)
      /\ UNCHANGED <<queues, lane, parked, stopped>>
      /\ loop' = IF stopped # "none" THEN "draining"
                 ELSE IF Running # {} THEN "asleep"
                 ELSE IF moved THEN "pass" ELSE "freeing"
  BY DEF PassOver
<1>2. CASE loop' = "freeing"
  <2>1. Running = {} /\ ~moved
    BY <1>1, <1>2
  <2>2. seen = {}
    BY <1>1, <2>1 DEF Quiet
  <2>3. \A src \in Sources : queues[src] # <<>> => src \in parked
    BY <1>1, <2>1, <2>2, FreeWhenNothingRuns DEF Ready
  <2>4. Settled'
    BY <1>1, <2>1, <2>3 DEF Settled, Running
  <2>5. QED
    BY <1>2, <2>4 DEF Quiet
<1>3. CASE loop' = "draining"
  BY <1>1, <1>3 DEF Quiet
<1>4. CASE loop' \in {"asleep", "pass"}
  BY <1>1, <1>4 DEF Quiet
<1>5. QED
  BY <1>1, <1>2, <1>3, <1>4

(* A visit ends: the loop was waiting for it.                              *)
LEMMA VisitQuiet ==
    ASSUME IInv, NEW id \in AllSeries, lane[id] # Idle, UNCHANGED <<seen, moved>>,
           \/ UNCHANGED <<loop, stopped>>
           \/ loop' = Woken /\ stopped' \in {stopped, "disk"}
    PROVE  Quiet'
<1> USE DEF IInv
<1>1. Running # {}
  BY DEF Running
<1>2. /\ loop = "freeing" => moved
      /\ loop = "draining" => stopped # "none"
      /\ loop # "completing"
  BY <1>1 DEF Quiet, Settled
<1>3. /\ loop' = loop \/ (loop = "asleep" /\ loop' \in {"pass", "draining"})
      /\ loop' = "draining" /\ loop # "draining" => stopped' # "none"
      /\ stopped # "none" => stopped' # "none"
  BY DEF Woken
<1>4. QED
  BY <1>2, <1>3 DEF Quiet

LEMMA QuietKept ==
    ASSUME IInv, [Next]_vars
    PROVE  Quiet'
<1> USE DEF IInv
<1>1. CASE Elsewhere
  <2>1. UNCHANGED <<queues, lane>>
    BY <1>1, ElsewhereKeeps
  <2>2. CASE World \/ Over \/ UNCHANGED vars
    <3>1. UNCHANGED <<loop, seen, moved, stopped, parked>>
      BY <2>2 DEF World, Cool, Claim, Learn, AskToStop, Untouched, Over, vars
    <3>2. QED
      BY <2>1, <3>1 DEF Quiet, Settled, Running
  <2>3. CASE PassOver
    BY <2>3, PassOverQuiet
  <2>4. CASE CompletionOver
    BY <2>4 DEF CompletionOver, Quiet
  <2>5. ASSUME NEW src \in Sources, Stop(src) PROVE Quiet'
    BY <2>5 DEF Stop, Quiet
  <2>6. ASSUME NEW src \in Sources, Unpark(src) PROVE Quiet'
    <3>1. /\ loop = "freeing" /\ loop' = loop
          /\ moved' = (moved \/ src \notin cooling)
          /\ parked' = IF src \in cooling THEN parked ELSE parked \ {src}
      BY <2>6 DEF Unpark
    <3>2. ASSUME ~moved' PROVE Settled'
      <4>1. ~moved /\ parked' = parked
        BY <3>1, <3>2
      <4>2. QED
        BY <2>1, <3>1, <4>1 DEF Quiet, Settled, Running
    <3>3. QED
      BY <3>1, <3>2 DEF Quiet
  <2>7. ASSUME NEW cost \in {0, 1}, NEW full \in BOOLEAN, Complete(cost, full) PROVE Quiet'
    BY <2>1, <2>7 DEF Complete, Quiet, Running
  <2>8. QED
    BY <1>1, <2>2, <2>3, <2>4, <2>5, <2>6, <2>7 DEF Elsewhere
<1>2. ASSUME NEW src \in Sources, LeaveHeld(src) PROVE Quiet'
  BY <1>2 DEF LeaveHeld, Turn, Passed, Quiet
<1>3. ASSUME NEW src \in Sources, Begin(src) PROVE Quiet'
  BY <1>3 DEF Begin, Turn, Passed, Quiet
<1>4. CASE FreeSome
  BY <1>4, FreeSomeQuiet
<1>5. CASE Drained
  <2>1. Running = {} /\ UNCHANGED lane /\ loop' \in {"completing", "over"}
    BY <1>5 DEF Drained
  <2>2. Running' = {}
    BY <2>1 DEF Running
  <2>3. QED
    BY <2>1, <2>2 DEF Quiet
<1>6. ASSUME NEW id \in AllSeries, NEW n \in 0 .. MaxNew, Land(id, n) \/ DiskFull(id, n)
      PROVE  Quiet'
  <2>1. /\ lane[id] # Idle /\ UNCHANGED <<seen, moved>>
        /\ \/ UNCHANGED <<loop, stopped>>
           \/ loop' = Woken /\ stopped' = "disk"
    BY <1>6 DEF Land, DiskFull, Answered, Leaves, Idle
  <2>2. QED
    BY <2>1, VisitQuiet
<1>7. ASSUME NEW id \in AllSeries, Blocked(id) PROVE Quiet'
  <2>1. lane[id] # Idle /\ UNCHANGED <<seen, moved, loop, stopped>>
    BY <1>7 DEF Blocked, Answered, Idle
  <2>2. QED
    BY <2>1, VisitQuiet
<1>8. ASSUME NEW id \in AllSeries, Paused(id) \/ HandOn(id) PROVE Quiet'
  <2>1. UNCHANGED <<seen, moved, stopped>> /\ Leaves(id)
    BY <1>8 DEF Paused, HandOn
  <2>2. lane[id] # Idle
    <3>1. lane[id].at \in {"parking", "pausing"}
      BY <1>8 DEF Paused, HandOn
    <3>2. QED
      BY <3>1 DEF Idle
  <2>3. loop' = Woken
    BY <2>1 DEF Leaves
  <2>4. QED
    BY <2>1, <2>2, <2>3, VisitQuiet
<1>9. QED
  BY <1>1, <1>2, <1>3, <1>4, <1>5, <1>6, <1>7, <1>8, Steps

-----------------------------------------------------------------------------
(* The whole.                                                              *)
LEMMA InitInv ==
    ASSUME Init
    PROVE  IInv
<1> DEFINE of(s) == {id \in AllSeries : StartQueue(id) = s}
<1>1. /\ queues = [s \in Sources |-> Among(Rows, of(s))]
      /\ waiting = {id \in AllSeries : StartQueue(id) = NoSource}
      /\ lane = [id \in AllSeries |-> Idle] /\ fate = [id \in AllSeries |-> "none"]
      /\ spent = 0 /\ reserved = 0 /\ parked = {} /\ deferred = {} /\ seen = {} /\ key = KeyAt
      /\ loop = "pass"
  BY DEF Init
<1>2. ASSUME NEW s \in Sources
      PROVE  /\ queues[s] \in Seq(AllSeries) /\ Distinct(queues[s])
             /\ Range(queues[s]) = of(s)
  <2>1. queues[s] = Among(Rows, of(s))
    BY <1>1
  <2>2. of(s) \in SUBSET AllSeries
    OBVIOUS
  <2> HIDE DEF of
  <2>3. /\ Among(Rows, of(s)) \in Seq(AllSeries) /\ Distinct(Among(Rows, of(s)))
        /\ Range(Among(Rows, of(s))) = Range(Rows) \cap of(s)
    BY RowsOnce, AmongIs
  <2>4. QED
    BY <2>1, <2>2, <2>3, RowsOnce
<1>3. NoSource \notin Sources
  BY RouteAssumption
<1>4. \A id \in AllSeries : lane[id] = Idle /\ lane[id].at = "idle" /\ fate[id] = "none"
  BY <1>1 DEF Idle
<1>5. TypeOK
  <2>1. key \in [Sources -> Range(KeyAt)]
    BY <1>1, KeyAssumption
  <2>2. queues \in [Sources -> Seq(AllSeries)]
    <3>1. \A s \in Sources : queues[s] \in Seq(AllSeries)
      BY <1>2
    <3>2. queues = [s \in Sources |-> queues[s]]
      BY <1>1
    <3>3. QED
      BY <3>1, <3>2
  <2>3. lane \in [AllSeries -> Visit \cup {Idle}]
    BY <1>1
  <2>4. fate \in [AllSeries -> {"none", "visited", "skipped", "blocked"}]
    BY <1>1
  <2>5. partials \in Nat
    BY LimitsAssumption DEF Init
  <2>6. waiting \subseteq AllSeries
    BY <1>1
  <2>7. /\ finishing \in BOOLEAN /\ cooling \subseteq CanCool /\ held \subseteq CanHold
        /\ asked = "none" /\ stopped = "none" /\ cut = FALSE /\ moved = FALSE
    BY DEF Init
  <2>8. QED
    BY <1>1, <2>1, <2>2, <2>3, <2>4, <2>5, <2>6, <2>7 DEF TypeOK
<1>6. Placed
  <2>1. QueuesApart
    BY <1>2 DEF QueuesApart
  <2>2. ASSUME NEW id \in AllSeries PROVE OnePlace(id)
    <3>1. StartQueue(id) \in Sources \cup {NoSource}
      BY StartQueueIs
    <3>2. Queued(id) <=> StartQueue(id) \in Sources
      BY <1>2 DEF Queued
    <3>3. id \in waiting <=> StartQueue(id) = NoSource
      BY <1>1
    <3>4. QED
      BY <1>3, <1>4, <3>1, <3>2, <3>3 DEF OnePlace, OnLane, Done
  <2>3. QED
    BY <2>1, <2>2 DEF Placed
<1>7. Budget
  <2>1. Running = {} /\ Visiting = {}
    BY <1>4 DEF Running, Visiting, OnLane
  <2>2. Sum({}, lane) = 0
    BY SumOfNone
  <2>3. QED
    BY <1>1, <2>1, <2>2, LimitsAssumption DEF Budget
<1>8. Quiet
  BY <1>1 DEF Quiet
<1>9. QED
  BY <1>5, <1>6, <1>7, <1>8 DEF IInv

LEMMA NextInv ==
    ASSUME IInv, [Next]_vars
    PROVE  IInv'
  BY TypeKept, PlacedKept, BudgetKept, QuietKept DEF IInv

LEMMA SpecInv == Spec => []IInv
  BY InitInv, NextInv, PTL DEF Spec

(* Whatever the routes and however many the lanes, the state of            *)
(* runUpdateAll is well formed: what a visit may take is at least one      *)
(* chapter and at most opts.maxNew, and what is reserved is never negative *)
(* though every visit's end subtracts from it.                             *)
THEOREM TypeCorrect == Spec => []TypeOK
<1>1. IInv => TypeOK
  BY DEF IInv
<1>2. QED
  BY <1>1, SpecInv, PTL

(* However often a series is deferred, handed on from a parked queue, set  *)
(* aside and freed, runUpdateAll has it in exactly one place: it is never  *)
(* visited twice, lost, or counted as skipped after it was visited.        *)
THEOREM EachOnce == Spec => []EachSeriesOnce
<1>1. ASSUME IInv PROVE EachSeriesOnce
  <2> USE DEF IInv
  <2> SUFFICES ASSUME NEW id \in AllSeries
               PROVE  Cardinality(PlacesOf(id)) = 1
    BY <1>1 DEF EachSeriesOnce
  <2>1. OnePlace(id) /\ QueuesApart
    BY <1>1 DEF Placed
  <2>2. ~Queued(id) => SpotsOf(id) = {}
    BY DEF SpotsOf, Queued, Range
  <2>3. ASSUME Queued(id) PROVE \E x : SpotsOf(id) = {x}
    <3>1. PICK s \in Sources : id \in Range(queues[s])
      BY <2>3 DEF Queued
    <3>2. PICK i \in DOMAIN queues[s] : queues[s][i] = id
      BY <3>1 DEF Range
    <3>3. \A t \in Sources : \A j \in DOMAIN queues[t] : queues[t][j] = id => t = s /\ j = i
      <4> SUFFICES ASSUME NEW t \in Sources, NEW j \in DOMAIN queues[t], queues[t][j] = id
                   PROVE  t = s /\ j = i
        OBVIOUS
      <4>1. id \in Range(queues[t])
        BY DEF Range
      <4>2. t = s
        BY <2>1, <3>1, <4>1 DEF QueuesApart
      <4>3. QED
        BY <2>1, <3>2, <4>2 DEF QueuesApart, Distinct
    <3>4. SpotsOf(id) = {<<s, i>>}
      BY <3>2, <3>3 DEF SpotsOf
    <3>5. QED
      BY <3>4
  <2>4. PlacesOf(id) = SpotsOf(id)
            \cup (IF OnLane(id) THEN {<<"lane", 0>>} ELSE {})
            \cup (IF id \in waiting THEN {<<"aside", 0>>} ELSE {})
            \cup (IF Done(id) THEN {<<"fate", 0>>} ELSE {})
    BY DEF PlacesOf, OnLane, Done
  <2>5. \E x : PlacesOf(id) = {x}
    <3>1. CASE Queued(id)
      BY <2>1, <2>3, <2>4, <3>1 DEF OnePlace
    <3>2. CASE ~Queued(id) /\ OnLane(id)
      BY <2>1, <2>2, <2>4, <3>2 DEF OnePlace
    <3>3. CASE ~Queued(id) /\ ~OnLane(id) /\ id \in waiting
      BY <2>1, <2>2, <2>4, <3>3 DEF OnePlace
    <3>4. CASE ~Queued(id) /\ ~OnLane(id) /\ id \notin waiting
      BY <2>1, <2>2, <2>4, <3>4 DEF OnePlace
    <3>5. QED
      BY <3>1, <3>2, <3>3, <3>4
  <2>6. QED
    BY <2>5, FS_Singleton
<1>2. QED
  BY <1>1, SpecInv, PTL

(* What all lanes and the completion pass attempt together never passes    *)
(* opts.sweepMax, because every visit reserved its part when it began.     *)
THEOREM BudgetKeeps == Spec => []BudgetHolds
<1>1. ASSUME IInv PROVE BudgetHolds
  <2>1. IsFiniteSet(Visiting)
    <3>1. Visiting \in SUBSET AllSeries
      BY DEF Visiting
    <3>2. QED
      BY <3>1, SeriesFinite, FS_Subset
  <2>2. Sum(Visiting, lane) \in Nat
    BY <2>1, SumType
  <2>3. spent + Sum(Visiting, lane) <= SweepMax /\ spent \in Nat /\ SweepMax \in Nat
    BY <1>1, LimitsAssumption DEF IInv, Budget, TypeOK
  <2>4. QED
    BY <2>2, <2>3 DEF BudgetHolds
<1>2. QED
  BY <1>1, SpecInv, PTL

(* A sweep that nobody stopped gives up a queue only when its source is    *)
(* parked: freeSome ends the sweep after a pass in which nothing moved,    *)
(* and in such a pass a queue that is not parked is empty.                 *)
THEOREM OnlyParkedLeft == Spec => []LeftOnlyParked
<1>1. IInv => LeftOnlyParked
  BY DEF IInv, Quiet, Settled, LeftOnlyParked
<1>2. QED
  BY <1>1, SpecInv, PTL

=============================================================================
