------------------------- MODULE ProgressSyncProofs -------------------------
(***************************************************************************)
(* Proofs about ProgressSync, for any number of people, pages, failures,   *)
(* changes of hands and restarts.                                          *)
(*                                                                         *)
(* A time is given to one event only (OneEventAtATime), and never to one   *)
(* that was turned later (StampedAfter): so what is sent twice is known by *)
(* its time, and the entry a flush is at is one entry.  Where that entry   *)
(* has landed, or a ping has, the server was called with it (LandedIsThere)*)
(* and may be forgotten; the place on the server is that of the newest     *)
(* request it was called with (PlaceOfNewest).                             *)
(***************************************************************************)
EXTENDS ProgressSync, TLAPS

\* In the queue, or in what a flush read of it.
Waiting(r) == r \in outbox \/ \E f \in Flushers : r \in flush[f].list

\* A time some request for the event gives, or gave.
Stamped(t, e) ==
    \/ \E w \in written : w.at = t /\ w.ev = e
    \/ \E p \in pings : p.at = t /\ p.ev = e
    \/ \E r \in Queued : Waiting(r) /\ r.ts = t /\ r.ev = e

StampedAfter == \A t \in Nat, e \in Event : Stamped(t, e) => e.at <= t /\ t <= now
OneEventAtATime == \A t \in Nat, d, e \in Event : Stamped(t, d) /\ Stamped(t, e) => d = e
OneEntryAtATime == \A r, s \in Queued : Waiting(r) /\ Waiting(s) /\ r.ts = s.ts => r = s
Stamps == StampedAfter /\ OneEventAtATime /\ OneEntryAtATime

LandedIsThere ==
    /\ \A p \in pings : p.landed => \E w \in written : w.ev = p.ev
    /\ \A f \in Flushers : flush[f].pc = "landed" =>
          \A r \in First(f) : \E w \in written : w.ev = r.ev

PlaceOfNewest ==
    /\ \A w \in written : w.at <= row[w.as].at
    /\ \A a \in Accounts :
          \/ row[a].at = 0 /\ \A w \in written : w.as # a
          \/ \E v \in written : v.as = a /\ v.ev.at = row[a].page /\ v.at = row[a].at

IInv == TypeOK /\ Stamps /\ LandedIsThere /\ PlaceOfNewest /\ NothingLost /\ FinishedStands

(* What the pieces of the steps return.                                    *)
LEMMA TurnedType ==
    ASSUME TypeOK, NEW a \in Accounts
    PROVE  Turned(a) \in Event /\ Turned(a).at = now + 1
  BY DEF TypeOK, Turned, Event

LEMMA WriteType ==
    ASSUME TypeOK, NEW a \in Accounts, NEW e \in Event, NEW t \in Nat, writeProgress(a, e, t)
    PROVE  /\ row' \in [Accounts -> [page : Nat, at : Nat, done : BOOLEAN]]
           /\ written' \in SUBSET Request
PROOF
<1>1. /\ Place(row[a], e, t) \in Nat /\ Stamp(row[a], t) \in Nat /\ Done(row[a], e, t) \in BOOLEAN
  BY DEF TypeOK, Place, Stamp, Done, Event
<1>2. [ev |-> e, as |-> a, at |-> t] \in Request
  BY DEF Request
<1> QED
  BY <1>1, <1>2 DEF TypeOK, writeProgress

LEMMA PopsType ==
    ASSUME TypeOK, NEW f \in Flushers, NEW r, Pops(f, r)
    PROVE  flush' \in [Flushers -> Flush]
PROOF
<1>1. ASSUME NEW g \in Flush PROVE Popped(g, r) \in Flush
  BY DEF Flush, NoFlush, Popped
<1> QED
  BY <1>1 DEF TypeOK, Pops

(* A flush that goes on as somebody keeps what it has to send.              *)
LEMMA SendsAs ==
    ASSUME flush \in [Flushers -> Flush], NEW f \in Flushers,
           NEW pc \in {"loop", "sent"}, NEW a \in Accounts \cup {None},
           flush' = [flush EXCEPT ![f] = [@ EXCEPT !.pc = pc, !.as = a]]
    PROVE  /\ flush' \in [Flushers -> Flush]
           /\ flush'[f].pc = pc /\ flush'[f].list = flush[f].list
           /\ \A g \in Flushers : g # f => flush'[g] = flush[g]
PROOF
<1> DEFINE v == flush[f]
           w == [v EXCEPT !.pc = pc, !.as = a]
<1>1. v \in Flush /\ w = [v EXCEPT !.pc = pc, !.as = a] /\ flush' = [flush EXCEPT ![f] = w] /\ v = flush[f]
  OBVIOUS
<1> HIDE DEF v, w
<1>2. w \in Flush /\ w.pc = pc /\ w.list = v.list
  BY <1>1 DEF Flush
<1> QED
  BY <1>1, <1>2

LEMMA Minted ==
    ASSUME TypeOK, freshAccessToken
    PROVE  /\ flush' \in [Flushers -> Flush]
           /\ \A g \in Flushers : g # "worker" => flush'[g] = flush[g]
           /\ flush'["worker"].pc # "landed"
           /\ flush'["worker"].list \subseteq flush["worker"].list
PROOF
<1>0. "worker" \in Flushers /\ flush \in [Flushers -> Flush] /\ jar \in Accounts \cup {None}
  BY DEF TypeOK, Flushers, person
<1>1. CASE flush' = [flush EXCEPT !["worker"] = [@ EXCEPT !.pc = "loop", !.as = jar]]
  <2> DEFINE pc == "loop"
  <2>1. pc = "loop" /\ pc \in {"loop", "sent"}
    OBVIOUS
  <2>2. flush' = [flush EXCEPT !["worker"] = [@ EXCEPT !.pc = pc, !.as = jar]]
    BY <1>1
  <2> HIDE DEF pc
  <2>3. /\ flush' \in [Flushers -> Flush]
        /\ flush'["worker"].pc = pc /\ flush'["worker"].list = flush["worker"].list
        /\ \A g \in Flushers : g # "worker" => flush'[g] = flush[g]
    BY <1>0, <2>1, <2>2, SendsAs
  <2> QED
    BY <2>1, <2>3
<1>2. CASE flush' = [flush EXCEPT !["worker"] = NoFlush]
  BY <1>0, <1>2 DEF NoFlush, Flush
<1> QED
  BY <1>1, <1>2 DEF freshAccessToken

(* Every step keeps the types.                                             *)
LEMMA TypeStep ==
    ASSUME TypeOK, Next
    PROVE  TypeOK'
PROOF
<1> USE ProgressAssumption DEF TypeOK, person, server, Event, Queued, Request, Ping, Flush, Flushers,
         Pages, NoHand, NoFlush
<1>1. CASE Turn
  <2>1. Turned(tab) \in Event
    BY <1>1, TurnedType DEF Turn
  <2>2. [ev |-> Turned(tab), as |-> tab, at |-> now + 1, landed |-> FALSE]
           \in Ping
    BY <1>1, <2>1 DEF Turn, Ping
  <2> QED
    BY <1>1, <2>1, <2>2 DEF Turn
<1>2. CASE Goes
  BY <1>2 DEF Goes
<1>3. CASE flushOutbox
  BY <1>3 DEF flushOutbox, Opens, Own
<1>4. CASE flushOutboxSW
  BY <1>4 DEF flushOutboxSW, Opens
<1>5. CASE freshAccessToken
  <2>1. fails' \in 0 .. MaxFails
    BY <1>5 DEF freshAccessToken
  <2>2. flush' \in [Flushers -> Flush]
    BY <1>5, Minted DEF TypeOK
  <2> QED
    BY <1>5, <2>1, <2>2 DEF freshAccessToken
<1>6. CASE SendsSW
  <2>1. flush' \in [Flushers -> Flush]
    BY <1>6, PopsType DEF SendsSW
  <2> QED
    BY <1>6, <2>1 DEF SendsSW
<1>7. ASSUME NEW a \in Accounts, Elsewhere(a) PROVE TypeOK'
  <2>1. Turned(a) \in Event
    BY TurnedType
  <2>2. /\ row' \in [Accounts -> [page : Nat, at : Nat, done : BOOLEAN]]
        /\ written' \in SUBSET Request
    BY <1>7, <2>1, WriteType DEF Elsewhere
  <2> QED
    BY <1>7, <2>1, <2>2 DEF Elsewhere
<1>8. ASSUME NEW a \in Accounts, changeProfile(a) PROVE TypeOK'
  <2>1. switches' \in 0 .. MaxSwitches
    BY <1>8 DEF changeProfile
  <2>2. hand' \in [pc : {"none", "flush", "asked", "answered"}, to : Accounts \cup {None}]
    BY <1>8 DEF changeProfile
  <2>3. flush' \in [Flushers -> Flush]
    <3>1. CASE Own(outbox) = {}
      BY <1>8, <3>1 DEF changeProfile
    <3>2. CASE Own(outbox) # {}
      <4>1. Opens("switch", "loop", Own(outbox))
        BY <1>8, <3>2 DEF changeProfile
      <4>2. [NoFlush EXCEPT !.pc = "loop", !.list = Own(outbox)] \in Flush
        BY DEF Own, Flush
      <4> QED
        BY <4>1, <4>2 DEF Opens
    <3> QED
      BY <3>1, <3>2
  <2> QED
    BY <1>8, <2>1, <2>2, <2>3 DEF changeProfile
<1>9. ASSUME NEW a \in Accounts, login(a) PROVE TypeOK'
  BY <1>9 DEF login
<1>10. ASSUME NEW p \in pings, PingLands(p) PROVE TypeOK'
  <2>1. /\ row' \in [Accounts -> [page : Nat, at : Nat, done : BOOLEAN]]
        /\ written' \in SUBSET Request
    BY <1>10, WriteType DEF PingLands
  <2>2. ASSUME NEW q \in Ping PROVE [q EXCEPT !.landed = TRUE] \in Ping
    OBVIOUS
  <2>3. fails' \in 0 .. MaxFails
    BY <1>10 DEF PingLands
  <2>4. \/ pings' = pings \ {p}
        \/ pings' = (pings \ {p}) \cup {[p EXCEPT !.landed = TRUE]}
    BY <1>10 DEF PingLands
  <2> QED
    <3>1. pings' \in SUBSET Ping
      <4> HIDE DEF Ping
      <4> QED
        BY <2>2, <2>4
    <3> QED
      BY <1>10, <2>1, <2>3, <3>1 DEF PingLands
<1>11. ASSUME NEW p \in pings, PingFails(p) PROVE TypeOK'
  BY <1>11 DEF PingFails, queueProgress
<1>12. ASSUME NEW f \in Flushers, Sends(f) PROVE TypeOK'
  <2>1. tab' \in Accounts \cup {None}
    BY <1>12 DEF Sends
  <2>2. flush' \in [Flushers -> Flush]
    <3> DEFINE pc == "sent"
    <3>1. pc \in {"loop", "sent"}
      OBVIOUS
    <3>2. flush' = [flush EXCEPT ![f] = [@ EXCEPT !.pc = pc, !.as = tab']]
      BY <1>12 DEF Sends
    <3>3. flush \in [Flushers -> Flush]
      OBVIOUS
    <3> HIDE DEF pc, TypeOK, Flush, Flushers
    <3> QED
      BY <2>1, <3>1, <3>2, <3>3, SendsAs
  <2> QED
    BY <1>12, <2>1, <2>2 DEF Sends
<1>13. ASSUME NEW f \in Flushers, Lands(f) PROVE TypeOK'
  <2>1. PICK r \in First(f) : writeProgress(flush[f].as, r.ev, r.ts)
    BY <1>13 DEF Lands
  <2>2. r \in Queued /\ flush[f].as \in Accounts
    BY <1>13, <2>1 DEF First, Lands
  <2>3. /\ row' \in [Accounts -> [page : Nat, at : Nat, done : BOOLEAN]]
        /\ written' \in SUBSET Request
    BY <2>1, <2>2, WriteType
  <2>4. flush' \in [Flushers -> Flush]
    BY <1>13 DEF Lands
  <2>5. UNCHANGED <<now, read, gone, pings, outbox, person, rejected, dropped, fails>>
    BY <1>13 DEF Lands
  <2> QED
    BY <2>3, <2>4, <2>5
<1>14. ASSUME NEW f \in Flushers, Answered(f) PROVE TypeOK'
  BY <1>14, PopsType DEF Answered
<1>15. ASSUME NEW f \in Flushers, Rejects(f) PROVE TypeOK'
  BY <1>15, PopsType DEF Rejects, Without, First
<1>16. ASSUME NEW f \in Flushers, Fails(f) PROVE TypeOK'
  <2>1. fails' \in 0 .. MaxFails
    BY <1>16 DEF Fails
  <2>2. outbox' \in SUBSET Queued
    BY <1>16 DEF Fails, LeftIn, First
  <2> QED
    BY <1>16, PopsType, <2>1, <2>2 DEF Fails
<1>17. CASE Changing
  BY <1>17 DEF Changing, Flushed, HandAnswered, adoptAuthed
<1>18. CASE logout
  BY <1>18 DEF logout
<1>19. CASE Reopened
  BY <1>19 DEF Reopened
<1> QED
  BY <1>1, <1>2, <1>3, <1>4, <1>5, <1>6, <1>7, <1>8, <1>9, <1>10, <1>11, <1>12, <1>13, <1>14,
     <1>15, <1>16, <1>17, <1>18, <1>19 DEF Next, Sending

(* A step that gives no new time: what waited or gave one did before.      *)
Quiet ==
    /\ now' = now
    /\ \A t \in Nat, e \in Event : Stamped(t, e)' => Stamped(t, e)
    /\ \A r \in Queued : Waiting(r)' => Waiting(r)
(* A step that gives one: to one event, and to one entry at most.          *)
Stamping(d, q) ==
    /\ now' = now + 1 /\ d.at <= now + 1 /\ q.ts = now + 1
    /\ \A t \in Nat, e \in Event : Stamped(t, e)' => Stamped(t, e) \/ (t = now + 1 /\ e = d)
    /\ \A r \in Queued : Waiting(r)' => Waiting(r) \/ r = q

(* Looking at the requests, the pings and the entries in turn is enough.   *)
LEMMA KeepsStamps ==
    ASSUME now' = now,
           \A w \in written' : Stamped(w.at, w.ev),
           \A p \in pings' : Stamped(p.at, p.ev),
           \A r \in Queued : Waiting(r)' => Waiting(r)
    PROVE  Quiet
  BY DEF Stamped, Quiet

LEMMA AddsStamp ==
    ASSUME NEW d, NEW q, now' = now + 1, d.at <= now + 1, q.ts = now + 1, q.ev = d,
           \A w \in written' : Stamped(w.at, w.ev) \/ (w.at = now + 1 /\ w.ev = d),
           \A p \in pings' : Stamped(p.at, p.ev) \/ (p.at = now + 1 /\ p.ev = d),
           \A r \in Queued : Waiting(r)' => Waiting(r) \/ r = q
    PROVE  Stamping(d, q)
  BY DEF Stamped, Stamping

(* A flush that moves on has nothing new in its hands.                     *)
LEMMA PopsWaiting ==
    ASSUME TypeOK, NEW f \in Flushers, NEW r, Pops(f, r), outbox' \subseteq outbox \cup {r},
           r \in First(f)
    PROVE  \A s \in Queued : Waiting(s)' => Waiting(s)
  BY DEF TypeOK, Pops, Popped, NoFlush, Waiting, First

LEMMA StampStep ==
    ASSUME TypeOK, StampedAfter, Next
    PROVE  Quiet \/ \E d \in Event, q \in Queued : Stamping(d, q)
PROOF
<1> USE DEF TypeOK, person, server
<1>0. /\ \A w \in written : Stamped(w.at, w.ev)
      /\ \A p \in pings : Stamped(p.at, p.ev)
      /\ \A r \in outbox : Stamped(r.ts, r.ev) /\ Waiting(r)
      /\ \A f \in Flushers : \A r \in flush[f].list : Stamped(r.ts, r.ev) /\ Waiting(r)
  BY DEF Stamped, Waiting, Flush
<1>1. CASE Turn
  <2> DEFINE d == Turned(tab)
             q == [ev |-> d, user |-> tab, ts |-> now + 1]
  <2>1. d \in Event /\ d.at = now + 1 /\ q \in Queued
    BY <1>1, TurnedType DEF Turn, Queued
  <2> HIDE DEF d
  <2>2. /\ written' = written /\ now' = now + 1 /\ outbox' = outbox /\ flush' = flush
        /\ pings' = pings \cup {[ev |-> d, as |-> tab, at |-> now + 1, landed |-> FALSE]}
    BY <1>1 DEF Turn, d
  <2>3. /\ \A w \in written' : Stamped(w.at, w.ev) \/ (w.at = now + 1 /\ w.ev = d)
        /\ \A p \in pings' : Stamped(p.at, p.ev) \/ (p.at = now + 1 /\ p.ev = d)
    BY <1>0, <2>2
  <2>4. \A r \in Queued : Waiting(r)' => Waiting(r) \/ r = q
    BY <2>2 DEF Waiting
  <2>5. now' = now + 1 /\ d.at <= now + 1 /\ q.ts = now + 1 /\ q.ev = d
    BY <2>1, <2>2
  <2> HIDE DEF q
  <2>6. Stamping(d, q)
    BY <2>3, <2>4, <2>5, AddsStamp
  <2> QED
    BY <2>1, <2>6
<1>2. CASE Goes
  BY <1>0, <1>2, KeepsStamps DEF Goes, Waiting
<1>3. CASE flushOutbox
  BY <1>0, <1>3, KeepsStamps DEF flushOutbox, Opens, Own, Waiting, Flush
<1>4. CASE flushOutboxSW
  BY <1>0, <1>4, KeepsStamps DEF flushOutboxSW, Opens, Waiting
<1>5. CASE freshAccessToken
  <2>1. \A r \in Queued : Waiting(r)' => Waiting(r)
    BY <1>0, <1>5, Minted DEF freshAccessToken, Waiting
  <2> QED
    BY <1>0, <1>5, <2>1, KeepsStamps DEF freshAccessToken
<1>6. CASE SendsSW
  <2>1. PICK r \in First("worker") :
          IF r.user = hint THEN flush' = [flush EXCEPT !["worker"].pc = "sent"]
          ELSE Pops("worker", r)
    BY <1>6 DEF SendsSW
  <2>2. "worker" \in Flushers
    BY DEF Flushers
  <2>3. CASE r.user = hint
    <3>1. \A f \in Flushers : flush'[f].list = flush[f].list
      BY <2>1, <2>3 DEF Flush
    <3> QED
      BY <1>0, <1>6, <3>1, KeepsStamps DEF SendsSW, Waiting
  <2>4. CASE r.user # hint
    BY <1>0, <1>6, <2>1, <2>2, <2>4, PopsWaiting, KeepsStamps DEF SendsSW
  <2> QED
    BY <2>3, <2>4
<1>7. ASSUME NEW a \in Accounts, Elsewhere(a)
      PROVE  \E d \in Event, q \in Queued : Stamping(d, q)
  <2> DEFINE d == Turned(a)
             q == [ev |-> d, user |-> a, ts |-> now + 1]
  <2>1. d \in Event /\ d.at = now + 1 /\ q \in Queued
    BY <1>7, TurnedType DEF Queued
  <2> HIDE DEF d
  <2>2. /\ pings' = pings /\ now' = now + 1 /\ outbox' = outbox /\ flush' = flush
        /\ written' = written \cup {[ev |-> d, as |-> a, at |-> now + 1]}
    BY <1>7 DEF Elsewhere, writeProgress, d
  <2>3. /\ \A w \in written' : Stamped(w.at, w.ev) \/ (w.at = now + 1 /\ w.ev = d)
        /\ \A p \in pings' : Stamped(p.at, p.ev) \/ (p.at = now + 1 /\ p.ev = d)
    BY <1>0, <2>2
  <2>4. \A r \in Queued : Waiting(r)' => Waiting(r) \/ r = q
    BY <2>2 DEF Waiting
  <2>5. now' = now + 1 /\ d.at <= now + 1 /\ q.ts = now + 1 /\ q.ev = d
    BY <2>1, <2>2
  <2> HIDE DEF q
  <2>6. Stamping(d, q)
    BY <2>3, <2>4, <2>5, AddsStamp
  <2> QED
    BY <2>1, <2>6
<1>8. ASSUME NEW a \in Accounts, changeProfile(a) PROVE Quiet
  <2>1. CASE flush' = flush
    BY <1>0, <1>8, <2>1, KeepsStamps DEF changeProfile, Waiting
  <2>2. CASE Opens("switch", "loop", Own(outbox))
    BY <1>0, <1>8, <2>2, KeepsStamps DEF changeProfile, Opens, Own, Waiting
  <2> QED
    BY <1>8, <2>1, <2>2 DEF changeProfile
<1>9. ASSUME NEW a \in Accounts, login(a) PROVE Quiet
  BY <1>0, <1>9, KeepsStamps DEF login, Waiting
<1>10. ASSUME NEW p \in pings, PingLands(p) PROVE Quiet
  <2>1. written' = written \cup {[ev |-> p.ev, as |-> p.as, at |-> p.at]}
    BY <1>10 DEF PingLands, writeProgress
  <2>2. \A o \in pings' : o \in pings \/ (o.at = p.at /\ o.ev = p.ev)
    BY <1>10 DEF PingLands, Ping
  <2> QED
    BY <1>0, <1>10, <2>1, <2>2, KeepsStamps DEF PingLands, Waiting
<1>11. ASSUME NEW p \in pings, PingFails(p)
       PROVE  Quiet \/ \E d \in Event, q \in Queued : Stamping(d, q)
  <2>1. CASE tab = None
    BY <1>0, <1>11, <2>1, KeepsStamps DEF PingFails, queueProgress, Waiting
  <2>2. CASE tab # None
    <3> DEFINE q == [ev |-> p.ev, user |-> tab, ts |-> now + 1]
    <3>1. p.ev \in Event /\ p.at \in Nat /\ p.ev.at \in Nat /\ q \in Queued
      BY <2>2 DEF Queued, Ping, Event
    <3>2. p.ev.at <= now + 1
      BY <1>0, <3>1 DEF StampedAfter
    <3>3. /\ \A w \in written' : Stamped(w.at, w.ev)
          /\ \A o \in pings' : Stamped(o.at, o.ev)
      BY <1>0, <1>11 DEF PingFails
    <3>4. \A r \in Queued : Waiting(r)' => Waiting(r) \/ r = q
      BY <1>11, <2>2 DEF PingFails, queueProgress, Waiting
    <3>5. now' = now + 1 /\ q.ts = now + 1 /\ q.ev = p.ev
      BY <1>11, <2>2 DEF PingFails, queueProgress
    <3> HIDE DEF q
    <3>6. Stamping(p.ev, q)
      BY <3>2, <3>3, <3>4, <3>5, AddsStamp
    <3> QED
      BY <3>1, <3>6
  <2> QED
    BY <2>1, <2>2
<1>12. ASSUME NEW f \in Flushers, Sends(f) PROVE Quiet
  BY <1>0, <1>12, KeepsStamps DEF Sends, Waiting
<1>13. ASSUME NEW f \in Flushers, Lands(f) PROVE Quiet
  <2>1. PICK r \in First(f) : writeProgress(flush[f].as, r.ev, r.ts)
    BY <1>13 DEF Lands
  <2>2. written' = written \cup {[ev |-> r.ev, as |-> flush[f].as, at |-> r.ts]}
    BY <2>1 DEF writeProgress
  <2>3. Stamped(r.ts, r.ev)
    BY <1>0 DEF First
  <2> QED
    BY <1>0, <1>13, <2>2, <2>3, KeepsStamps DEF Lands, Waiting
<1>14. ASSUME NEW f \in Flushers, Answered(f) PROVE Quiet
  BY <1>0, <1>14, PopsWaiting, KeepsStamps DEF Answered
<1>15. ASSUME NEW f \in Flushers, Rejects(f) PROVE Quiet
  BY <1>0, <1>15, PopsWaiting, KeepsStamps DEF Rejects, Without
<1>16. ASSUME NEW f \in Flushers, Fails(f) PROVE Quiet
  BY <1>0, <1>16, PopsWaiting, KeepsStamps DEF Fails, LeftIn
<1>17. CASE Changing
  BY <1>0, <1>17, KeepsStamps DEF Changing, Flushed, HandAnswered, adoptAuthed, Waiting
<1>18. CASE logout
  BY <1>0, <1>18, KeepsStamps DEF logout, Waiting
<1>19. CASE Reopened
  BY <1>0, <1>19, KeepsStamps DEF Reopened, NoFlush, Waiting
<1> QED
  BY <1>1, <1>2, <1>3, <1>4, <1>5, <1>6, <1>7, <1>8, <1>9, <1>10, <1>11, <1>12, <1>13, <1>14,
     <1>15, <1>16, <1>17, <1>18, <1>19 DEF Next, Sending

LEMMA StampsStep ==
    ASSUME TypeOK, Stamps, Next
    PROVE  Stamps'
PROOF
<1> USE DEF Stamps
<1>1. CASE Quiet
  BY <1>1, TypeStep DEF TypeOK, Quiet, StampedAfter, OneEventAtATime, OneEntryAtATime
<1>2. ASSUME NEW d \in Event, NEW q \in Queued, Stamping(d, q) PROVE Stamps'
  <2>1. StampedAfter'
    BY <1>2 DEF TypeOK, Stamping, StampedAfter
  <2>2. OneEventAtATime'
    BY <1>2 DEF TypeOK, Stamping, StampedAfter, OneEventAtATime
  <2>3. ASSUME NEW r \in Queued, Waiting(r) PROVE r.ts <= now
    BY <2>3 DEF Queued, Event, StampedAfter, Stamped
  <2>4. OneEntryAtATime'
    BY <1>2, <2>3 DEF TypeOK, Stamping, OneEntryAtATime, Queued
  <2> QED
    BY <2>1, <2>2, <2>4
<1> QED
  BY <1>1, <1>2, StampStep
(* The entry a flush is at is one.                                         *)
LEMMA FirstIsOne ==
    ASSUME TypeOK, OneEntryAtATime, NEW f \in Flushers, NEW r \in First(f), NEW s \in First(f)
    PROVE  r = s
PROOF
<1>1. /\ r \in Queued /\ s \in Queued /\ Waiting(r) /\ Waiting(s)
      /\ r.ts <= s.ts /\ s.ts <= r.ts
  BY DEF TypeOK, Flush, First, Waiting
<1>2. r.ts = s.ts
  BY <1>1 DEF Queued
<1> QED
  BY <1>1, <1>2 DEF OneEntryAtATime

(* A flush that moves on has no answer yet.                                *)
LEMMA PopsAsks ==
    ASSUME TypeOK, NEW f \in Flushers, NEW r, Pops(f, r)
    PROVE  /\ flush'[f].pc # "landed"
           /\ \A g \in Flushers : g # f => flush'[g] = flush[g]
  BY DEF TypeOK, Flush, Pops, Popped, NoFlush

LEMMA LandedStep ==
    ASSUME TypeOK, OneEntryAtATime, LandedIsThere, Next
    PROVE  LandedIsThere'
PROOF
<1> USE DEF person, server
<1>1. CASE Turn
  BY <1>1 DEF LandedIsThere, Turn, First
<1>2. CASE Goes
  BY <1>2 DEF LandedIsThere, Goes, First
<1>3. CASE flushOutbox
  BY <1>3 DEF LandedIsThere, flushOutbox, Opens, First, TypeOK, Flush
<1>4. CASE flushOutboxSW
  BY <1>4 DEF LandedIsThere, flushOutboxSW, Opens, First, TypeOK, Flush
<1>5. CASE freshAccessToken
  BY <1>5, Minted DEF LandedIsThere, freshAccessToken, First
<1>6. CASE SendsSW
  <2>1. \A f \in Flushers : flush'[f].pc = "landed" => flush'[f] = flush[f]
    <3>1. PICK r \in First("worker") :
            IF r.user = hint THEN flush' = [flush EXCEPT !["worker"].pc = "sent"]
            ELSE Pops("worker", r)
      BY <1>6 DEF SendsSW
    <3>2. "worker" \in Flushers
      BY DEF Flushers
    <3>3. CASE r.user = hint
      BY <3>1, <3>3 DEF TypeOK, Flush
    <3>4. CASE r.user # hint
      BY <3>1, <3>2, <3>4, PopsAsks
    <3> QED
      BY <3>3, <3>4
  <2> QED
    BY <1>6, <2>1 DEF LandedIsThere, SendsSW, First
<1>7. ASSUME NEW a \in Accounts, Elsewhere(a) PROVE LandedIsThere'
  BY <1>7 DEF LandedIsThere, Elsewhere, writeProgress, First
<1>8. ASSUME NEW a \in Accounts, changeProfile(a) PROVE LandedIsThere'
  <2>1. \A f \in Flushers : flush'[f].pc = "landed" => flush'[f] = flush[f]
    <3>1. CASE flush' = flush
      BY <3>1
    <3>2. CASE Opens("switch", "loop", Own(outbox))
      <4>1. \A f \in Flushers : f # "switch" => flush'[f] = flush[f]
        BY <3>2 DEF Opens, TypeOK
      <4>2. flush'["switch"].pc = "loop"
        BY <3>2 DEF Opens, TypeOK, Flush, Flushers, Pages, NoFlush
      <4> QED
        BY <4>1, <4>2
    <3> QED
      BY <1>8, <3>1, <3>2 DEF changeProfile
  <2> QED
    BY <1>8, <2>1 DEF LandedIsThere, changeProfile, First
<1>9. ASSUME NEW a \in Accounts, login(a) PROVE LandedIsThere'
  BY <1>9 DEF LandedIsThere, login, First
<1>10. ASSUME NEW p \in pings, PingLands(p) PROVE LandedIsThere'
  <2>1. written' = written \cup {[ev |-> p.ev, as |-> p.as, at |-> p.at]}
    BY <1>10 DEF PingLands, writeProgress
  <2>2. \A o \in pings' : o \in pings \/ o.ev = p.ev
    BY <1>10 DEF PingLands, TypeOK, Ping
  <2> QED
    BY <1>10, <2>1, <2>2 DEF LandedIsThere, PingLands, First
<1>11. ASSUME NEW p \in pings, PingFails(p) PROVE LandedIsThere'
  BY <1>11 DEF LandedIsThere, PingFails, First
<1>12. ASSUME NEW f \in Flushers, Sends(f) PROVE LandedIsThere'
  BY <1>12 DEF LandedIsThere, Sends, First, TypeOK, Flush
<1>13. ASSUME NEW f \in Flushers, Lands(f) PROVE LandedIsThere'
  <2>1. PICK r \in First(f) : writeProgress(flush[f].as, r.ev, r.ts)
    BY <1>13 DEF Lands
  <2>2. written' = written \cup {[ev |-> r.ev, as |-> flush[f].as, at |-> r.ts]}
    BY <2>1 DEF writeProgress
  <2>3. \A g \in Flushers : flush'[g].list = flush[g].list /\ (g # f => flush'[g] = flush[g])
    BY <1>13 DEF Lands, TypeOK, Flush
  <2>4. \A g \in Flushers : First(g)' = First(g)
    BY <2>3 DEF First
  <2>5. \A s \in First(f) : s = r
    BY FirstIsOne
  <2> QED
    <3>1. \A p \in pings' : p.landed => \E w \in written' : w.ev = p.ev
      BY <1>13, <2>2 DEF LandedIsThere, Lands
    <3>2. \E w \in written' : w.ev = r.ev
      <4> DEFINE v == [ev |-> r.ev, as |-> flush[f].as, at |-> r.ts]
      <4>1. v \in written' /\ v.ev = r.ev
        BY <2>2
      <4> QED
        BY <4>1
    <3>3. ASSUME NEW g \in Flushers, flush'[g].pc = "landed", NEW s \in First(g)'
          PROVE  \E w \in written' : w.ev = s.ev
      <4>1. CASE g = f
        BY <2>4, <2>5, <3>2, <3>3, <4>1
      <4>2. CASE g # f
        BY <2>2, <2>3, <2>4, <3>3, <4>2 DEF LandedIsThere
      <4> QED
        BY <4>1, <4>2
    <3> QED
      BY <3>1, <3>3 DEF LandedIsThere
<1>14. ASSUME NEW f \in Flushers, Answered(f) PROVE LandedIsThere'
  BY <1>14, PopsAsks DEF LandedIsThere, Answered, First
<1>15. ASSUME NEW f \in Flushers, Rejects(f) PROVE LandedIsThere'
  BY <1>15, PopsAsks DEF LandedIsThere, Rejects, First
<1>16. ASSUME NEW f \in Flushers, Fails(f) PROVE LandedIsThere'
  BY <1>16, PopsAsks DEF LandedIsThere, Fails, First
<1>17. CASE Changing
  BY <1>17 DEF LandedIsThere, Changing, Flushed, HandAnswered, adoptAuthed, First
<1>18. CASE logout
  BY <1>18 DEF LandedIsThere, logout, First
<1>19. CASE Reopened
  BY <1>19 DEF LandedIsThere, Reopened, NoFlush, First
<1> QED
  BY <1>1, <1>2, <1>3, <1>4, <1>5, <1>6, <1>7, <1>8, <1>9, <1>10, <1>11, <1>12, <1>13, <1>14,
     <1>15, <1>16, <1>17, <1>18, <1>19 DEF Next, Sending

(* A page that was turned goes from the ping to the server or the queue,   *)
(* and leaves the queue once it has landed, or can never land.             *)
LEMMA LostStep ==
    ASSUME TypeOK, LandedIsThere, NothingLost, Next
    PROVE  NothingLost'
PROOF
<1> USE DEF person, server, NothingLost
<1>1. CASE Turn
  <2> DEFINE d == Turned(tab)
  <2> HIDE DEF d
  <2>1. /\ read' = read \cup {d} /\ written' = written /\ outbox' = outbox
        /\ pings' = pings \cup {[ev |-> d, as |-> tab, at |-> now + 1, landed |-> FALSE]}
        /\ rejected' = rejected /\ dropped' = dropped
    BY <1>1 DEF Turn, d
  <2> DEFINE o == [ev |-> d, as |-> tab, at |-> now + 1, landed |-> FALSE]
  <2>2. o \in pings' /\ o.ev = d
    BY <2>1
  <2> HIDE DEF o
  <2>3. pings \subseteq pings'
    BY <2>1
  <2> QED
    BY <2>1, <2>2, <2>3
<1>2. CASE Goes
  BY <1>2 DEF Goes
<1>3. CASE flushOutbox \/ flushOutboxSW \/ freshAccessToken \/ SendsSW
  BY <1>3 DEF flushOutbox, flushOutboxSW, freshAccessToken, SendsSW
<1>4. ASSUME NEW a \in Accounts, Elsewhere(a) PROVE NothingLost'
  <2> DEFINE d == Turned(a)
  <2> HIDE DEF d
  <2>1. /\ read' = read \cup {d} /\ pings' = pings /\ outbox' = outbox
        /\ written' = written \cup {[ev |-> d, as |-> a, at |-> now + 1]}
        /\ rejected' = rejected /\ dropped' = dropped
    BY <1>4 DEF Elsewhere, writeProgress, d
  <2> DEFINE v == [ev |-> d, as |-> a, at |-> now + 1]
  <2>2. v \in written' /\ v.ev = d
    BY <2>1
  <2> HIDE DEF v
  <2>3. written \subseteq written'
    BY <2>1
  <2> QED
    BY <2>1, <2>2, <2>3
<1>5. ASSUME NEW a \in Accounts, changeProfile(a) \/ login(a) PROVE NothingLost'
  BY <1>5 DEF changeProfile, login
<1>6. ASSUME NEW p \in pings, PingLands(p) PROVE NothingLost'
  <2>1. written' = written \cup {[ev |-> p.ev, as |-> p.as, at |-> p.at]}
    BY <1>6 DEF PingLands, writeProgress
  <2>2. pings \ {p} \subseteq pings'
    BY <1>6 DEF PingLands
  <2> QED
    BY <1>6, <2>1, <2>2 DEF PingLands
<1>7. ASSUME NEW p \in pings, PingFails(p) PROVE NothingLost'
  <2>1. /\ read' = read /\ pings' = pings \ {p} /\ written' = written /\ rejected' = rejected
        /\ outbox \subseteq outbox' /\ dropped \subseteq dropped'
    BY <1>7 DEF PingFails, queueProgress
  <2>2. p.ev \in dropped' \/ \E r \in outbox' : r.ev = p.ev
    <3> DEFINE q == [ev |-> p.ev, user |-> tab, ts |-> now + 1]
    <3>1. p.ev \in dropped' \/ q \in outbox'
      BY <1>7 DEF PingFails, queueProgress
    <3>2. q.ev = p.ev
      OBVIOUS
    <3> QED
      BY <3>1, <3>2
  <2> QED
    BY <2>1, <2>2
<1>8. ASSUME NEW f \in Flushers, Sends(f) PROVE NothingLost'
  BY <1>8 DEF Sends
<1>9. ASSUME NEW f \in Flushers, Lands(f) PROVE NothingLost'
  <2>1. written \subseteq written'
    BY <1>9 DEF Lands, writeProgress
  <2> QED
    BY <1>9, <2>1 DEF Lands
<1>10. ASSUME NEW f \in Flushers, Answered(f) PROVE NothingLost'
  BY <1>10 DEF Answered, LandedIsThere
<1>11. ASSUME NEW f \in Flushers, Rejects(f) PROVE NothingLost'
  BY <1>11 DEF Rejects, Without
<1>12. ASSUME NEW f \in Flushers, Fails(f) PROVE NothingLost'
  BY <1>12 DEF Fails, LeftIn
<1>13. CASE Changing
  BY <1>13 DEF Changing, Flushed, HandAnswered, adoptAuthed
<1>14. CASE logout
  BY <1>14 DEF logout
<1>15. CASE Reopened
  BY <1>15 DEF Reopened, LandedIsThere
<1> QED
  BY <1>1, <1>2, <1>3, <1>4, <1>5, <1>6, <1>7, <1>8, <1>9, <1>10, <1>11, <1>12, <1>13, <1>14,
     <1>15 DEF Next, Sending
(* What a step calls the server with: nothing, or one request.             *)
LEMMA Writes ==
    ASSUME TypeOK, Next
    PROVE  \/ row' = row /\ written' = written
           \/ \E a \in Accounts, e \in Event, t \in Nat : writeProgress(a, e, t)
PROOF
<1> USE DEF person, server
<1>1. CASE Turn \/ Goes \/ flushOutbox \/ flushOutboxSW \/ freshAccessToken \/ SendsSW
  BY <1>1 DEF Turn, Goes, flushOutbox, flushOutboxSW, freshAccessToken, SendsSW
<1>2. ASSUME NEW a \in Accounts, Elsewhere(a)
      PROVE  \E e \in Event, t \in Nat : writeProgress(a, e, t)
  <2>1. Turned(a) \in Event /\ now + 1 \in Nat
    BY TurnedType DEF TypeOK
  <2> QED
    BY <1>2, <2>1 DEF Elsewhere
<1>3. ASSUME NEW a \in Accounts, changeProfile(a) \/ login(a)
      PROVE  row' = row /\ written' = written
  BY <1>3 DEF changeProfile, login
<1>4. ASSUME NEW p \in pings, PingLands(p)
      PROVE  \E a \in Accounts, e \in Event, t \in Nat : writeProgress(a, e, t)
  BY <1>4 DEF PingLands, TypeOK, Ping
<1>5. ASSUME NEW p \in pings, PingFails(p) PROVE row' = row /\ written' = written
  BY <1>5 DEF PingFails
<1>6. ASSUME NEW f \in Flushers, Lands(f)
      PROVE  \E a \in Accounts, e \in Event, t \in Nat : writeProgress(a, e, t)
  <2>1. PICK r \in First(f) : writeProgress(flush[f].as, r.ev, r.ts)
    BY <1>6 DEF Lands
  <2>2. flush[f].as \in Accounts /\ r.ev \in Event /\ r.ts \in Nat
    BY <1>6 DEF Lands, First, TypeOK, Flush, Queued
  <2> QED
    BY <2>1, <2>2
<1>7. ASSUME NEW f \in Flushers, Sends(f) \/ Answered(f) \/ Rejects(f) \/ Fails(f)
      PROVE  row' = row /\ written' = written
  BY <1>7 DEF Sends, Answered, Rejects, Fails
<1>8. CASE Changing \/ logout \/ Reopened
  BY <1>8 DEF Changing, Flushed, HandAnswered, adoptAuthed, logout, Reopened
<1> QED
  BY <1>1, <1>2, <1>3, <1>4, <1>5, <1>6, <1>7, <1>8 DEF Next, Sending

(* A newer request takes the place, an older one leaves it where it is;    *)
(* neither undoes a finish.                                                *)
LEMMA PlaceStep ==
    ASSUME TypeOK, PlaceOfNewest, FinishedStands, Next
    PROVE  PlaceOfNewest' /\ FinishedStands'
PROOF
<1>1. CASE row' = row /\ written' = written
  BY <1>1 DEF PlaceOfNewest, FinishedStands
<1>2. ASSUME NEW a \in Accounts, NEW e \in Event, NEW t \in Nat, writeProgress(a, e, t)
      PROVE  PlaceOfNewest' /\ FinishedStands'
  <2> DEFINE v == [ev |-> e, as |-> a, at |-> t]
  <2>1. /\ written' = written \cup {v}
        /\ \A b \in Accounts : b # a => row'[b] = row[b]
        /\ row'[a].page = Place(row[a], e, t) /\ row'[a].at = Stamp(row[a], t)
        /\ row'[a].done = Done(row[a], e, t)
    BY <1>2 DEF writeProgress, TypeOK
  <2>2. row[a].at \in Nat /\ \A w \in written : w.as \in Accounts /\ w.at \in Nat /\ row[w.as].at \in Nat
    BY DEF TypeOK, Request
  <2>3. ASSUME NEW w \in written' PROVE w.at <= row'[w.as].at
    BY <2>1, <2>2 DEF PlaceOfNewest, Stamp
  <2>4. ASSUME NEW b \in Accounts
        PROVE  \/ row'[b].at = 0 /\ \A w \in written' : w.as # b
               \/ \E w \in written' : w.as = b /\ w.ev.at = row'[b].page /\ w.at = row'[b].at
    <3>1. CASE b # a
      BY <2>1, <3>1 DEF PlaceOfNewest
    <3>2. CASE b = a /\ t >= row[a].at
      <4>1. row'[a].page = e.at /\ row'[a].at = t
        BY <2>1, <2>2, <3>2 DEF Place, Stamp
      <4>2. v \in written' /\ v.as = a /\ v.ev.at = e.at /\ v.at = t
        BY <2>1
      <4> HIDE DEF v
      <4> QED
        BY <3>2, <4>1, <4>2
    <3>3. CASE b = a /\ ~(t >= row[a].at)
      <4>1. row'[a].page = row[a].page /\ row'[a].at = row[a].at
        BY <2>1, <2>2, <3>3 DEF Place, Stamp
      <4>2. row[a].at # 0
        BY <2>2, <3>3
      <4> QED
        BY <2>1, <3>3, <4>1, <4>2 DEF PlaceOfNewest
    <3> QED
      BY <3>1, <3>2, <3>3
  <2>5. ASSUME NEW w \in written', w.ev.done PROVE row'[w.as].done
    <3>1. w \in written => row[w.as].done
      BY <2>5 DEF FinishedStands
    <3>2. w = v => w.as = a /\ e.done
      BY <2>5
    <3> QED
      BY <2>1, <2>2, <3>1, <3>2 DEF Done
  <2> QED
    BY <2>3, <2>4, <2>5 DEF PlaceOfNewest, FinishedStands
<1> QED
  BY <1>1, <1>2, Writes
LEMMA Start ==
    Init => IInv
PROOF
<1> SUFFICES ASSUME Init PROVE IInv
  OBVIOUS
<1> USE DEF Init
<1>1. TypeOK
  <2>1. row \in [Accounts -> [page : Nat, at : Nat, done : BOOLEAN]]
    OBVIOUS
  <2>2. flush \in [Flushers -> Flush]
    BY DEF Flush, NoFlush
  <2>3. hand \in [pc : {"none", "flush", "asked", "answered"}, to : Accounts \cup {None}]
    BY DEF NoHand
  <2>4. fails \in 0 .. MaxFails /\ switches \in 0 .. MaxSwitches /\ closes \in 0 .. MaxCloses
    BY ProgressAssumption
  <2>5. /\ now \in Nat /\ read \in SUBSET Event /\ written \in SUBSET Request /\ gone \in BOOLEAN
        /\ pings \in SUBSET Ping /\ outbox \in SUBSET Queued
        /\ tab \in Accounts \cup {None} /\ jar \in Accounts \cup {None}
        /\ hint \in Accounts \cup {None} /\ rejected \in SUBSET Event /\ dropped \in SUBSET Event
    BY ProgressAssumption
  <2> HIDE DEF Init
  <2> QED
    BY <2>1, <2>2, <2>3, <2>4, <2>5 DEF TypeOK
<1>2. Stamps
  BY DEF Stamps, StampedAfter, OneEventAtATime, OneEntryAtATime, Stamped, Waiting, NoFlush
<1>3. LandedIsThere /\ PlaceOfNewest /\ NothingLost /\ FinishedStands
  BY DEF LandedIsThere, PlaceOfNewest, NothingLost, FinishedStands, NoFlush
<1> QED
  BY <1>1, <1>2, <1>3 DEF IInv

LEMMA IInvStep ==
    IInv /\ [Next]_vars => IInv'
PROOF
<1> SUFFICES ASSUME IInv, [Next]_vars PROVE IInv'
  OBVIOUS
<1> USE DEF IInv
<1>1. CASE Next
  BY <1>1, TypeStep, StampsStep, LandedStep, PlaceStep, LostStep DEF Stamps
<1>2. CASE UNCHANGED vars
  <2>1. TypeOK'
    BY <1>2 DEF vars, person, server, TypeOK
  <2>2. Stamps'
    BY <1>2 DEF vars, person, server, Stamps, StampedAfter, OneEventAtATime, OneEntryAtATime,
       Stamped, Waiting
  <2>3. LandedIsThere' /\ PlaceOfNewest' /\ NothingLost' /\ FinishedStands'
    BY <1>2 DEF vars, person, server, LandedIsThere, PlaceOfNewest, NothingLost, FinishedStands,
       First
  <2> QED
    BY <2>1, <2>2, <2>3
<1> QED
  BY <1>1, <1>2

LEMMA Invariance ==
    Spec => []IInv
PROOF
<1> QED
  BY Start, IInvStep, PTL DEF Spec

(* Every variable keeps its type.                                          *)
THEOREM TypeCorrect ==
    Spec => []TypeOK
PROOF
<1>1. IInv => TypeOK
  BY DEF IInv
<1> QED
  BY <1>1, Invariance, PTL

(* No page that was turned is lost: an entry leaves the queue only when it *)
(* has landed or been refused for good, though two flushes and a ping put  *)
(* it back and drop it behind each other's backs.                          *)
THEOREM NeverLost ==
    Spec => []NothingLost
PROOF
<1>1. IInv => NothingLost
  BY DEF IInv
<1> QED
  BY <1>1, Invariance, PTL

(* A finish on the server is never taken back by what arrives after it.    *)
THEOREM FinishStands ==
    Spec => []FinishedStands
PROOF
<1>1. IInv => FinishedStands
  BY DEF IInv
<1> QED
  BY <1>1, Invariance, PTL

(* The place is behind a page the server heard of only where the page it   *)
(* is at was queued after that one was turned.                             *)
THEOREM PlaceIsNewest ==
    Spec => []BackOnlyByALateQueue
PROOF
<1>1. IInv => BackOnlyByALateQueue
  <2> SUFFICES ASSUME IInv, NEW w \in written, ~(w.ev.at <= row[w.as].page)
               PROVE  \E v \in written : v.as = w.as /\ v.ev.at = row[w.as].page /\ v.at > w.ev.at
    BY DEF BackOnlyByALateQueue
  <2> USE DEF IInv
  <2>1. w \in Request /\ w.as \in Accounts /\ w.ev \in Event /\ w.at \in Nat /\ w.ev.at \in Nat
    BY DEF TypeOK, Request, Event
  <2>2. PICK v \in written : v.as = w.as /\ v.ev.at = row[w.as].page /\ v.at = row[w.as].at
    BY <2>1 DEF PlaceOfNewest
  <2>3. v.ev \in Event /\ v.at \in Nat /\ v.ev.at \in Nat
    BY DEF TypeOK, Request, Event
  <2>4. w.at <= v.at
    BY <2>2 DEF PlaceOfNewest
  <2>5. Stamped(w.at, w.ev) /\ Stamped(v.at, v.ev)
    BY DEF Stamped
  <2>6. w.ev.at <= w.at
    BY <2>1, <2>5 DEF Stamps, StampedAfter
  <2>7. CASE v.at = w.at
    <3>1. v.ev = w.ev
      BY <2>1, <2>3, <2>5, <2>7 DEF Stamps, OneEventAtATime
    <3> QED
      BY <2>1, <2>2, <3>1
  <2>8. CASE v.at # w.at
    BY <2>1, <2>2, <2>3, <2>4, <2>6, <2>8
  <2> QED
    BY <2>7, <2>8
<1> QED
  BY <1>1, Invariance, PTL
=============================================================================
