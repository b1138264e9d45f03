----------------------------- MODULE ProgressSync -----------------------------
(***************************************************************************)
(* How a page turn becomes a place on the server.  The reader pings the    *)
(* server for every page (web/app/reader/page.tsx sendProgress); a ping    *)
(* that fails is queued on the device (web/lib/downloads.ts queueProgress) *)
(* and sent again by the app (flushOutbox) and by the service worker       *)
(* (web/public/sw.js), each with its own copy of the queue and neither     *)
(* knowing of the other.  The device changes hands meanwhile               *)
(* (web/lib/auth.tsx), other devices read on, and the server keeps the     *)
(* newest event (bff/src/lib/progress.ts writeProgress).                   *)
(*                                                                         *)
(* One chapter, one browser with one tab.  Other devices are those whose   *)
(* pings land at once.  All clocks agree, and no two events share a        *)
(* millisecond; an access token is renewed before it runs out.             *)
(***************************************************************************)
EXTENDS Naturals, FiniteSets

CONSTANTS
    Accounts,
    Reader,         \* who is signed in on the device to begin with
    None,
    LastPages,      \* which of the pages turned, counted, are the last page of the chapter
    MaxReads,       \* bounds the pages turned
    MaxFails,       \* bounds the requests that fail
    MaxSwitches,    \* bounds the times the device changes hands
    MaxCloses       \* bounds the times the app is closed and opened again

ASSUME ProgressAssumption ==
    /\ None \notin Accounts /\ Reader \in Accounts
    /\ MaxReads \in Nat /\ MaxFails \in Nat /\ MaxSwitches \in Nat /\ MaxCloses \in Nat

VARIABLES
    now,        \* the clock: the last millisecond anything happened in
    read,       \* history: the pages turned
    row,        \* read_progress: row[a] is a's place in the chapter
    written,    \* history: what writeProgress was called with
    gone,       \* the chapter is deleted, or hidden from its readers
    pings,      \* the requests under way outside a flush
    outbox,     \* the queue on the device
    flush,      \* who is sending it: the app, the app before a switch, the worker
    tab,        \* the account the tab is signed in with (its token's, and getCurrentUser)
    jar,        \* the account of the refresh cookie
    hint,       \* the account the worker was told of
    hand,       \* a change of person that is under way
    rejected,   \* history: the events dropped because the server said so for good
    dropped,    \* history: those that failed with nobody signed in, or with the app closed
    fails, switches, closes

vars == <<now, read, row, written, gone, pings, outbox, flush, tab, jar, hint, hand, rejected,
          dropped, fails, switches, closes>>
person == <<tab, jar, hint, hand, switches, closes>>
server == <<row, written, gone>>

\* A page turned: it is known by its time.
Event == [at : Nat, by : Accounts, done : BOOLEAN]
\* A request for it: on whose account, and the time it gives.
Request == [ev : Event, as : Accounts, at : Nat]
Ping == [ev : Event, as : Accounts, at : Nat, landed : BOOLEAN]
Queued == [ev : Event, user : Accounts, ts : Nat]

Pages == {"app", "switch"}
Flushers == Pages \cup {"worker"}
Flush == [pc : {"idle", "mint", "loop", "sent", "landed"}, list : SUBSET Queued,
          as : Accounts \cup {None}]
NoFlush == [pc |-> "idle", list |-> {}, as |-> None]

TypeOK ==
    /\ now \in Nat /\ read \in SUBSET Event
    /\ row \in [Accounts -> [page : Nat, at : Nat, done : BOOLEAN]]
    /\ written \in SUBSET Request /\ gone \in BOOLEAN
    /\ pings \in SUBSET Ping
    /\ outbox \in SUBSET Queued
    /\ flush \in [Flushers -> Flush]
    /\ tab \in Accounts \cup {None} /\ jar \in Accounts \cup {None}
    /\ hint \in Accounts \cup {None}
    /\ hand \in [pc : {"none", "flush", "asked", "answered"}, to : Accounts \cup {None}]
    /\ rejected \in SUBSET Event /\ dropped \in SUBSET Event
    /\ fails \in 0 .. MaxFails /\ switches \in 0 .. MaxSwitches /\ closes \in 0 .. MaxCloses

NoHand == [pc |-> "none", to |-> None]

Init ==
    /\ now = 0 /\ read = {}
    /\ row = [a \in Accounts |-> [page |-> 0, at |-> 0, done |-> FALSE]]
    /\ written = {} /\ gone = FALSE
    /\ pings = {} /\ outbox = {}
    /\ flush = [f \in Flushers |-> NoFlush]
    /\ tab = Reader /\ jar = Reader /\ hint = Reader /\ hand = NoHand
    /\ rejected = {} /\ dropped = {}
    /\ fails = 0 /\ switches = 0 /\ closes = 0

-----------------------------------------------------------------------------
(* The server *)

\* The newest event moves the place; no page turned takes a finished chapter back.
PlaceAnyway(r, ev, at) == ev.at                                     \* mutant
Place(r, ev, at) == IF at >= r.at THEN ev.at ELSE r.page
StampLast(r, at) == at                                              \* mutant
Stamp(r, at) == IF at > r.at THEN at ELSE r.at
DoneNewest(r, ev, at) == IF at >= r.at THEN ev.done ELSE r.done     \* mutant
Done(r, ev, at) == r.done \/ ev.done

writeProgress(as, ev, at) ==
    /\ row' = [row EXCEPT ![as] = [page |-> Place(@, ev, at), at |-> Stamp(@, at),
                                   done |-> Done(@, ev, at)]]
    /\ written' = written \cup {[ev |-> ev, as |-> as, at |-> at]}

Turned(a) == [at |-> now + 1, by |-> a, done |-> Cardinality(read) + 1 \in LastPages]

\* A page is turned on another device of somebody's, which is online.
Elsewhere(a) ==
    /\ Cardinality(read) < MaxReads /\ ~gone
    /\ now' = now + 1 /\ read' = read \cup {Turned(a)}
    /\ writeProgress(a, Turned(a), now + 1)
    /\ UNCHANGED <<gone, pings, outbox, flush, person, rejected, dropped, fails>>

\* The chapter is deleted, or its readers may no longer see it.
Goes ==
    /\ ~gone /\ gone' = TRUE
    /\ UNCHANGED <<now, read, row, written, pings, outbox, flush, person, rejected, dropped, fails>>

-----------------------------------------------------------------------------
(* The reader *)

\* A page is turned, and pinged with its time.
Turn ==
    /\ tab # None /\ Cardinality(read) < MaxReads
    /\ now' = now + 1 /\ read' = read \cup {Turned(tab)}
    /\ pings' = pings \cup {[ev |-> Turned(tab), as |-> tab, at |-> now + 1, landed |-> FALSE]}
    /\ UNCHANGED <<server, outbox, flush, person, rejected, dropped, fails>>

\* A ping lands, and its answer is heard or will not be.
PingLands(p) ==
    /\ ~p.landed /\ ~gone
    /\ writeProgress(p.as, p.ev, p.at)
    /\ \/ pings' = pings \ {p} /\ UNCHANGED fails
       \/ /\ fails < MaxFails /\ fails' = fails + 1
          /\ pings' = (pings \ {p}) \cup {[p EXCEPT !.landed = TRUE]}
    /\ UNCHANGED <<now, read, gone, outbox, flush, person, rejected, dropped>>

\* The ping fails, landed or not: it is queued under whoever is signed in by now, and the time
\* it is queued is the time it will be sent with.
queueProgress(ev) ==
    IF tab = None THEN dropped' = dropped \cup {ev} /\ UNCHANGED <<now, outbox>>
    ELSE /\ now' = now + 1
         /\ outbox' = outbox \cup {[ev |-> ev, user |-> tab, ts |-> now + 1]}
         /\ UNCHANGED dropped

PingFails(p) ==
    /\ IF gone \/ p.landed THEN UNCHANGED fails ELSE fails < MaxFails /\ fails' = fails + 1
    /\ pings' = pings \ {p}
    /\ queueProgress(p.ev)
    /\ UNCHANGED <<read, server, flush, person, rejected>>

-----------------------------------------------------------------------------
(* The queue *)

Own(S) == {r \in S : r.user = tab}

\* The whole queue is read at once; what is somebody else's waits for them.
Opens(f, pc, S) == flush' = [flush EXCEPT ![f] = [NoFlush EXCEPT !.pc = pc, !.list = S]]

flushOutbox ==
    /\ flush["app"].pc = "idle" /\ Own(outbox) # {}
    /\ Opens("app", "loop", Own(outbox))
    /\ UNCHANGED <<now, read, server, pings, outbox, person, rejected, dropped, fails>>

flushOutboxSW ==
    /\ flush["worker"].pc = "idle" /\ outbox # {}
    /\ Opens("worker", "mint", outbox)
    /\ UNCHANGED <<now, read, server, pings, outbox, person, rejected, dropped, fails>>

\* The worker's token is the cookie's; with none, or no answer, it sends nothing.
freshAccessToken ==
    /\ flush["worker"].pc = "mint"
    /\ \/ /\ jar # None /\ UNCHANGED fails
          /\ flush' = [flush EXCEPT !["worker"] = [@ EXCEPT !.pc = "loop", !.as = jar]]
       \/ /\ IF jar = None THEN UNCHANGED fails ELSE fails < MaxFails /\ fails' = fails + 1
          /\ flush' = [flush EXCEPT !["worker"] = NoFlush]
    /\ UNCHANGED <<now, read, server, pings, outbox, person, rejected, dropped>>

\* One after another, in the order they were queued; r is the one it is at.
First(f) == {r \in flush[f].list : \A s \in flush[f].list : r.ts <= s.ts}
Popped(g, r) ==
    IF g.list = {r} THEN NoFlush ELSE [g EXCEPT !.pc = "loop", !.list = @ \ {r}]
Pops(f, r) == flush' = [flush EXCEPT ![f] = Popped(@, r)]

\* The app sends as whoever its tab is signed in with by now; signed out it is refused once, and
\* takes on whom the cookie names.
Sends(f) ==
    /\ f \in Pages /\ flush[f].pc = "loop"
    /\ tab' = IF tab = None THEN jar ELSE tab
    /\ flush' = [flush EXCEPT ![f] = [@ EXCEPT !.pc = "sent", !.as = tab']]
    /\ UNCHANGED <<now, read, server, pings, outbox, jar, hint, hand, switches, closes, rejected,
                   dropped, fails>>

\* The worker sends as whom it began with, and only what is stamped with whom it was told of.
SendsSW ==
    /\ flush["worker"].pc = "loop"
    /\ \E r \in First("worker") :
          IF r.user = hint THEN flush' = [flush EXCEPT !["worker"].pc = "sent"]
          ELSE Pops("worker", r)
    /\ UNCHANGED <<now, read, server, pings, outbox, person, rejected, dropped, fails>>

Lands(f) ==
    /\ flush[f].pc = "sent" /\ flush[f].as # None /\ ~gone
    /\ \E r \in First(f) : writeProgress(flush[f].as, r.ev, r.ts)
    /\ flush' = [flush EXCEPT ![f].pc = "landed"]
    /\ UNCHANGED <<now, read, gone, pings, outbox, person, rejected, dropped, fails>>

Answered(f) ==
    /\ flush[f].pc = "landed"
    /\ \E r \in First(f) : outbox' = outbox \ {r} /\ Pops(f, r)
    /\ UNCHANGED <<now, read, server, pings, person, rejected, dropped, fails>>

\* No such chapter: the entry is dropped.
TriedAgain(r) == outbox                                             \* mutant: not for good
Without(r) == outbox \ {r}
Rejects(f) ==
    /\ flush[f].pc = "sent" /\ flush[f].as # None /\ gone
    /\ \E r \in First(f) :
          outbox' = Without(r) /\ rejected' = rejected \cup {r.ev} /\ Pops(f, r)
    /\ UNCHANGED <<now, read, server, pings, person, dropped, fails>>

\* The request fails, landed or not, or nobody is signed in: the entry stays, and the app puts
\* back what it read, sent and dropped by the worker meanwhile or not.
LeftOut(f, r) == outbox \ {r}                                       \* mutant: dropped after all
LeftIn(f, r) == IF f \in Pages THEN outbox \cup {r} ELSE outbox
Fails(f) ==
    /\ flush[f].pc \in {"sent", "landed"}
    /\ IF flush[f].as = None THEN UNCHANGED fails ELSE fails < MaxFails /\ fails' = fails + 1
    /\ \E r \in First(f) : outbox' = LeftIn(f, r) /\ Pops(f, r)
    /\ UNCHANGED <<now, read, server, pings, person, rejected, dropped>>

-----------------------------------------------------------------------------
(* The device changes hands *)

\* To another profile, what is queued being sent first; or signing out; or in.
changeProfile(a) ==
    /\ hand.pc = "none" /\ tab \notin {None, a} /\ switches < MaxSwitches
    /\ switches' = switches + 1
    /\ IF Own(outbox) = {} THEN hand' = [pc |-> "asked", to |-> a] /\ UNCHANGED flush
       ELSE hand' = [pc |-> "flush", to |-> a] /\ Opens("switch", "loop", Own(outbox))
    /\ UNCHANGED <<now, read, server, pings, outbox, tab, jar, hint, rejected, dropped, fails, closes>>

Flushed ==
    /\ hand.pc = "flush" /\ flush["switch"].pc = "idle"
    /\ hand' = [hand EXCEPT !.pc = "asked"]
    /\ UNCHANGED <<now, read, server, pings, outbox, flush, tab, jar, hint, rejected, dropped,
                   fails, switches, closes>>

logout ==
    /\ hand.pc = "none" /\ tab # None /\ switches < MaxSwitches
    /\ switches' = switches + 1
    /\ hand' = [pc |-> "asked", to |-> None]
    /\ UNCHANGED <<now, read, server, pings, outbox, flush, tab, jar, hint, rejected, dropped,
                   fails, closes>>

login(a) ==
    /\ hand.pc = "none" /\ tab = None
    /\ hand' = [pc |-> "asked", to |-> a]
    /\ UNCHANGED <<now, read, server, pings, outbox, flush, tab, jar, hint, rejected, dropped,
                   fails, switches, closes>>

\* The server's answer brings the cookie; the tab takes the new person on some awaits later.  A
\* request that fails leaves things as they were -- but signing out goes through without it.
HandAnswered ==
    /\ hand.pc = "asked"
    /\ \/ /\ jar' = hand.to /\ hand' = [hand EXCEPT !.pc = "answered"] /\ UNCHANGED fails
       \/ /\ fails < MaxFails /\ fails' = fails + 1 /\ UNCHANGED jar
          /\ hand' = IF hand.to = None THEN [hand EXCEPT !.pc = "answered"] ELSE NoHand
    /\ UNCHANGED <<now, read, server, pings, outbox, flush, tab, hint, rejected, dropped,
                   switches, closes>>

adoptAuthed ==
    /\ hand.pc = "answered"
    /\ tab' = hand.to /\ hint' = hand.to /\ hand' = NoHand
    /\ UNCHANGED <<now, read, server, pings, outbox, flush, jar, rejected, dropped, fails,
                   switches, closes>>

\* The app is closed and opened again, as whoever the cookie says: nobody hears of what was under
\* way, which has landed by now or does not.  The worker goes on.
Reopened ==
    /\ closes < MaxCloses /\ closes' = closes + 1
    /\ pings' = {}
    /\ dropped' = dropped \cup {p.ev : p \in {p \in pings : ~p.landed}}
    /\ flush' = [f \in Flushers |-> IF f \in Pages THEN NoFlush ELSE flush[f]]
    /\ tab' = jar /\ hint' = jar /\ hand' = NoHand
    /\ UNCHANGED <<now, read, server, outbox, jar, rejected, fails, switches>>

-----------------------------------------------------------------------------
Sending(f) == Sends(f) \/ Lands(f) \/ Answered(f) \/ Rejects(f) \/ Fails(f)
Changing == Flushed \/ HandAnswered \/ adoptAuthed

Next ==
    \/ Turn \/ Goes \/ flushOutbox \/ flushOutboxSW \/ freshAccessToken \/ SendsSW
    \/ \E a \in Accounts : Elsewhere(a) \/ changeProfile(a) \/ login(a)
    \/ \E p \in pings : PingLands(p) \/ PingFails(p)
    \/ \E f \in Flushers : Sending(f)
    \/ Changing \/ logout \/ Reopened

\* A request is answered or fails some time; the app looks at its queue at every start and every
\* time the network is back.  Nothing makes the worker run.
Spec ==
    /\ Init /\ [][Next]_vars
    /\ WF_vars(flushOutbox) /\ WF_vars(\E f \in Pages : Sending(f))
    /\ WF_vars(\E p \in pings : PingLands(p) \/ PingFails(p))

-----------------------------------------------------------------------------
(* Safety *)

\* No page that was turned is lost, whoever sends it, deletes it and puts it back: it is on the
\* server, under way or in the queue, or the server has said there is no such chapter
\* (downloads.ts permanentlyRejected) -- or nobody was there to hear that its ping failed.
NothingLost ==
    \A e \in read :
        \/ \E w \in written : w.ev = e
        \/ \E p \in pings : p.ev = e
        \/ \E r \in outbox : r.ev = e
        \/ e \in rejected \cup dropped

\* However late, often and in whatever order events arrive, the place is that of the newest one
\* (progress.ts, "the newest event wins") -- or of one that was queued after the newer was read.
BackOnlyByALateQueue ==
    \A w \in written :
        LET place == row[w.as].page
        IN  w.ev.at <= place \/ \E v \in written : v.as = w.as /\ v.ev.at = place /\ v.at > w.ev.at

\* A finish that has arrived stands: nothing that comes late or twice takes it back.
FinishedStands ==
    \A w \in written : w.ev.done => row[w.as].done

(* Liveness *)

\* Once the device stays with somebody, and requests fail no more, nothing of theirs is left in
\* the queue: what one flush revives another sends again.
Delivered == <>[](Own(outbox) = {})

(* What the code's comments say, and the code does not do *)

\* "A's queued chapters would otherwise be filed against B" (downloads.ts:391).
FiledToOwner == \A w \in written : w.as = w.ev.by

\* "a queued page 12 landing after the reader had gone on to page 60" (progress.ts:39).
NewestWins == \A w \in written : w.ev.at <= row[w.as].page
=============================================================================
