------------------------------- MODULE Sweep --------------------------------
(***************************************************************************)
(* One sweep of the library for new chapters: runUpdateAll of              *)
(* bff/src/lib/updater.ts.                                                 *)
(*                                                                         *)
(* Every series waits on the queue of the first source on its route that   *)
(* can be asked.  The finishing sweep visits up to FINISH_LANES series at  *)
(* once, any other sweep one.  A queue whose source is in a cooldown is    *)
(* parked and its series handed on; the budget, a full disk, a shutdown, a *)
(* cancel and another job's wish for quiet end the sweep early.            *)
(*                                                                         *)
(* The loop runs between awaits without interruption: while loop = "pass"  *)
(* nothing else moves.  What a visit does (updateSeries) is what it        *)
(* answers; cooldowns, holds and stops are the environment's.  Outcomes,   *)
(* tallies, the run's card and the dates stamped at the end are left out.  *)
(***************************************************************************)
EXTENDS Naturals, Sequences, FiniteSets, Functions

CONSTANTS
    Sources, NoSource,
    Askable,            \* the sources that are loaded and not switched off
    Kinds,              \* what else a source's visits share: engine, solver
    KeyAt,              \* rateKeyOf each source when the sweep begins
    Rows,               \* the series, in the order of the query
    Route,              \* series -> the sources it may be asked through, in order
    FINISH_LANES,
    MaxNew, SweepMax,   \* opts.maxNew and opts.sweepMax
    CanCool,            \* bound: the sources that may go into a cooldown
    CanHold,            \* bound: the series whose folder another job may hold
    CanJoin,            \* bound: the sources that may turn out to share a server
    MaxPartials         \* bound: PARTIAL_COMPLETE_MAX

AllSeries == Range(Rows)

ASSUME RouteAssumption ==
    /\ IsFiniteSet(Sources) /\ Askable \subseteq Sources /\ NoSource \notin Sources
    /\ DOMAIN Route = AllSeries /\ Rows \in Seq(AllSeries)
    /\ \A id \in AllSeries : Route[id] \in Seq(Sources) /\ Route[id] # <<>>
    /\ \A i, j \in DOMAIN Rows : Rows[i] = Rows[j] => i = j
ASSUME LimitsAssumption ==
    /\ FINISH_LANES \in Nat \ {0} /\ MaxNew \in Nat \ {0} /\ SweepMax \in Nat
    /\ MaxPartials \in Nat
ASSUME KeyAssumption == KeyAt \in [Sources -> Range(KeyAt)] /\ CanJoin \subseteq Sources

Stops == {"shutdown", "cancelled", "yield", "budget", "disk"}
Idle == [at |-> "idle"]
Visit == [at : {"visiting", "parking", "pausing"}, src : Sources, key : Range(KeyAt),
          take : 1 .. MaxNew]

VARIABLES
    finishing,  \* opts.behindOnly
    cooling,    \* source_health: the sources inside a cooldown
    held,       \* the series whose folder another job holds
    asked,      \* the stop somebody asked for
    key,        \* rateKeyOf each source
    queues, waiting, parked, deferred,
    lane,       \* running: the visit of each series, under the key it began with
    spent, reserved, stopped,
    cut,        \* cutByYield
    fate,       \* what became of each series
    loop,       \* where runUpdateAll is
    seen,       \* the queues (or parked sources) this pass is done with
    moved,      \* started, progressed or freed in this pass
    partials    \* chapters left to the completion pass

vars == <<finishing, cooling, held, asked, key, queues, waiting, parked, deferred, lane,
          spent, reserved, stopped, cut, fate, loop, seen, moved, partials>>
world == <<finishing, cooling, held, asked, key>>

Least(x, y) == IF x < y THEN x ELSE y
Width == IF finishing THEN FINISH_LANES ELSE 1
Serial == Width = 1
Running == {id \in AllSeries : lane[id] # Idle}

(* The first source on the route that may be asked now.                    *)
Usable(id, shut) == {i \in DOMAIN Route[id] : Route[id][i] \in Askable \ shut}
FirstOpen(id, shut) ==
    IF Usable(id, shut) = {} THEN NoSource
    ELSE Route[id][CHOOSE i \in Usable(id, shut) : \A j \in Usable(id, shut) : i <= j]

(* The members of a set in a sequence, in their order there.               *)
Among(q, ids) ==
    LET at == {i \in DOMAIN q : q[i] \in ids}
        rank(i) == Cardinality({j \in at : j <= i})
    IN  [n \in 1 .. Cardinality(at) |-> q[CHOOSE i \in at : rank(i) = n]]

(* Routed at the start; a series nothing can ever be asked about keeps its *)
(* main source's queue, one whose sources all cool waits aside.            *)
StartQueue(id) ==
    IF Usable(id, {}) = {} THEN Route[id][1] ELSE FirstOpen(id, cooling)
Init ==
    /\ finishing \in BOOLEAN
    /\ cooling \in SUBSET CanCool
    /\ held \in SUBSET CanHold
    /\ asked = "none"
    /\ key = KeyAt
    /\ queues = [s \in Sources |-> Among(Rows, {id \in AllSeries : StartQueue(id) = s})]
    /\ waiting = {id \in AllSeries : StartQueue(id) = NoSource}
    /\ parked = {} /\ deferred = {}
    /\ lane = [id \in AllSeries |-> Idle]
    /\ spent = 0 /\ reserved = 0
    /\ stopped = "none" /\ cut = FALSE
    /\ fate = [id \in AllSeries |-> "none"]
    /\ loop = "pass" /\ seen = {} /\ moved = FALSE
    /\ partials \in 0 .. MaxPartials

-----------------------------------------------------------------------------
(* The world between two turns of the loop.                                *)
Awaiting == loop \notin {"pass", "over"}
Untouched == UNCHANGED <<queues, waiting, parked, deferred, lane, spent, reserved,
                         stopped, cut, fate, loop, seen, moved, partials>>
Cool(s) ==
    /\ Awaiting /\ s \in CanCool
    /\ cooling' = (cooling \ {s}) \cup ({s} \ cooling)
    /\ Untouched /\ UNCHANGED <<finishing, held, asked, key>>
Claim(id) ==
    /\ Awaiting /\ id \in CanHold
    /\ held' = (held \ {id}) \cup ({id} \ held)
    /\ Untouched /\ UNCHANGED <<finishing, cooling, asked, key>>
(* wantQuiet asks a finishing sweep alone, and for half an hour.           *)
AskToStop(why) ==
    /\ Awaiting
    /\ \/ asked = "none" /\ why \in {"shutdown", "cancelled"}
       \/ asked = "none" /\ why = "yield" /\ finishing
       \/ asked = "yield" /\ why = "none"
    /\ asked' = why
    /\ Untouched /\ UNCHANGED <<finishing, cooling, held, key>>
(* A page list shows that two sources are on one image server (joined() of *)
(* pace.ts): from now on they share a key.  Only the lanes ask for keys.   *)
Learn(s, t) ==
    /\ Awaiting /\ finishing /\ key[s] # key[t]
    /\ key' = [x \in Sources |-> IF key[x] = key[s] THEN key[t] ELSE key[x]]
    /\ Untouched /\ UNCHANGED <<finishing, cooling, held, asked>>

-----------------------------------------------------------------------------
(* The loop.                                                               *)
(* A lane holds the key its source had when it began, and its kinds.       *)
Apart(r, src) == lane[r].key # key[src] /\ Kinds[lane[r].src] \cap Kinds[src] = {}
Free(src) == Cardinality(Running) < Width /\ \A r \in Running : Apart(r, src)
Ready(src) ==
    /\ queues[src] # <<>> /\ src \notin parked \cup seen
    /\ Free(src)

stopNow ==
    IF asked # "none" THEN asked
    ELSE IF spent + reserved >= SweepMax THEN "budget" ELSE "none"

TakeAll(x) == Least(MaxNew, SweepMax - spent)       \* mutant: no reserve
Take(x) == Least(MaxNew, SweepMax - spent - x)

(* A queue's turn.                                                         *)
Turn(src) == loop = "pass" /\ Ready(src)
Stop(src) ==
    /\ Turn(src) /\ stopNow # "none"
    /\ stopped' = stopNow /\ loop' = "draining"
    /\ UNCHANGED world
    /\ UNCHANGED <<queues, waiting, parked, deferred, lane, spent, reserved, cut, fate, seen,
                   moved, partials>>
Passed(src) == seen' = seen \cup {src} /\ moved' = TRUE
(* heldNow: to the back of its queue once, then left for the next sweep.   *)
LeaveHeld(src) ==
    LET id == Head(queues[src]) IN
    /\ Turn(src) /\ stopNow = "none" /\ id \in held
    /\ deferred' = deferred \cup {id}
    /\ queues' = [queues EXCEPT ![src] = IF id \in deferred THEN Tail(@) ELSE Append(Tail(@), id)]
    /\ fate' = [fate EXCEPT ![id] = IF id \in deferred THEN "skipped" ELSE @]
    /\ Passed(src)
    /\ UNCHANGED world
    /\ UNCHANGED <<waiting, parked, lane, spent, reserved, stopped, cut, loop, partials>>
Begin(src) ==
    LET id == Head(queues[src])
        take == Take(reserved)
    IN
    /\ Turn(src) /\ stopNow = "none" /\ id \notin held
    /\ queues' = [queues EXCEPT ![src] = Tail(@)]
    /\ lane' = [lane EXCEPT ![id] =
           [at |-> "visiting", src |-> src, key |-> key[src], take |-> take]]
    /\ reserved' = reserved + take
    /\ Passed(src)
    /\ loop' = IF Serial THEN "asleep" ELSE "pass"
    /\ UNCHANGED world
    /\ UNCHANGED <<waiting, parked, deferred, spent, stopped, cut, fate, partials>>

(* Every queue had its turn.                                               *)
PassOver ==
    /\ loop = "pass" /\ \A src \in Sources : ~Ready(src)
    /\ loop' = IF stopped # "none" THEN "draining"
               ELSE IF Running # {} THEN "asleep"
               ELSE IF moved THEN "pass" ELSE "freeing"
    /\ seen' = {} /\ moved' = FALSE
    /\ UNCHANGED world
    /\ UNCHANGED <<queues, waiting, parked, deferred, lane, spent, reserved, stopped, cut, fate,
                   partials>>

-----------------------------------------------------------------------------
(* visitOne.                                                               *)
Answered(id, n) ==
    /\ lane[id].at = "visiting" /\ n \in 0 .. lane[id].take
    /\ spent' = spent + n
    /\ fate' = [fate EXCEPT ![id] = "visited"]
    /\ cut' \in {cut, cut \/ asked = "yield"}

(* The lane's end wakes the loop.  One series at a time, the pass goes on  *)
(* where it was, unless the visit stopped it; the lanes start a new one.   *)
Woken ==
    IF loop # "asleep" THEN loop
    ELSE IF Serial /\ stopped' # "none" THEN "draining" ELSE "pass"
Leaves(id) ==
    /\ lane' = [lane EXCEPT ![id] = Idle]
    /\ reserved' = reserved - lane[id].take
    /\ loop' = Woken

(* A visit nobody was asked in makes no pause: a pause of no length.       *)
Land(id, n) ==
    /\ Answered(id, n)
    /\ lane' = [lane EXCEPT ![id].at = "pausing"]
    /\ UNCHANGED world
    /\ UNCHANGED <<queues, waiting, parked, deferred, reserved, stopped, loop, seen, moved, partials>>
Paused(id) ==
    /\ lane[id].at = "pausing" /\ Awaiting
    /\ UNCHANGED stopped
    /\ Leaves(id)
    /\ UNCHANGED world
    /\ UNCHANGED <<queues, waiting, parked, deferred, spent, cut, fate, seen, moved, partials>>
DiskFull(id, n) ==
    /\ Answered(id, n)
    /\ stopped' = "disk"
    /\ Leaves(id)
    /\ UNCHANGED world
    /\ UNCHANGED <<queues, waiting, parked, deferred, seen, moved, partials>>
(* Every source on its route is cooling: the queue is parked and, a query  *)
(* later, handed on.                                                       *)
Blocked(id) ==
    /\ Answered(id, 0)
    /\ Usable(id, {}) # {} /\ Usable(id, cooling) = {}
    /\ parked' = parked \cup {lane[id].src}
    /\ lane' = [lane EXCEPT ![id].at = "parking"]
    /\ UNCHANGED world
    /\ UNCHANGED <<queues, waiting, deferred, reserved, stopped, loop, seen, moved, partials>>

Onward(src, id) == FirstOpen(id, cooling \cup parked \cup {src})
StaysAlways(src, id) == TRUE            \* mutant: handed on and kept
Stays(src, id) == Onward(src, id) = NoSource
HandOn(id) ==
    LET src == lane[id].src IN
    /\ lane[id].at = "parking" /\ Awaiting
    /\ queues' = [s \in Sources |->
           IF s = src THEN Among(queues[s], {x \in AllSeries : Stays(src, x)})
           ELSE queues[s] \o Among(queues[src], {x \in AllSeries : Onward(src, x) = s})]
    /\ UNCHANGED stopped
    /\ Leaves(id)
    /\ UNCHANGED world
    /\ UNCHANGED <<waiting, parked, deferred, spent, cut, fate, seen, moved, partials>>

-----------------------------------------------------------------------------
(* freeSome, when no queue moved and nothing runs: each parked source is   *)
(* asked about in turn, then the series aside.                             *)
Unpark(src) ==
    /\ loop = "freeing" /\ src \in parked \ seen
    /\ seen' = seen \cup {src}
    /\ parked' = IF src \in cooling THEN parked ELSE parked \ {src}
    /\ moved' = (moved \/ src \notin cooling)
    /\ UNCHANGED world
    /\ UNCHANGED <<queues, waiting, deferred, lane, spent, reserved, stopped, cut, fate, loop,
                   partials>>
JoinsTo(id) == IF id \in waiting THEN FirstOpen(id, cooling \cup parked) ELSE NoSource
FreedParked(n) == moved                 \* mutant: who joined is not counted
FreedWhileAside(n) == moved \/ waiting # {} \* mutant: whoever waits is tried again
Freed(n) == moved \/ n > 0
FreeSome ==
    LET joining == {id \in waiting : JoinsTo(id) # NoSource} IN
    /\ loop = "freeing" /\ parked \subseteq seen
    /\ waiting' = waiting \ joining
    /\ queues' = [s \in Sources |-> queues[s] \o Among(Rows, {id \in AllSeries : JoinsTo(id) = s})]
    /\ loop' = IF Freed(Cardinality(joining)) THEN "pass" ELSE "draining"
    /\ seen' = {} /\ moved' = FALSE
    /\ UNCHANGED world
    /\ UNCHANGED <<parked, deferred, lane, spent, reserved, stopped, cut, fate, partials>>

-----------------------------------------------------------------------------
(* The end: what runs finishes, what is left is counted, and a sweep that  *)
(* was not stopped asks for the pages partial chapters miss.               *)
Drained ==
    /\ loop = "draining" /\ Running = {}
    /\ stopped' = IF stopped = "none" /\ cut THEN "yield" ELSE stopped
    /\ fate' = [id \in AllSeries |->
           IF id \in waiting THEN "blocked"
           ELSE IF \E s \in Sources : id \in Range(queues[s]) THEN "skipped" ELSE fate[id]]
    /\ queues' = [s \in Sources |-> <<>>] /\ waiting' = {}
    /\ loop' = IF stopped' = "none" THEN "completing" ELSE "over"
    /\ UNCHANGED world
    /\ UNCHANGED <<parked, deferred, lane, spent, reserved, cut, seen, moved, partials>>

StopCompleting ==
    IF asked \in {"shutdown", "cancelled"} THEN asked
    ELSE IF spent >= SweepMax THEN "budget" ELSE "none"
(* A partial of a series that is no longer monitored costs nothing.        *)
Complete(cost, full) ==
    /\ loop = "completing" /\ partials > 0 /\ StopCompleting = "none"
    /\ partials' = partials - 1
    /\ spent' = spent + cost
    /\ stopped' = IF full THEN "disk" ELSE stopped
    /\ loop' = IF full THEN "over" ELSE loop
    /\ UNCHANGED world
    /\ UNCHANGED <<queues, waiting, parked, deferred, lane, reserved, cut, fate, seen, moved>>
CompletionOver ==
    /\ loop = "completing" /\ (partials = 0 \/ StopCompleting # "none")
    /\ stopped' = IF partials = 0 THEN stopped ELSE StopCompleting
    /\ loop' = "over"
    /\ UNCHANGED world
    /\ UNCHANGED <<queues, waiting, parked, deferred, lane, spent, reserved, cut, fate, seen,
                   moved, partials>>
Over == loop = "over" /\ UNCHANGED vars

-----------------------------------------------------------------------------
VisitEnds(id) ==
    \/ \E n \in 0 .. MaxNew : Awaiting /\ (Land(id, n) \/ DiskFull(id, n))
    \/ Awaiting /\ Blocked(id)
    \/ Paused(id)
    \/ HandOn(id)
Loop ==
    \/ \E src \in Sources : Stop(src) \/ LeaveHeld(src) \/ Begin(src) \/ Unpark(src)
    \/ PassOver \/ FreeSome \/ Drained
    \/ Complete(1, TRUE) \/ Complete(1, FALSE) \/ Complete(0, FALSE)
    \/ CompletionOver
World ==
    \/ \E s \in Sources : Cool(s)
    \/ \E id \in AllSeries : Claim(id)
    \/ \E s, t \in CanJoin : Learn(s, t)
    \/ \E why \in {"shutdown", "cancelled", "yield", "none"} : AskToStop(why)
Next == World \/ Loop \/ Over \/ \E id \in AllSeries : VisitEnds(id)

Spec == Init /\ [][Next]_vars
(* The loop is code that runs, and every visit ends: its queries and       *)
(* requests have time limits of their own.                                 *)
LiveSpec == Spec /\ WF_vars(Loop) /\ \A id \in AllSeries : WF_vars(VisitEnds(id))

-----------------------------------------------------------------------------
TypeOK ==
    /\ finishing \in BOOLEAN /\ cooling \subseteq CanCool /\ held \subseteq CanHold
    /\ asked \in {"none", "shutdown", "cancelled", "yield"}
    /\ key \in [Sources -> Range(KeyAt)]
    /\ queues \in [Sources -> Seq(AllSeries)]
    /\ waiting \subseteq AllSeries /\ deferred \subseteq AllSeries
    /\ parked \subseteq Sources /\ seen \subseteq Sources
    /\ lane \in [AllSeries -> Visit \cup {Idle}]
    /\ spent \in Nat /\ reserved \in Nat /\ partials \in Nat
    /\ stopped \in Stops \cup {"none"} /\ cut \in BOOLEAN /\ moved \in BOOLEAN
    /\ fate \in [AllSeries -> {"none", "visited", "skipped", "blocked"}]
    /\ loop \in {"pass", "asleep", "freeing", "draining", "completing", "over"}

(* Where a series is: in a queue, with a lane, aside or accounted for.     *)
SpotsOf(id) ==
    UNION {{<<s, i>> : i \in {n \in DOMAIN queues[s] : queues[s][n] = id}} : s \in Sources}
PlacesOf(id) ==
    SpotsOf(id) \cup (IF lane[id].at = "visiting" THEN {<<"lane", 0>>} ELSE {})
        \cup (IF id \in waiting THEN {<<"aside", 0>>} ELSE {})
        \cup (IF fate[id] # "none" THEN {<<"fate", 0>>} ELSE {})

(* However often a series is handed from queue to queue, put back or set   *)
(* aside, it is in one place: it is visited once or accounted for once.    *)
EachSeriesOnce == \A id \in AllSeries : Cardinality(PlacesOf(id)) = 1

(* The chapters attempted by all lanes and by the completion pass together *)
(* never pass the sweep's budget.                                          *)
BudgetHolds == spent <= SweepMax

(* A sweep nobody stopped leaves a series in a queue only when the queue   *)
(* is parked.                                                              *)
LeftOnlyParked ==
    loop = "draining" /\ Running = {} /\ stopped = "none" =>
        \A s \in Sources : queues[s] # <<>> => s \in parked

(* The sweep ends, whatever cools, is held or is refused meanwhile.        *)
SweepEnds == <>(loop = "over")

=============================================================================
