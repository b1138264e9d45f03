-------------------------------- MODULE Gate --------------------------------
(***************************************************************************)
(* The per-key concurrency gate (bff/src/lib/gate.ts) that every download, *)
(* tracker call and notification goes through: a lane per key, a width, a  *)
(* first-come queue, and a politeness gap between starts.                  *)
(*                                                                         *)
(* Node runs one continuation at a time, so an action is the code between  *)
(* two awaits.  Between the moment a waiter is let in (its promise is      *)
(* resolved) and the moment it goes on, anything else may run: that is     *)
(* phase "admitted".  A time is kept as what is left of it: rest is        *)
(* nextFreeAt - Date.now(), floored at zero, which is all the code asks of *)
(* nextFreeAt.                                                             *)
(***************************************************************************)
EXTENDS Integers, Sequences, FiniteSets

CONSTANTS
    Ops,        \* calls of withGate; one that returned may be made again
    Keys,       \* lane keys: source ids, "tracker:<user>:<provider>", ...
    KeyOf,      \* the key each call is made with
    Levels,     \* what the options depend on: the pace level of the key
    WidthAt,    \* opts.concurrency() at each level, before Math.max(1, _)
    GapAt       \* opts.minGapMs() at each level

ASSUME OpsAssumption   == IsFiniteSet(Ops) /\ KeyOf \in [Ops -> Keys]
ASSUME WidthAssumption == WidthAt \in [Levels -> Nat]
ASSUME GapAssumption   == GapAt \in [Levels -> Nat]

VARIABLES
    open,       \* the keys of the Map: the lanes that exist
    active,     \* lane.active
    queue,      \* lane.queue, as the calls whose waiters it holds
    rest,       \* lane.nextFreeAt, as what is left of it
    phase,      \* where each call stands
    left,       \* a sleeping call: what is left of its sleep
    gap,        \* a call that has its slot: the gap it was told
    level       \* environment: the pace level behind each key

vars == <<open, active, queue, rest, phase, left, gap, level>>

Phases  == {"idle", "queued", "admitted", "sleeping", "running"}
Holding == {"admitted", "sleeping", "running"}     \* a slot is counted

WidthOf(l) == IF WidthAt[l] > 1 THEN WidthAt[l] ELSE 1
Width(k)   == WidthOf(level[k])
Gap(k)     == GapAt[level[k]]

Init ==
    /\ open = {}
    /\ active = [k \in Keys |-> 0]
    /\ queue  = [k \in Keys |-> <<>>]
    /\ rest   = [k \in Keys |-> 0]
    /\ phase  = [o \in Ops |-> "idle"]
    /\ left   = [o \in Ops |-> 0]
    /\ gap    = [o \in Ops |-> 0]
    /\ level \in [Keys -> Levels]

-----------------------------------------------------------------------------
(* admit(): the head of the queue is let in while the lane is under the     *)
(* width it asks for; calls of one key ask for the same width, so the loop  *)
(* lets in a prefix.  An empty lane is deleted, and its nextFreeAt with it. *)

(* Mutant of LetIn: a slot too few.                                        *)
LetInOneShort(k, a, q) ==
    IF Width(k) <= a + 1 THEN 0
    ELSE IF Len(q) < Width(k) - a - 1 THEN Len(q) ELSE Width(k) - a - 1

LetIn(k, a, q) ==
    IF Width(k) <= a THEN 0
    ELSE IF Len(q) < Width(k) - a THEN Len(q) ELSE Width(k) - a
Counted(a, n)    == a + n                          \* before anybody wakes
Remaining(q, n)  == SubSeq(q, n + 1, Len(q))
EmptiesBefore(a, q, n) == a = 0     \* mutant: asked before the loop
Empties(a, q, n) == a + n = 0 /\ Len(q) = n

Admit(k, a, q, ph) ==
    LET n == LetIn(k, a, q) IN
    /\ active' = [active EXCEPT ![k] = Counted(a, n)]
    /\ queue'  = [queue EXCEPT ![k] = Remaining(q, n)]
    /\ phase'  = [o \in Ops |-> IF \E i \in 1..n : q[i] = o
                                THEN "admitted" ELSE ph[o]]
    /\ IF Empties(a, q, n)
         THEN open' = open \ {k} /\ rest' = [rest EXCEPT ![k] = 0]
         ELSE open' = open \cup {k} /\ UNCHANGED rest

(* A call that has its slot asks for its gap: it starts at once, or reads   *)
(* nextFreeAt and sleeps.  nextFreeAt is moved on when it starts.           *)
MustSleep(k) == Gap(k) > 0 /\ rest[k] > 0

TakeSlot(o) ==
    LET k == KeyOf[o]
        g == Gap(k)
    IN  /\ gap' = [gap EXCEPT ![o] = g]
        /\ IF MustSleep(k)
             THEN /\ phase' = [phase EXCEPT ![o] = "sleeping"]
                  /\ left' = [left EXCEPT ![o] = rest[k]]
                  /\ UNCHANGED rest
             ELSE /\ phase' = [phase EXCEPT ![o] = "running"]
                  /\ rest' = IF g > 0 THEN [rest EXCEPT ![k] = g] ELSE rest
                  /\ UNCHANGED left

HasRoomPast(k) == active[k] < Width(k)  \* mutant: past those who wait
HasRoom(k) == queue[k] = <<>> /\ active[k] < Width(k)

(* withGate() when nobody waits and there is room: no await before fn, or  *)
(* before the sleep.                                                       *)
ArriveFree(o) ==
    LET k == KeyOf[o] IN
    /\ phase[o] = "idle"
    /\ HasRoom(k)
    /\ open' = open \cup {k}
    /\ active' = [active EXCEPT ![k] = @ + 1]
    /\ TakeSlot(o)
    /\ UNCHANGED <<queue, level>>

(* withGate() otherwise: behind everyone who waits, then admit().          *)
ArriveBehind(o) ==
    LET k == KeyOf[o] IN
    /\ phase[o] = "idle"
    /\ ~HasRoom(k)
    /\ Admit(k, active[k], Append(queue[k], o), [phase EXCEPT ![o] = "queued"])
    /\ UNCHANGED <<left, gap, level>>

(* The waiter's continuation, some time after go().                        *)
GoOn(o) ==
    /\ phase[o] = "admitted"
    /\ TakeSlot(o)
    /\ UNCHANGED <<open, active, queue, level>>

(* The sleep is over: nextFreeAt is set from the clock, and fn starts.     *)
Wake(o) ==
    LET k == KeyOf[o] IN
    /\ phase[o] = "sleeping" /\ left[o] = 0
    /\ phase' = [phase EXCEPT ![o] = "running"]
    /\ rest' = [rest EXCEPT ![k] = gap[o]]
    /\ UNCHANGED <<open, active, queue, left, gap, level>>

(* fn settles, either way: the finally block.                              *)
Finish(o) ==
    LET k == KeyOf[o] IN
    /\ phase[o] = "running"
    /\ gap' = [gap EXCEPT ![o] = 0]
    /\ Admit(k, active[k] - 1, queue[k], [phase EXCEPT ![o] = "idle"])
    /\ UNCHANGED <<left, level>>

(* Time passes: a sleep and a lane's rest run down together.               *)
Less(n) == IF n > 0 THEN n - 1 ELSE 0
Tick ==
    /\ \/ \E o \in Ops : left[o] > 0
       \/ \E k \in Keys : rest[k] > 0
    /\ left' = [o \in Ops |-> Less(left[o])]
    /\ rest' = [k \in Keys |-> Less(rest[k])]
    /\ UNCHANGED <<open, active, queue, phase, gap, level>>

(* The pace of a source is raised or eased by its downloads (lib/pace.ts). *)
SetLevel(k, l) ==
    /\ level[k] # l
    /\ level' = [level EXCEPT ![k] = l]
    /\ UNCHANGED <<open, active, queue, rest, phase, left, gap>>

Next ==
    \/ \E o \in Ops : \/ ArriveFree(o) \/ ArriveBehind(o)
                      \/ GoOn(o) \/ Wake(o) \/ Finish(o)
    \/ Tick
    \/ \E k \in Keys, l \in Levels : SetLevel(k, l)

Spec == Init /\ [][Next]_vars

(* A resolved promise's continuation runs, a timer fires, the clock goes on *)
(* and what runs under the gate settles (its requests carry timeouts).      *)
(* Nobody has to call, and no pace has to change.                           *)
Fairness ==
    /\ WF_vars(Tick)
    /\ \A o \in Ops : WF_vars(GoOn(o)) /\ WF_vars(Wake(o)) /\ WF_vars(Finish(o))

LiveSpec == Spec /\ Fairness

-----------------------------------------------------------------------------
(* The state of the gate is well typed.                                    *)
TypeOK ==
    /\ open \subseteq Keys
    /\ active \in [Keys -> Nat]
    /\ queue \in [Keys -> Seq(Ops)]
    /\ rest \in [Keys -> Nat]
    /\ phase \in [Ops -> Phases]
    /\ left \in [Ops -> Nat] /\ gap \in [Ops -> Nat]
    /\ level \in [Keys -> Levels]

HoldersIn(k, ph) == {o \in Ops : KeyOf[o] = k /\ ph[o] \in Holding}
WaitersIn(k, ph) == {o \in Ops : KeyOf[o] = k /\ ph[o] = "queued"}
Holders(k) == HoldersIn(k, phase)
Waiters(k) == WaitersIn(k, phase)

(* The count a lane keeps is the number of calls that have a slot in it: a *)
(* slot is counted once, before the waiter wakes, and given back once      *)
(* (gate.ts:41-44).                                                        *)
SlotsAreCounted == \A k \in Keys : active[k] = Cardinality(Holders(k))

(* The queue of a lane holds the calls that wait for it, each once: nobody *)
(* waits for a turn that no longer exists.                                 *)
Enumerates(q, S) ==
    /\ \A i \in 1..Len(q) : q[i] \in S
    /\ \A o \in S : \E i \in 1..Len(q) : q[i] = o
    /\ \A i, j \in 1..Len(q) : q[i] = q[j] => i = j
QueueHoldsWaiters == \A k \in Keys : Enumerates(queue[k], Waiters(k))

(* A lane exists exactly while a call runs or waits in it: that is what    *)
(* gateBusy answers from (gate.ts:79-84), and no lane is leaked.           *)
LaneIsBusy == \A k \in Keys : k \in open <=> Holders(k) \cup Waiters(k) # {}

(* A lane agrees with the calls in it: its count with those that hold a    *)
(* slot, its queue with those that wait, and its being there with either.  *)
LanesAgree == SlotsAreCounted /\ QueueHoldsWaiters /\ LaneIsBusy

(* Somebody who waits waits for somebody who runs, and who will let them   *)
(* in: a queue with nobody in front of it would never move again.          *)
NoLostWakeup == \A k \in Keys : Waiters(k) # {} => Holders(k) # {}

(* However often the width changes, a lane never holds more calls than the *)
(* widest of its widths: the site never sees more at once.                 *)
WidthBound ==
    \A k \in Keys : \E l \in Levels : Cardinality(Holders(k)) <= WidthOf(l)

GetsSlot(o) == phase[o] \notin Holding /\ phase'[o] \in Holding

(* A call is given a slot only in a lane that has one: when it is counted  *)
(* the lane is within the width asked for at that moment, so a lane that   *)
(* was narrowed admits nobody until it has drained to the new width.       *)
AdmittedUnderWidth ==
    [][\A o \in Ops : GetsSlot(o) =>
          Cardinality(Holders(KeyOf[o])') <= Width(KeyOf[o])]_vars

(* First come, first served: when a call is given a slot, whoever was in   *)
(* the queue before it has one by then (gate.ts:58-59).                    *)
FirstComeFirstServed ==
    [][\A o \in Ops : GetsSlot(o) =>
          LET q == queue[KeyOf[o]]
              ahead == {q[j] : j \in {i \in 1..Len(q) :
                                      \A h \in 1..i : q[h] # o}}
          IN  \A p \in ahead : phase'[p] \in Holding]_vars

(* Every call that waits gets its turn, whatever the width does meanwhile. *)
EveryWaiterRuns ==
    \A o \in Ops : phase[o] = "queued" ~> phase[o] = "running"

=============================================================================
