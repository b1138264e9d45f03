-------------------------------- MODULE Pace --------------------------------
(***************************************************************************)
(* How slowly each source is asked for chapters (bff/src/lib/pace.ts).  A  *)
(* 429 raises the level of a rate key, good chapters and idle days take it *)
(* down again, and groups whose pages come from one image server share a   *)
(* key from the moment that is learned.                                    *)
(*                                                                         *)
(* Stamps are kept as ages: age is now - since, hitAge now - hitAt, rest   *)
(* restUntil - now.  Each saturates where no reader can tell the           *)
(* difference: an age at the idle decay of the highest level, hitAge at    *)
(* PACE_HOLD_MS, run at PACE_STEADY_RUN.                                   *)
(***************************************************************************)
EXTENDS Integers, FiniteSets

CONSTANTS
    Groups,             \* rate groups, as numbers: the order is that of the keys
    Servers,            \* registrable domains that serverOf answers
    PACE_MAX_LEVEL, PACE_HOLD_MS, PACE_STEADY_RUN, PACE_IDLE_MS,
    MAX_SERVERS,
    Rests               \* the waits a 429 can ask for

ASSUME GroupsAssumption == Groups \subseteq Nat /\ IsFiniteSet(Groups)
ASSUME BoundsAssumption ==
    /\ PACE_MAX_LEVEL \in Nat \ {0} /\ PACE_STEADY_RUN \in Nat \ {0}
    /\ PACE_HOLD_MS \in Nat \ {0} /\ PACE_IDLE_MS \in Nat /\ MAX_SERVERS \in Nat
ASSUME HoldAssumption == PACE_HOLD_MS <= PACE_IDLE_MS
ASSUME RestsAssumption == Rests \subseteq 0..PACE_HOLD_MS

VARIABLES
    paces,      \* the Map, total: level 0 where there is no entry
    servers,    \* group -> the image servers its pages have come from
    joins,      \* group -> the key it shares (its own where it shares none)
    refused,    \* history: what is left of PACE_HOLD_MS since a 429
    owed        \* history: what is left of the longest rest a 429 asked for

paceVars == <<paces, servers, joins, refused, owed>>

AgeCap  == PACE_IDLE_MS * PACE_MAX_LEVEL
NoPace  == [level |-> 0, age |-> 0, hitAge |-> PACE_HOLD_MS, run |-> 0, rest |-> 0]
PaceType == [level : 0..PACE_MAX_LEVEL, age : 0..AgeCap, hitAge : 0..PACE_HOLD_MS,
             run : 0..PACE_STEADY_RUN, rest : 0..PACE_HOLD_MS]

Least(S)    == CHOOSE x \in S : \A y \in S : x <= y
Greatest(S) == CHOOSE x \in S : \A y \in S : x >= y
AtMost(x, y) == IF x < y THEN x ELSE y

-----------------------------------------------------------------------------
(* Groups that have both served pages from one server, and whoever they    *)
(* are joined to in turn, share the smallest of their keys (joined()).     *)
Shares(sv, g, h) == sv[g] \cap sv[h] # {}
Closed(sv, C) == \A g \in C, h \in Groups : Shares(sv, g, h) => h \in C
Component(sv, g) ==
    {h \in Groups : \A C \in SUBSET Groups : g \in C /\ Closed(sv, C) => h \in C}
joinedDirect(sv) ==                     \* mutant: no chains
    [g \in Groups |-> Least({g} \cup {h \in Groups : Shares(sv, g, h)})]
joined(sv) == [g \in Groups |-> Least(Component(sv, g))]
rateKeyOf(g) == joins[g]

(* Two levels that meet under one key: the slower of the two, the latest   *)
(* of their holds and rests.  They are merged as they stand in the Map.    *)
MergedFirst(S) ==                       \* mutant: one of them wins whole
    IF S = {} THEN NoPace ELSE CHOOSE p \in S : \A q \in S : p.level >= q.level
Merged(S) ==
    IF S = {} THEN NoPace
    ELSE [level  |-> Greatest({p.level : p \in S}),
          age    |-> Least({p.age : p \in S}),
          hitAge |-> Least({p.hitAge : p \in S}),
          run    |-> Least({p.run : p \in S}),
          rest   |-> Greatest({p.rest : p \in S})]

(* The idle decay: one step per PACE_IDLE_MS since the level changed,      *)
(* taken off by advancing the stamp.                                       *)
DecayedToOne(p) ==                      \* mutant: never deleted
    LET steps == p.age \div PACE_IDLE_MS IN
    IF steps = 0 \/ p.level = 0 THEN p
    ELSE IF p.level <= steps THEN [p EXCEPT !.level = 1, !.age = 0, !.run = 0]
    ELSE [p EXCEPT !.level = @ - steps, !.age = @ - steps * PACE_IDLE_MS, !.run = 0]
Decayed(p) ==
    LET steps == p.age \div PACE_IDLE_MS IN
    IF steps = 0 \/ p.level = 0 THEN p
    ELSE IF p.level <= steps THEN NoPace
    ELSE [p EXCEPT !.level = @ - steps, !.age = @ - steps * PACE_IDLE_MS, !.run = 0]

current(key) == Decayed(paces[key])
paceLevel(g) == current(rateKeyOf(g)).level
restLeft(g)  == current(rateKeyOf(g)).rest
refusedLately(g) == LET p == current(rateKeyOf(g)) IN
                    p.level > 0 /\ p.hitAge < PACE_HOLD_MS

PaceInit ==
    /\ paces = [g \in Groups |-> NoPace]
    /\ servers = [g \in Groups |-> {}]
    /\ joins = [g \in Groups |-> g]
    /\ refused = [g \in Groups |-> 0]
    /\ owed = [g \in Groups |-> 0]

(* The source answered 429 and asked for a rest.                           *)
Raised(p, restMs) ==
    [level |-> AtMost(PACE_MAX_LEVEL, p.level + 1), age |-> 0, hitAge |-> 0,
     run |-> 0, rest |-> Greatest({p.rest, restMs})]

noteRateLimited(g, restMs) ==
    LET key == rateKeyOf(g) IN
    /\ paces' = [paces EXCEPT ![key] = Raised(current(key), restMs)]
    /\ refused' = [refused EXCEPT ![g] = PACE_HOLD_MS]
    /\ owed' = [owed EXCEPT ![g] = Greatest({@, restMs})]
    /\ UNCHANGED <<servers, joins>>

(* A chapter came down whole.                                              *)
HeldNever(p) == TRUE                    \* mutant: no least time at a level
Held(p)   == p.age >= PACE_HOLD_MS
Steady(p) == p.run >= PACE_STEADY_RUN
Eased(p) ==
    LET q == [p EXCEPT !.run = AtMost(PACE_STEADY_RUN, @ + 1)] IN
    IF p.level = 0 THEN p
    ELSE IF ~Steady(q) \/ ~Held(q) THEN q
    ELSE IF q.level <= 1 THEN NoPace
    ELSE [q EXCEPT !.level = @ - 1, !.age = 0, !.run = 0]

noteDownloaded(g) ==
    LET key == rateKeyOf(g) IN
    /\ paces' = [paces EXCEPT ![key] = Eased(current(key))]
    /\ UNCHANGED <<servers, joins, refused, owed>>

(* Any reader of the pace: paceLevel, restLeft, refusedLately.  Reading    *)
(* writes the decay down.                                                  *)
Read(g) ==
    LET key == rateKeyOf(g) IN
    /\ paces' = [paces EXCEPT ![key] = current(key)]
    /\ UNCHANGED <<servers, joins, refused, owed>>

(* The page list of a chapter names servers not seen for the group before. *)
(* joined() moves the levels when the key is next asked for; nothing reads *)
(* a level in between, so they are moved here.                             *)
Moved(js) ==
    [k \in Groups |-> Merged({paces[g] : g \in {x \in Groups :
                                js[x] = k /\ paces[x].level > 0}})]

notePageHosts(g, found) ==
    LET sv == [servers EXCEPT ![g] = @ \cup found] IN
    /\ found # {} /\ found \cap servers[g] = {}
    /\ Cardinality(sv[g]) <= MAX_SERVERS
    /\ servers' = sv
    /\ joins' = joined(sv)
    /\ paces' = Moved(joins')
    /\ UNCHANGED <<refused, owed>>

Older(p) == [p EXCEPT !.age = IF p.level = 0 THEN 0 ELSE AtMost(AgeCap, @ + 1),
                      !.hitAge = AtMost(PACE_HOLD_MS, @ + 1),
                      !.rest = IF @ > 0 THEN @ - 1 ELSE 0]
OneLess(n) == IF n > 0 THEN n - 1 ELSE 0
TimePasses ==
    /\ paces' = [g \in Groups |-> Older(paces[g])]
    /\ refused' = [g \in Groups |-> OneLess(refused[g])]
    /\ owed' = [g \in Groups |-> OneLess(owed[g])]
    /\ UNCHANGED <<servers, joins>>

RateLimited == \E g \in Groups, r \in Rests : noteRateLimited(g, r)
PaceNext ==
    \/ RateLimited
    \/ \E g \in Groups : noteDownloaded(g) \/ Read(g)
    \/ \E g \in Groups, found \in SUBSET Servers : notePageHosts(g, found)
    \/ TimePasses

PaceSpec == PaceInit /\ [][PaceNext]_paceVars

(* Time passes; nobody has to download or to read.                         *)
PaceLiveSpec == PaceSpec /\ WF_paceVars(TimePasses)
-----------------------------------------------------------------------------
(* The state is well typed.                                                *)
PaceTypeOK ==
    /\ paces \in [Groups -> PaceType]
    /\ servers \in [Groups -> SUBSET Servers]
    /\ joins \in [Groups -> Groups]
    /\ refused \in [Groups -> 0..PACE_HOLD_MS]
    /\ owed \in [Groups -> 0..PACE_HOLD_MS]

Joint(js, g, h) == js[g] = js[h]

(* A group joined to another keeps nothing under its own key: a level left *)
(* there would be read by nobody, and found again by a later join.         *)
OneKeyEach == \A g \in Groups : joins[g] # g => paces[g] = NoPace

(* Two groups seen on one image server are one key, in whatever order and  *)
(* through whatever others they were joined: that server is never asked at *)
(* full speed by one while it refuses the other.                           *)
OneServerOneKey ==
    /\ OneKeyEach
    /\ \A g, h \in Groups : servers[g] \cap servers[h] # {} => Joint(joins, g, h)

(* For PACE_HOLD_MS after a 429 to any of them, every group that shares    *)
(* the key is slowed, and refusedLately says so: no run of good chapters,  *)
(* no join and no decay lets one of them back to full speed sooner.        *)
RefusalIsHeld ==
    \A g, h \in Groups : Joint(joins, g, h) /\ refused[h] > 0 =>
        paceLevel(g) > 0 /\ refusedLately(g)

(* The rest a 429 asked for is waited out by everyone on the key: it is    *)
(* not lost with the level it was noted beside, nor in a join.             *)
RestIsKept ==
    \A g, h \in Groups : Joint(joins, g, h) => restLeft(g) >= owed[h]

(* Once nobody refuses any more, every source is back at full speed in the *)
(* end, downloads or none.                                                 *)
BackToFullSpeed ==
    <>[][~RateLimited]_paceVars => \A g \in Groups : <>[](paceLevel(g) = 0)

=============================================================================
