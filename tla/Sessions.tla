------------------------------ MODULE Sessions ------------------------------
(***************************************************************************)
(* One sign-in session: planRefresh, exchangeRefreshToken, supersede and   *)
(* the ways a session ends (bff/src/lib/auth.ts, bff/src/routes/auth.ts),  *)
(* as a browser sees them (web/lib/api.ts, web/lib/auth.tsx,               *)
(* web/public/sw.js).                                                      *)
(*                                                                         *)
(* A session is a chain of refresh tokens: each refresh supersedes the one *)
(* the browser's cookie holds with a new one, sent in the answer.  Tabs    *)
(* and the worker share the cookie and refresh as they like, and an answer *)
(* may never arrive; a token with a successor is judged by what happened   *)
(* after it.                                                               *)
(*                                                                         *)
(* Time is what the grace window tells apart: whether a token was created  *)
(* less than REFRESH_GRACE_MS ago.  A token is superseded at the moment    *)
(* its successor is created, so one clock serves both of planRefresh's     *)
(* tests.  A call and the answer it races take less than the grace, a lost *)
(* answer is redeemed within REFRESH_RECOVER_MS, no token expires, and no  *)
(* chain grows to CHAIN_MAX.  One browser holds the session: the end two   *)
(* holders come to (step 3 of planRefresh) is left out, and so are the     *)
(* sessions opened from this one and those held to the local network.      *)
(***************************************************************************)
EXTENDS Naturals, FiniteSets

CONSTANTS
    Calls,          \* the requests the browser may have under way at once
    MaxRotations,   \* bounds the tokens the browser exchanges
    MaxLosses       \* bounds the requests and answers that get lost

ASSUME SessionsAssumption == MaxRotations \in Nat /\ MaxLosses \in Nat

None == 0           \* a token is known by when it was created: the first is 1

VARIABLES
    created,    \* refresh_tokens: the newest token
    next,       \* replaced_by
    live,       \* the tokens with revoked_at null
    used,       \* the tokens with used_at set
    grown,      \* the newest token created longer ago than the grace
    jar,        \* the token in the browser's cookie
    call,       \* call[c]: where a request is, and what it found
    listed,     \* the token a list of sessions shows somewhere else
    losses,
    out,        \* history: the browser signed out
    over        \* history: the session moved on while its end was being written

rows == <<created, next, live, used, over>>
vars == <<rows, grown, jar, call, listed, losses, out>>

Tokens == 1 .. created

\* tok: the token sent.  grace: it was superseded less than the grace ago.  some: the
\* token a recovery supersedes, the one in the answer, or the one that is kept.  sees:
\* the tokens a statement that ends the session was shown.
NoCall == [pc |-> "idle", tok |-> None, grace |-> FALSE, some |-> None, sees |-> {}]
CallType ==
    [pc : {"idle", "refresh", "rotate", "chain", "recover", "set", "keep", "clear",
           "logout", "ending", "all", "others"},
     tok : Nat, grace : BOOLEAN, some : Nat, sees : SUBSET Nat]

TypeOK ==
    /\ created \in Nat \ {0}
    /\ next \in [Tokens -> Tokens \cup {None}]
    /\ live \subseteq Tokens /\ used \subseteq Tokens
    /\ grown \in Tokens
    /\ jar \in Tokens \cup {None}
    /\ call \in [Calls -> CallType]
    /\ listed \in Tokens
    /\ losses \in 0 .. MaxLosses
    /\ out \in BOOLEAN /\ over \in BOOLEAN

\* Signed in: the first token is in the cookie.
Init ==
    /\ created = 1 /\ next = [t \in {1} |-> None]
    /\ live = {1} /\ used = {}
    /\ grown = 1 /\ jar = 1
    /\ call = [c \in Calls |-> NoCall]
    /\ listed = 1 /\ losses = 0
    /\ out = FALSE /\ over = FALSE

\* The tokens that came after one, and the last of them.
Closed(S) == \A s \in S : next[s] # None => next[s] \in S
After(t) ==
    IF next[t] = None THEN {}
    ELSE {s \in Tokens : \A S \in SUBSET Tokens : Closed(S) /\ next[t] \in S => s \in S}
LastOf(t) == CHOOSE h \in After(t) : next[h] = None

GoTo(c, pc) == call' = [call EXCEPT ![c].pc = pc]
Answer(c, pc, t) == call' = [call EXCEPT ![c] = [@ EXCEPT !.pc = pc, !.some = t]]

-----------------------------------------------------------------------------
(* The browser *)

\* A tab or the worker refreshes: the request carries the cookie.
Send(c) ==
    /\ call[c].pc = "idle" /\ jar # None
    /\ jar \in live => Cardinality(used) < MaxRotations
    /\ call' = [call EXCEPT ![c] = [NoCall EXCEPT !.pc = "refresh", !.tok = jar]]
    /\ UNCHANGED <<rows, grown, jar, listed, losses, out>>

\* Somebody signs out in this browser, or signs every other device out.
Leave(c) ==
    /\ call[c].pc = "idle" /\ jar # None
    /\ \E pc \in {"logout", "all"} : call' = [call EXCEPT ![c] = [NoCall EXCEPT !.pc = pc, !.tok = jar]]
    /\ UNCHANGED <<rows, grown, jar, listed, losses, out>>

\* An answer arrives: the browser puts its cookie in the jar, whoever waits for it.
Land(c) ==
    /\ call[c].pc \in {"set", "keep", "clear"}
    /\ jar' = CASE call[c].pc = "set" -> call[c].some
                [] call[c].pc = "keep" -> jar
                [] call[c].pc = "clear" -> None
    /\ call' = [call EXCEPT ![c] = NoCall]
    /\ UNCHANGED <<rows, grown, listed, losses, out>>

\* A request never reaches the server, or its answer never reaches the browser.
Lose(c) ==
    /\ call[c].pc \in {"refresh", "logout", "all", "set", "keep", "clear"}
    /\ losses < MaxLosses /\ losses' = losses + 1
    /\ call' = [call EXCEPT ![c] = NoCall]
    /\ UNCHANGED <<rows, grown, jar, listed, out>>

\* The grace of the oldest young token ends.  By then the answer that carried it has
\* arrived or is lost, and so has every request sent with an older cookie than the jar's.
Settled(c) ==
    /\ call[c].pc = "set" => call[c].some # grown + 1
    /\ call[c].pc # "idle" => call[c].tok > grown \/ call[c].tok = jar

Grow ==
    /\ grown < created
    /\ \A c \in Calls : Settled(c)
    /\ grown' = grown + 1
    /\ UNCHANGED <<rows, jar, call, listed, losses, out>>

-----------------------------------------------------------------------------
(* The refresh *)

\* planRefresh reads the token's row.
ReadRow(c) ==
    /\ call[c].pc = "refresh"
    /\ LET t == call[c].tok IN
       call' = IF t \in live THEN [call EXCEPT ![c].pc = "rotate"]
               ELSE IF next[t] = None THEN [call EXCEPT ![c].pc = "clear"]
               ELSE [call EXCEPT ![c] = [@ EXCEPT !.pc = "chain", !.grace = next[t] > grown]]
    /\ UNCHANGED <<rows, grown, jar, listed, losses, out>>

\* Whether the winner's answer may still be on its way.
FreshNever(h) == FALSE                                                  \* mutant
FreshAlways(h) == TRUE                                                  \* mutant
Fresh(h) == h > grown

\* It reads what came after a token that is not the newest, and judges.
ReadChain(c) ==
    /\ call[c].pc = "chain"
    /\ LET t == call[c].tok
           h == LastOf(t) IN
       \/ h \notin live /\ GoTo(c, "clear")
       \/ h \in live /\ call[c].grace /\ GoTo(c, "keep")
       \/ h \in live /\ ~call[c].grace /\ After(t) \cap used # {} /\ GoTo(c, "clear")
       \/ /\ h \in live /\ ~call[c].grace /\ After(t) \cap used = {}
          /\ IF Fresh(h) THEN GoTo(c, "keep") ELSE Answer(c, "recover", h)
    /\ UNCHANGED <<rows, grown, jar, listed, losses, out>>

\* One statement: the old token is superseded if it is live still, and only then is
\* there a new one.
StillLive(t) == t \in live

supersede(t, use) ==
    /\ created' = created + 1
    /\ next' = [s \in 1 .. created + 1 |-> IF s = t THEN created + 1 ELSE IF s > created THEN None ELSE next[s]]
    /\ live' = (live \ {t}) \cup {created + 1}
    /\ used' = used \cup use
    /\ over' = (over \/ \E c \in Calls : call[c].pc = "ending")

\* The token a refresh supersedes: it is used by its holder's refresh, not by a recovery.
Old(c) == IF call[c].pc = "rotate" THEN call[c].tok ELSE call[c].some
Use(c) == IF call[c].pc = "rotate" THEN {Old(c)} ELSE {}

\* The plan is carried out, or made again if another request moved the session on.
Exchange(c) ==
    /\ call[c].pc \in {"rotate", "recover"}
    /\ \/ StillLive(Old(c)) /\ supersede(Old(c), Use(c)) /\ Answer(c, "set", created + 1)
       \/ ~StillLive(Old(c)) /\ GoTo(c, "refresh") /\ UNCHANGED rows
    /\ UNCHANGED <<grown, jar, listed, losses, out>>

-----------------------------------------------------------------------------
(* The ends of a session *)

\* Signing out revokes the token and whatever came after it, as the statement saw them.
OnlyItself(t) == {t}                                                    \* mutant
Walk(t) == {t} \cup After(t)

revokeRefreshToken(c) ==
    /\ call[c].pc = "logout"
    /\ call' = [call EXCEPT ![c] = [@ EXCEPT !.pc = "ending", !.sees = Walk(call[c].tok)]]
    /\ UNCHANGED <<rows, grown, jar, listed, losses, out>>

\* What it saw is revoked where it is live still.
Ended(c) ==
    /\ call[c].pc = "ending"
    /\ live' = live \ call[c].sees
    /\ out' = TRUE
    /\ GoTo(c, "clear")
    /\ UNCHANGED <<created, next, used, over, grown, jar, listed, losses>>

\* Signing every other device out keeps the token of this browser, if its cookie holds a
\* live one when it looks ...
LogoutAll(c) ==
    /\ call[c].pc = "all"
    /\ Answer(c, "others", IF call[c].tok \in live THEN call[c].tok ELSE None)
    /\ UNCHANGED <<rows, grown, jar, listed, losses, out>>

\* ... and revokes every other, of this session too.
revokeAllSessions(c) ==
    /\ call[c].pc = "others"
    /\ live' = live \cap {call[c].some}
    /\ GoTo(c, "keep")
    /\ UNCHANGED <<created, next, used, over, grown, jar, listed, losses, out>>

\* Another device lists the sessions by their tokens ...
listSessions ==
    /\ live # {} /\ listed' = created
    /\ UNCHANGED <<rows, grown, jar, call, losses, out>>

\* ... and revokes what it lists, or everything.
revokeSession ==
    /\ \E gone \in {{listed}, live} : live \cap gone # {} /\ live' = live \ gone
    /\ UNCHANGED <<created, next, used, over, grown, jar, call, listed, losses, out>>

-----------------------------------------------------------------------------

Serve(c) == ReadRow(c) \/ ReadChain(c) \/ Exchange(c) \/ revokeRefreshToken(c) \/ Ended(c)
            \/ LogoutAll(c) \/ revokeAllSessions(c)

Next ==
    \/ \E c \in Calls : Send(c) \/ Leave(c) \/ Serve(c) \/ Land(c) \/ Lose(c)
    \/ Grow \/ listSessions \/ revokeSession

\* The server answers, answers arrive, tabs refresh every twelve minutes, and time goes by.
Spec ==
    /\ Init /\ [][Next]_vars
    /\ \A c \in Calls : WF_vars(Send(c)) /\ WF_vars(Serve(c)) /\ WF_vars(Land(c))
    /\ WF_vars(Grow)

-----------------------------------------------------------------------------
(* Properties *)

\* A session never has two live tokens, however many tabs refresh at once: two would be
\* two sessions for one device (auth.ts:347).
OneLive == \A s, t \in live : s = t

\* Whatever answers were lost, crossed or late, the cookie stays worth a session: nothing
\* newer than its token was ever used, and it was not superseded before it was (auth.ts:287).
JarStands ==
    jar # None => /\ \A t \in used : t <= jar
                  /\ jar < created => jar \in used

\* Once somebody signed out the session is over, whichever of its tokens the cookie held,
\* unless a refresh moved it on while the statement that ends it ran (auth.ts:543).
SignOutHolds == out => live = {} \/ over

\* A browser that missed an answer gets the newest token in the end, if it was not turned
\* away and the session lasts (auth.ts:291).
CatchesUp == jar # created ~> jar = created \/ jar = None \/ live = {}

\* A refresh of a session that lasts is never refused (auth.ts:219).
NeverTurnedAway ==
    [][\A c \in Calls : call[c].pc = "chain" /\ call'[c].pc = "clear" => live = {}]_vars

\* Signing every other device out keeps this one (routes/auth.ts:970).
ThisDeviceStays ==
    [][\A c \in Calls : revokeAllSessions(c) /\ live # {} => live' # {}]_vars
=============================================================================
