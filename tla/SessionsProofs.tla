---------------------------- MODULE SessionsProofs ----------------------------
(***************************************************************************)
(* Proofs about Sessions: a session has one live token at most, the cookie *)
(* stays worth it, and signing out ends it, for any number of requests,    *)
(* rotations and losses.                                                   *)
(***************************************************************************)
EXTENDS Sessions, TLAPS

\* Only the newest token is live, and every other leads to it.
NewestLives == live \subseteq {created}
LeadsToNewest == next[created] = None /\ \A t \in Tokens : t # created => created \in After(t)

\* Whoever asks sends a token the cookie held, and the cookie only moves on.
AskedWithin ==
    \A c \in Calls : call[c].pc # "idle" =>
        /\ call[c].tok \in Tokens
        /\ jar # None => call[c].tok <= jar

\* A request with an older cookie than the jar's is under way only while the jar's token
\* is young.
OvertakenYoung ==
    \A c \in Calls : call[c].pc # "idle" /\ jar # None /\ call[c].tok < jar => jar > grown

\* A token on its way to the browser is the newest, and young.
AnswerNewest == \A c \in Calls : call[c].pc = "set" => call[c].some = created /\ created > grown

\* It is the only one, and nobody holds what it carries.
NotYetThere ==
    \A d \in Calls : call[d].pc = "set" =>
        /\ jar # created
        /\ \A c \in Calls : call[c].pc # "idle" => call[c].tok # created
        /\ \A c \in Calls : call[c].pc = "set" => c = d

\* What is followed was superseded; what is recovered came after it, and is no longer young.
FollowsDead == \A c \in Calls : call[c].pc = "chain" => call[c].tok \notin live
RecoversOld ==
    \A c \in Calls : call[c].pc = "recover" =>
        /\ call[c].some \in Tokens /\ call[c].some <= grown
        /\ call[c].some \in live => call[c].tok < call[c].some

\* A statement that ends the session saw its live token.
SeesTheLive == \A c \in Calls : call[c].pc = "ending" => created \in call[c].sees \/ live = {} \/ over

IInv ==
    /\ TypeOK /\ NewestLives /\ LeadsToNewest /\ AskedWithin /\ OvertakenYoung /\ AnswerNewest
    /\ NotYetThere /\ FollowsDead /\ RecoversOld /\ SeesTheLive /\ JarStands /\ SignOutHolds

LEMMA InitInv == Init => IInv
  <1> SUFFICES ASSUME Init PROVE IInv
    OBVIOUS
  <1> USE DEF Init, Tokens, None
  <1>1. NoCall \in CallType
    BY DEF NoCall, CallType
  <1>2. TypeOK
    <2>1. 1 .. created = {1}
      OBVIOUS
    <2>2. next \in [1 .. created -> 1 .. created \cup {0}]
      BY <2>1
    <2>3. losses \in 0 .. MaxLosses
      BY SessionsAssumption
    <2>4. call \in [Calls -> CallType]
      BY <1>1
    <2>5. created \in Nat \ {0} /\ live \subseteq {1} /\ used \subseteq {1} /\ grown \in {1}
      OBVIOUS
    <2>6. jar \in {1} \cup {0} /\ listed \in {1} /\ out \in BOOLEAN /\ over \in BOOLEAN
      OBVIOUS
    <2> QED BY ONLY <2>1, <2>2, <2>3, <2>4, <2>5, <2>6 DEF TypeOK, Tokens, None
  <1>3. LeadsToNewest
    BY DEF LeadsToNewest
  <1>4. AskedWithin /\ OvertakenYoung /\ AnswerNewest /\ NotYetThere /\ FollowsDead /\ RecoversOld /\ SeesTheLive
    BY DEF AskedWithin, OvertakenYoung, AnswerNewest, NotYetThere, FollowsDead, RecoversOld, SeesTheLive, NoCall
  <1>5. NewestLives /\ JarStands /\ SignOutHolds
    BY DEF NewestLives, JarStands, SignOutHolds
  <1> QED BY <1>2, <1>3, <1>4, <1>5 DEF IInv

LEMMA TypeOfCall ==
    ASSUME call \in [Calls -> CallType], NEW c \in Calls, NEW r \in CallType,
           call' = [call EXCEPT ![c] = r]
    PROVE  call' \in [Calls -> CallType] /\ call'[c] = r /\ \A d \in Calls : d # c => call'[d] = call[d]
  OBVIOUS

LEMMA NextInv == IInv /\ [Next]_vars => IInv'
  <1> SUFFICES ASSUME TypeOK, NewestLives, LeadsToNewest, AskedWithin, OvertakenYoung, AnswerNewest,
                  NotYetThere, FollowsDead, RecoversOld, SeesTheLive, JarStands, SignOutHolds,
                  [Next]_vars
           PROVE  IInv'
    BY DEF IInv
  <1> USE SessionsAssumption DEF rows, Tokens, None
  <1>0. /\ created \in Nat \ {0} /\ grown \in Nat /\ jar \in Nat /\ jar \in Tokens \cup {None}
        /\ \A t \in live : t \in Nat
        /\ call \in [Calls -> CallType] /\ \A c \in Calls : call[c] \in CallType
    BY DEF TypeOK
  <1>1. ASSUME NEW c \in Calls, Send(c) PROVE IInv'
    <2>1. TypeOK'
      <3>1. [NoCall EXCEPT !.pc = "refresh", !.tok = jar] \in CallType
        BY <1>0 DEF NoCall, CallType, TypeOK
      <3> QED BY <1>1, TypeOfCall, <3>1 DEF Send, TypeOK
    <2>2. NewestLives' /\ LeadsToNewest'
      BY <1>0, <1>1 DEF Send, NewestLives, LeadsToNewest, After, Closed, Tokens
    <2>3. AskedWithin' /\ OvertakenYoung'
      BY <1>0, <1>1 DEF Send, AskedWithin, OvertakenYoung
    <2>4. AnswerNewest' /\ NotYetThere'
      BY <1>0, <1>1 DEF Send, AnswerNewest, NotYetThere
    <2>5. FollowsDead' /\ RecoversOld' /\ SeesTheLive'
      BY <1>0, <1>1 DEF Send, FollowsDead, RecoversOld, SeesTheLive
    <2>6. JarStands' /\ SignOutHolds'
      BY <1>0, <1>1 DEF Send, JarStands, SignOutHolds
    <2> QED BY <2>1, <2>2, <2>3, <2>4, <2>5, <2>6 DEF IInv
  <1>2. ASSUME NEW c \in Calls, Leave(c) PROVE IInv'
    <2>1. TypeOK'
      <3>1. PICK pc \in {"logout", "all"} : call' = [call EXCEPT ![c] = [NoCall EXCEPT !.pc = pc, !.tok = jar]]
        BY <1>2 DEF Leave
      <3>2. [NoCall EXCEPT !.pc = pc, !.tok = jar] \in CallType
        BY <1>0, <3>1 DEF NoCall, CallType
      <3> QED BY <1>2, TypeOfCall, <3>1, <3>2 DEF Leave, TypeOK
    <2>2. NewestLives' /\ LeadsToNewest'
      BY <1>0, <1>2 DEF Leave, NewestLives, LeadsToNewest, After, Closed, Tokens
    <2>3. AskedWithin' /\ OvertakenYoung'
      BY <1>0, <1>2 DEF Leave, AskedWithin, OvertakenYoung
    <2>4. AnswerNewest' /\ NotYetThere'
      BY <1>0, <1>2 DEF Leave, AnswerNewest, NotYetThere
    <2>5. FollowsDead' /\ RecoversOld' /\ SeesTheLive'
      BY <1>0, <1>2 DEF Leave, FollowsDead, RecoversOld, SeesTheLive
    <2>6. JarStands' /\ SignOutHolds'
      BY <1>0, <1>2 DEF Leave, JarStands, SignOutHolds
    <2> QED BY <2>1, <2>2, <2>3, <2>4, <2>5, <2>6 DEF IInv
  <1>3. ASSUME NEW c \in Calls, Land(c) PROVE IInv'
    <2>1. TypeOK'
      <3>1. NoCall \in CallType
        BY DEF NoCall, CallType
      <3>2. jar' \in Tokens \cup {None}
        BY <1>3 DEF Land, AnswerNewest, TypeOK
      <3> QED BY <1>3, TypeOfCall, <3>1, <3>2 DEF Land, TypeOK
    <2>2. NewestLives' /\ LeadsToNewest'
      BY <1>0, <1>3 DEF Land, NewestLives, LeadsToNewest, After, Closed, Tokens
    <2>3. AskedWithin'
      <3>1. call'[c].pc = "idle" /\ \A d \in Calls : d # c => call'[d] = call[d]
        BY <1>3 DEF Land, NoCall, TypeOK
      <3>2. CASE call[c].pc = "set"
        BY <1>3, <3>1, <3>2 DEF Land, AnswerNewest, TypeOK, AskedWithin
      <3>3. CASE call[c].pc # "set"
        <4>1. jar' = jar \/ jar' = None
          BY <1>3, <3>3 DEF Land
        <4> QED BY <1>3, <3>1, <4>1 DEF Land, AskedWithin
      <3> QED BY <3>2, <3>3
    <2>4. OvertakenYoung'
      <3>1. call'[c].pc = "idle" /\ \A d \in Calls : d # c => call'[d] = call[d]
        BY <1>3 DEF Land, NoCall, TypeOK
      <3>2. CASE call[c].pc = "set"
        BY <1>3, <3>1, <3>2 DEF Land, AnswerNewest, TypeOK, OvertakenYoung
      <3>3. CASE call[c].pc # "set"
        <4>1. jar' = jar \/ jar' = None
          BY <1>3, <3>3 DEF Land
        <4> QED BY <1>3, <3>1, <4>1 DEF Land, OvertakenYoung
      <3> QED BY <3>2, <3>3
    <2>5. AnswerNewest' /\ NotYetThere'
      BY <1>0, <1>3 DEF Land, AnswerNewest, NotYetThere, NoCall, CallType
    <2>6. FollowsDead' /\ RecoversOld' /\ SeesTheLive'
      BY <1>0, <1>3 DEF Land, FollowsDead, RecoversOld, SeesTheLive, NoCall, CallType
    <2>7. JarStands'
      <3>1. call'[c].pc = "idle" /\ \A d \in Calls : d # c => call'[d] = call[d]
        BY <1>3 DEF Land, NoCall, TypeOK
      <3>2. CASE call[c].pc = "set"
        BY <1>3, <3>1, <3>2 DEF Land, AnswerNewest, TypeOK, JarStands
      <3>3. CASE call[c].pc # "set"
        <4>1. jar' = jar \/ jar' = None
          BY <1>3, <3>3 DEF Land
        <4> QED BY <1>3, <3>1, <4>1 DEF Land, JarStands
      <3> QED BY <3>2, <3>3
    <2>8. SignOutHolds'
      BY <1>0, <1>3 DEF Land, SignOutHolds
    <2> QED BY <2>1, <2>2, <2>3, <2>4, <2>5, <2>6, <2>7, <2>8 DEF IInv
  <1>4. ASSUME NEW c \in Calls, Lose(c) PROVE IInv'
    <2>1. TypeOK'
      BY <1>0, <1>4 DEF Lose, TypeOK, NoCall, CallType
    <2>2. NewestLives' /\ LeadsToNewest'
      BY <1>0, <1>4 DEF Lose, NewestLives, LeadsToNewest, After, Closed, Tokens
    <2>3. AskedWithin' /\ OvertakenYoung'
      BY <1>0, <1>4 DEF Lose, AskedWithin, OvertakenYoung, NoCall, CallType
    <2>4. AnswerNewest' /\ NotYetThere'
      BY <1>0, <1>4 DEF Lose, AnswerNewest, NotYetThere, NoCall, CallType
    <2>5. FollowsDead' /\ RecoversOld' /\ SeesTheLive'
      BY <1>0, <1>4 DEF Lose, FollowsDead, RecoversOld, SeesTheLive, NoCall, CallType
    <2>6. JarStands' /\ SignOutHolds'
      BY <1>0, <1>4 DEF Lose, JarStands, SignOutHolds
    <2> QED BY <2>1, <2>2, <2>3, <2>4, <2>5, <2>6 DEF IInv
  <1>5. ASSUME NEW c \in Calls, ReadRow(c) PROVE IInv'
    <2>1. TypeOK'
      <3>1. call[c] \in CallType
        BY <1>0
      <3>2. [call[c] EXCEPT !.pc = "rotate"] \in CallType /\ [call[c] EXCEPT !.pc = "clear"] \in CallType
        BY <3>1 DEF CallType
      <3>3. \A b \in BOOLEAN : [call[c] EXCEPT !.pc = "chain", !.grace = b] \in CallType
        BY <3>1 DEF CallType
      <3>4. (next[call[c].tok] > grown) \in BOOLEAN
        OBVIOUS
      <3> QED BY <1>5, TypeOfCall, <3>2, <3>3, <3>4 DEF ReadRow, TypeOK
    <2>2. NewestLives' /\ LeadsToNewest'
      BY <1>0, <1>5 DEF ReadRow, NewestLives, LeadsToNewest, After, Closed, Tokens
    <2>3. AskedWithin' /\ OvertakenYoung'
      BY <1>0, <1>5 DEF ReadRow, AskedWithin, OvertakenYoung
    <2>4. AnswerNewest' /\ NotYetThere'
      BY <1>0, <1>5 DEF ReadRow, AnswerNewest, NotYetThere
    <2>5. FollowsDead' /\ RecoversOld' /\ SeesTheLive'
      BY <1>0, <1>5 DEF ReadRow, FollowsDead, RecoversOld, SeesTheLive
    <2>6. JarStands' /\ SignOutHolds'
      BY <1>0, <1>5 DEF ReadRow, JarStands, SignOutHolds
    <2> QED BY <2>1, <2>2, <2>3, <2>4, <2>5, <2>6 DEF IInv
  <1>6. ASSUME NEW c \in Calls, ReadChain(c) PROVE IInv'
    <2>0. /\ call'[c].pc \in {"clear", "keep", "recover"} /\ call'[c].tok = call[c].tok
          /\ call[c].pc = "chain" /\ \A d \in Calls : d # c => call'[d] = call[d]
      <3>1. GoTo(c, "clear") \/ GoTo(c, "keep") \/ Answer(c, "recover", LastOf(call[c].tok))
        BY <1>6 DEF ReadChain
      <3>2. call \in [Calls -> CallType]
        BY <1>0 DEF TypeOK
      <3> QED BY <1>6, <3>1, <3>2 DEF ReadChain, GoTo, Answer, CallType
    <2>1. TypeOK'
      <3>1. \/ GoTo(c, "clear") \/ GoTo(c, "keep")
            \/ Answer(c, "recover", LastOf(call[c].tok)) /\ LastOf(call[c].tok) \in live /\ LastOf(call[c].tok) <= grown
        BY <1>0, <1>6 DEF ReadChain, Fresh
      <3>2. [call[c] EXCEPT !.pc = "clear"] \in CallType /\ [call[c] EXCEPT !.pc = "keep"] \in CallType
        BY DEF CallType, TypeOK
      <3>3. ASSUME LastOf(call[c].tok) \in live
            PROVE  [call[c] EXCEPT !.pc = "recover", !.some = LastOf(call[c].tok)] \in CallType
        <4>1. call[c] \in CallType /\ LastOf(call[c].tok) \in Nat
          BY <1>0, <3>3
        <4> QED BY <4>1 DEF CallType
      <3> QED BY <1>6, TypeOfCall, <3>1, <3>2, <3>3 DEF ReadChain, GoTo, Answer, TypeOK
    <2>2. NewestLives' /\ LeadsToNewest'
      BY <1>0, <1>6 DEF ReadChain, GoTo, Answer, NewestLives, LeadsToNewest, After, Closed, Tokens
    <2>3. AskedWithin'
      <3>1. \/ GoTo(c, "clear") \/ GoTo(c, "keep")
            \/ Answer(c, "recover", LastOf(call[c].tok)) /\ LastOf(call[c].tok) \in live /\ LastOf(call[c].tok) <= grown
        BY <1>0, <1>6 DEF ReadChain, Fresh
      <3>2. call'[c].tok = call[c].tok /\ \A d \in Calls : d # c => call'[d] = call[d]
        BY <3>1 DEF GoTo, Answer, TypeOK, CallType
      <3> QED BY <1>6, <3>2 DEF ReadChain, AskedWithin
    <2>4. OvertakenYoung'
      <3>1. jar' = jar /\ grown' = grown
        BY <1>6 DEF ReadChain
      <3>2. call[c].pc # "idle"
        BY <2>0
      <3> QED BY <1>0, <2>0, <3>1, <3>2 DEF OvertakenYoung
    <2>5. AnswerNewest' /\ NotYetThere'
      BY <1>0, <1>6, <2>0 DEF ReadChain, AnswerNewest, NotYetThere
    <2>6. RecoversOld'
      <3>1. \/ GoTo(c, "clear") \/ GoTo(c, "keep")
            \/ Answer(c, "recover", LastOf(call[c].tok)) /\ LastOf(call[c].tok) \in live /\ LastOf(call[c].tok) <= grown
        BY <1>0, <1>6 DEF ReadChain, Fresh
      <3>2. \A d \in Calls : d # c => call'[d] = call[d]
        BY <3>1 DEF GoTo, Answer, TypeOK, CallType
      <3>3. call'[c].tok = call[c].tok
        BY <3>1 DEF GoTo, Answer, TypeOK, CallType
      <3>4. call'[c].pc = "recover" =>
                call'[c].some = LastOf(call[c].tok) /\ LastOf(call[c].tok) \in live /\ LastOf(call[c].tok) <= grown
        BY <3>1 DEF GoTo, Answer, TypeOK, CallType
      <3>5. call[c].tok \in Tokens /\ call[c].tok \notin live
        BY <1>6 DEF ReadChain, AskedWithin, FollowsDead
      <3>6. \A h \in live : h \in Tokens /\ call[c].tok < h
        BY <3>5 DEF NewestLives, TypeOK
      <3> QED BY <1>6, <3>2, <3>3, <3>4, <3>6 DEF ReadChain, RecoversOld
    <2>7. FollowsDead' /\ SeesTheLive'
      BY <1>0, <1>6, <2>0 DEF ReadChain, FollowsDead, SeesTheLive
    <2>8. JarStands' /\ SignOutHolds'
      BY <1>0, <1>6 DEF ReadChain, GoTo, Answer, JarStands, SignOutHolds
    <2> QED BY <2>1, <2>2, <2>3, <2>4, <2>5, <2>6, <2>7, <2>8 DEF IInv
  <1>7. ASSUME NEW c \in Calls, Exchange(c) PROVE IInv'
    <2>1. CASE ~StillLive(Old(c)) /\ GoTo(c, "refresh") /\ UNCHANGED rows
      <3>1. [call[c] EXCEPT !.pc = "refresh"] \in CallType
        BY DEF CallType, TypeOK
      <3>2. TypeOK'
        BY <1>7, <2>1, TypeOfCall, <3>1 DEF Exchange, GoTo, TypeOK
      <3>3. /\ call'[c].pc = "refresh" /\ call'[c].tok = call[c].tok
            /\ \A d \in Calls : d # c => call'[d] = call[d]
        BY <2>1 DEF GoTo, TypeOK, CallType
      <3>4. AskedWithin' /\ OvertakenYoung' /\ AnswerNewest' /\ NotYetThere'
        BY <1>7, <2>1, <3>3 DEF Exchange, AskedWithin, OvertakenYoung, AnswerNewest, NotYetThere
      <3>5. FollowsDead' /\ RecoversOld' /\ SeesTheLive'
        BY <1>7, <2>1, <3>3 DEF Exchange, FollowsDead, RecoversOld, SeesTheLive
      <3>6. NewestLives' /\ LeadsToNewest'
        BY <1>7, <2>1 DEF Exchange, NewestLives, LeadsToNewest, After, Closed
      <3>7. JarStands' /\ SignOutHolds'
        BY <1>7, <2>1 DEF Exchange, JarStands, SignOutHolds
      <3> QED BY <3>2, <3>4, <3>5, <3>6, <3>7 DEF IInv
    <2>2. CASE StillLive(Old(c)) /\ supersede(Old(c), Use(c)) /\ Answer(c, "set", created + 1)
      <3>1. Old(c) = created /\ created \in live
        BY <2>2 DEF StillLive, NewestLives
      <3>2. /\ created' = created + 1 /\ live' = {created + 1}
            /\ used' = used \cup (IF call[c].pc = "rotate" THEN {created} ELSE {})
            /\ over' = (over \/ \E d \in Calls : call[d].pc = "ending")
        BY <2>2, <3>1 DEF supersede, Use, NewestLives
      <3>3. /\ next' = [s \in 1 .. created + 1 |-> IF s = created THEN created + 1
                                                  ELSE IF s > created THEN None ELSE next[s]]
            /\ UNCHANGED <<grown, jar, listed, losses, out>>
        BY <1>7, <2>2, <3>1 DEF Exchange, supersede
      <3>4. [call[c] EXCEPT !.pc = "set", !.some = created + 1] \in CallType
        <4>1. call[c] \in CallType /\ created + 1 \in Nat
          BY DEF TypeOK
        <4> QED BY <4>1 DEF CallType
      <3>5. /\ call' \in [Calls -> CallType]
            /\ call'[c].pc = "set" /\ call'[c].tok = call[c].tok /\ call'[c].some = created + 1
            /\ \A d \in Calls : d # c => call'[d] = call[d]
        BY <2>2, <3>4, TypeOfCall DEF Answer, TypeOK, CallType
      <3>6. call[c].pc = "rotate" => call[c].tok = created
        BY <3>1 DEF Old
      <3>7. call[c].pc # "rotate" => call[c].pc = "recover" /\ call[c].some = created
        BY <1>7, <3>1 DEF Old, Exchange
      <3>8. TypeOK'
        BY <3>2, <3>3, <3>5 DEF TypeOK
      <3>9. NewestLives'
        BY <3>2 DEF NewestLives
      <3>10. LeadsToNewest'
        <4>1. next'[created + 1] = None /\ next'[created] = created + 1
          BY <3>3 DEF TypeOK
        <4>2. ASSUME NEW t \in 1 .. created PROVE created' \in After(t)'
          <5>1. next'[t] # None
            BY <3>3, <4>1 DEF TypeOK, LeadsToNewest, After
          <5>2. ASSUME NEW S \in SUBSET (1 .. created + 1), Closed(S)', next'[t] \in S
                PROVE  created + 1 \in S
            <6>1. created \in S => created + 1 \in S
              BY <4>1, <5>2 DEF Closed
            <6>2. CASE t # created
              <7> DEFINE R == S \cap (1 .. created)
              <7>1. next[t] \in R
                BY <5>2, <6>2, <5>1, <3>3 DEF TypeOK
              <7>2. ASSUME NEW s \in R, next[s] # None PROVE next[s] \in R
                <8>1. s # created /\ s \in 1 .. created
                  BY <7>2 DEF LeadsToNewest
                <8>2. next'[s] = next[s]
                  BY <8>1, <3>3 DEF TypeOK
                <8>3. next[s] \in 1 .. created
                  BY <8>1, <7>2 DEF TypeOK
                <8>4. next'[s] \in S
                  BY <8>2, <7>2, <5>2 DEF Closed
                <8> QED BY <8>2, <8>3, <8>4
              <7>3. Closed(R)
                BY <7>2 DEF Closed
              <7>4. created \in After(t)
                BY <6>2 DEF LeadsToNewest
              <7>5. created \in R
                BY <7>1, <7>3, <7>4 DEF After
              <7> QED BY <7>5, <6>1
            <6>3. CASE t = created
              BY <6>3, <4>1, <5>2
            <6> QED BY <6>2, <6>3
          <5>3. created + 1 \in 1 .. created + 1
            BY DEF TypeOK
          <5> QED BY <5>1, <5>2, <5>3, <3>2 DEF After
        <4> QED BY <4>1, <4>2, <3>2 DEF LeadsToNewest, TypeOK
      <3>11. AskedWithin'
        BY <3>2, <3>3, <3>5, <1>7 DEF AskedWithin, TypeOK, Exchange
      <3>12. OvertakenYoung'
        BY <3>3, <3>5, <1>7 DEF OvertakenYoung, Exchange
      <3>13. \A d \in Calls : d # c => call[d].pc # "set"
        <4>1. call[c].pc = "recover" => created <= grown
          BY <3>7 DEF RecoversOld
        <4>2. ASSUME NEW d \in Calls, call[d].pc = "set" PROVE call[c].pc # "rotate"
          BY <3>6, <1>7, <4>2 DEF NotYetThere, Exchange
        <4> QED BY <4>1, <4>2, <3>7 DEF AnswerNewest, TypeOK
      <3>14. AnswerNewest'
        BY <3>2, <3>3, <3>5, <3>13 DEF AnswerNewest, TypeOK
      <3>20. NotYetThere'
        BY <3>2, <3>3, <3>5, <3>13, <1>7 DEF NotYetThere, AskedWithin, TypeOK, Exchange
      <3>15. FollowsDead'
        BY <3>2, <3>5 DEF FollowsDead, AskedWithin, TypeOK
      <3>16. RecoversOld'
        BY <3>2, <3>3, <3>5 DEF RecoversOld, TypeOK
      <3>17. SeesTheLive'
        BY <3>2, <3>5 DEF SeesTheLive
      <3>18. JarStands'
        <4>1. call[c].pc = "rotate" /\ jar # None => jar = created
          BY <3>6, <1>7 DEF AskedWithin, Exchange, TypeOK
        <4>2. call[c].pc = "recover" /\ jar # None => jar # created
          BY <3>1, <3>7, <1>7 DEF RecoversOld, OvertakenYoung, TypeOK, AskedWithin, CallType
        <4>3. jar # None /\ jar < created => jar \in used
          BY DEF JarStands
        <4> QED BY <4>1, <4>2, <4>3, <3>2, <3>3, <3>7 DEF JarStands, TypeOK
      <3>19. SignOutHolds'
        BY <3>1, <3>2, <3>3 DEF SignOutHolds
      <3> QED BY <3>8, <3>9, <3>10, <3>11, <3>12, <3>14, <3>15, <3>16, <3>17, <3>18, <3>19, <3>20 DEF IInv
    <2> QED BY <1>7, <2>1, <2>2 DEF Exchange
  <1>8. ASSUME NEW c \in Calls, revokeRefreshToken(c) PROVE IInv'
    <2>1. TypeOK'
      <3>1. Walk(call[c].tok) \subseteq Nat
        BY DEF Walk, After, TypeOK, CallType
      <3>2. [call[c] EXCEPT !.pc = "ending", !.sees = Walk(call[c].tok)] \in CallType
        BY <3>1 DEF CallType, TypeOK
      <3> QED BY <1>8, TypeOfCall, <3>2 DEF revokeRefreshToken, TypeOK
    <2>2. NewestLives' /\ LeadsToNewest'
      BY <1>0, <1>8 DEF revokeRefreshToken, Walk, NewestLives, LeadsToNewest, After, Closed, Tokens
    <2>3. AskedWithin' /\ OvertakenYoung'
      BY <1>0, <1>8 DEF revokeRefreshToken, Walk, AskedWithin, OvertakenYoung
    <2>4. AnswerNewest' /\ NotYetThere'
      BY <1>0, <1>8 DEF revokeRefreshToken, Walk, AnswerNewest, NotYetThere
    <2>5. SeesTheLive'
      <3>1. created \in Walk(call[c].tok)
        BY <1>8 DEF revokeRefreshToken, AskedWithin, LeadsToNewest, Walk, TypeOK
      <3>2. call'[c].sees = Walk(call[c].tok) /\ \A d \in Calls : d # c => call'[d] = call[d]
        BY <1>8 DEF revokeRefreshToken, TypeOK, CallType
      <3> QED BY <1>8, <3>1, <3>2 DEF revokeRefreshToken, SeesTheLive
    <2>6. FollowsDead' /\ RecoversOld'
      BY <1>0, <1>8 DEF revokeRefreshToken, Walk, FollowsDead, RecoversOld
    <2>7. JarStands' /\ SignOutHolds'
      BY <1>0, <1>8 DEF revokeRefreshToken, Walk, JarStands, SignOutHolds
    <2> QED BY <2>1, <2>2, <2>3, <2>4, <2>5, <2>6, <2>7 DEF IInv
  <1>9. ASSUME NEW c \in Calls, Ended(c) PROVE IInv'
    <2>1. TypeOK'
      BY <1>0, <1>9 DEF Ended, GoTo, TypeOK, NoCall, CallType
    <2>2. NewestLives' /\ LeadsToNewest'
      BY <1>0, <1>9 DEF Ended, GoTo, NewestLives, LeadsToNewest, After, Closed, Tokens
    <2>3. AskedWithin' /\ OvertakenYoung'
      BY <1>0, <1>9 DEF Ended, GoTo, AskedWithin, OvertakenYoung
    <2>4. AnswerNewest' /\ NotYetThere'
      BY <1>0, <1>9 DEF Ended, GoTo, AnswerNewest, NotYetThere
    <2>5. FollowsDead' /\ RecoversOld' /\ SeesTheLive'
      BY <1>0, <1>9 DEF Ended, GoTo, FollowsDead, RecoversOld, SeesTheLive
    <2>6. SignOutHolds'
      <3>1. live' = {} \/ over'
        BY <1>9 DEF Ended, SeesTheLive, NewestLives
      <3> QED BY <3>1 DEF SignOutHolds
    <2>7. JarStands'
      BY <1>0, <1>9 DEF Ended, GoTo, JarStands
    <2> QED BY <2>1, <2>2, <2>3, <2>4, <2>5, <2>6, <2>7 DEF IInv
  <1>10. ASSUME NEW c \in Calls, LogoutAll(c) PROVE IInv'
    <2>1. TypeOK'
      <3>1. \A t \in Nat : [call[c] EXCEPT !.pc = "others", !.some = t] \in CallType
        BY DEF CallType, TypeOK
      <3>2. (IF call[c].tok \in live THEN call[c].tok ELSE None) \in Nat
        BY <1>0
      <3> QED BY <1>10, TypeOfCall, <3>1, <3>2 DEF LogoutAll, Answer, TypeOK
    <2>2. NewestLives' /\ LeadsToNewest'
      BY <1>0, <1>10 DEF LogoutAll, Answer, NewestLives, LeadsToNewest, After, Closed, Tokens
    <2>3. AskedWithin' /\ OvertakenYoung'
      BY <1>0, <1>10 DEF LogoutAll, Answer, AskedWithin, OvertakenYoung
    <2>4. AnswerNewest' /\ NotYetThere'
      BY <1>0, <1>10 DEF LogoutAll, Answer, AnswerNewest, NotYetThere
    <2>5. FollowsDead' /\ RecoversOld' /\ SeesTheLive'
      BY <1>0, <1>10 DEF LogoutAll, Answer, FollowsDead, RecoversOld, SeesTheLive
    <2>6. JarStands' /\ SignOutHolds'
      BY <1>0, <1>10 DEF LogoutAll, Answer, JarStands, SignOutHolds
    <2> QED BY <2>1, <2>2, <2>3, <2>4, <2>5, <2>6 DEF IInv
  <1>11. ASSUME NEW c \in Calls, revokeAllSessions(c) PROVE IInv'
    <2>1. TypeOK'
      BY <1>0, <1>11 DEF revokeAllSessions, GoTo, TypeOK, NoCall, CallType
    <2>2. NewestLives' /\ LeadsToNewest'
      BY <1>0, <1>11 DEF revokeAllSessions, GoTo, NewestLives, LeadsToNewest, After, Closed, Tokens
    <2>3. AskedWithin' /\ OvertakenYoung'
      BY <1>0, <1>11 DEF revokeAllSessions, GoTo, AskedWithin, OvertakenYoung
    <2>4. AnswerNewest' /\ NotYetThere'
      BY <1>0, <1>11 DEF revokeAllSessions, GoTo, AnswerNewest, NotYetThere
    <2>5. FollowsDead' /\ RecoversOld' /\ SeesTheLive'
      BY <1>0, <1>11 DEF revokeAllSessions, GoTo, FollowsDead, RecoversOld, SeesTheLive
    <2>6. JarStands' /\ SignOutHolds'
      BY <1>0, <1>11 DEF revokeAllSessions, GoTo, JarStands, SignOutHolds
    <2> QED BY <2>1, <2>2, <2>3, <2>4, <2>5, <2>6 DEF IInv
  <1>12. ASSUME Grow PROVE IInv'
    <2>1. TypeOK'
      BY <1>0, <1>12 DEF Grow, Settled, TypeOK
    <2>2. NewestLives' /\ LeadsToNewest'
      BY <1>0, <1>12 DEF Grow, Settled, NewestLives, LeadsToNewest, After, Closed, Tokens
    <2>3. AskedWithin' /\ OvertakenYoung'
      BY <1>0, <1>12 DEF Grow, Settled, AskedWithin, OvertakenYoung
    <2>4. AnswerNewest' /\ NotYetThere'
      BY <1>0, <1>12 DEF Grow, Settled, AnswerNewest, NotYetThere
    <2>5. FollowsDead' /\ RecoversOld' /\ SeesTheLive'
      BY <1>0, <1>12 DEF Grow, Settled, FollowsDead, RecoversOld, SeesTheLive
    <2>6. JarStands' /\ SignOutHolds'
      BY <1>0, <1>12 DEF Grow, Settled, JarStands, SignOutHolds
    <2> QED BY <2>1, <2>2, <2>3, <2>4, <2>5, <2>6 DEF IInv
  <1>13. ASSUME listSessions PROVE IInv'
    <2>1. TypeOK'
      BY <1>0, <1>13 DEF listSessions, TypeOK
    <2>2. NewestLives' /\ LeadsToNewest'
      BY <1>0, <1>13 DEF listSessions, NewestLives, LeadsToNewest, After, Closed, Tokens
    <2>3. AskedWithin' /\ OvertakenYoung'
      BY <1>0, <1>13 DEF listSessions, AskedWithin, OvertakenYoung
    <2>4. AnswerNewest' /\ NotYetThere'
      BY <1>0, <1>13 DEF listSessions, AnswerNewest, NotYetThere
    <2>5. FollowsDead' /\ RecoversOld' /\ SeesTheLive'
      BY <1>0, <1>13 DEF listSessions, FollowsDead, RecoversOld, SeesTheLive
    <2>6. JarStands' /\ SignOutHolds'
      BY <1>0, <1>13 DEF listSessions, JarStands, SignOutHolds
    <2> QED BY <2>1, <2>2, <2>3, <2>4, <2>5, <2>6 DEF IInv
  <1>14. ASSUME revokeSession PROVE IInv'
    <2>1. TypeOK'
      BY <1>0, <1>14 DEF revokeSession, TypeOK
    <2>2. NewestLives' /\ LeadsToNewest'
      BY <1>0, <1>14 DEF revokeSession, NewestLives, LeadsToNewest, After, Closed, Tokens
    <2>3. AskedWithin' /\ OvertakenYoung'
      BY <1>0, <1>14 DEF revokeSession, AskedWithin, OvertakenYoung
    <2>4. AnswerNewest' /\ NotYetThere'
      BY <1>0, <1>14 DEF revokeSession, AnswerNewest, NotYetThere
    <2>5. FollowsDead' /\ RecoversOld' /\ SeesTheLive'
      BY <1>0, <1>14 DEF revokeSession, FollowsDead, RecoversOld, SeesTheLive
    <2>6. JarStands' /\ SignOutHolds'
      BY <1>0, <1>14 DEF revokeSession, JarStands, SignOutHolds
    <2> QED BY <2>1, <2>2, <2>3, <2>4, <2>5, <2>6 DEF IInv
  <1>15. CASE UNCHANGED vars
    <2>1. TypeOK' /\ NewestLives' /\ AskedWithin' /\ OvertakenYoung' /\ AnswerNewest' /\ NotYetThere'
      BY <1>15 DEF vars, TypeOK, NewestLives, AskedWithin, OvertakenYoung, AnswerNewest, NotYetThere
    <2>2. FollowsDead' /\ RecoversOld' /\ SeesTheLive' /\ JarStands' /\ SignOutHolds'
      BY <1>15 DEF vars, FollowsDead, RecoversOld, SeesTheLive, JarStands, SignOutHolds
    <2>3. LeadsToNewest'
      BY <1>15 DEF vars, LeadsToNewest, After, Closed
    <2> QED BY <2>1, <2>2, <2>3 DEF IInv
  <1> QED BY <1>1, <1>2, <1>3, <1>4, <1>5, <1>6, <1>7, <1>8, <1>9, <1>10, <1>11, <1>12, <1>13, <1>14, <1>15 DEF Next, Serve

\* Type correctness.
THEOREM TypeCorrect == Spec => []TypeOK
  <1>1. Init => IInv
    BY InitInv
  <1>2. IInv /\ [Next]_vars => IInv'
    BY NextInv
  <1>3. IInv => TypeOK
    BY DEF IInv
  <1> QED BY <1>1, <1>2, <1>3, PTL DEF Spec

\* However many requests refresh one session at once, it never has two live tokens.
THEOREM NeverForks == Spec => []OneLive
  <1>1. Init => IInv
    BY InitInv
  <1>2. IInv /\ [Next]_vars => IInv'
    BY NextInv
  <1>3. IInv => OneLive
    BY DEF IInv, NewestLives, OneLive
  <1> QED BY <1>1, <1>2, <1>3, PTL DEF Spec

\* Whatever answers are lost or late, the cookie holds a token that can still be refreshed.
THEOREM CookieStands == Spec => []JarStands
  <1>1. Init => IInv
    BY InitInv
  <1>2. IInv /\ [Next]_vars => IInv'
    BY NextInv
  <1>3. IInv => JarStands
    BY DEF IInv
  <1> QED BY <1>1, <1>2, <1>3, PTL DEF Spec

\* Signing out ends the session, unless a refresh moves it on while the statement runs.
THEOREM SignedOut == Spec => []SignOutHolds
  <1>1. Init => IInv
    BY InitInv
  <1>2. IInv /\ [Next]_vars => IInv'
    BY NextInv
  <1>3. IInv => SignOutHolds
    BY DEF IInv
  <1> QED BY <1>1, <1>2, <1>3, PTL DEF Spec
=============================================================================
