------------------------- MODULE OAuth2ClientProofs -------------------------
(***************************************************************************)
(* Theorems about OAuth2Client, for every set of calls, of refresh tokens  *)
(* and of stashed credentials, and every value of the options: first the   *)
(* types, the refreshes in flight and the refinement of SharedRefresh,     *)
(* then how much a call tries, which account and grant the tokens on their *)
(* way belong to, what a replay carries, and when a token ends.            *)
(***************************************************************************)
EXTENDS OAuth2Client, TLAPS

USE DEF Requests, Kinds, Waiting, Settled

LEMMA InitTypeOK == Init => TypeOK
  BY ConstantsOk DEF Init, TypeOK, ConstantsOk

LEMMA RefreshTokenType ==
  ASSUME TypeOK, NEW c \in Call, NEW rt \in RefreshToken, refreshToken(c, rt)
  PROVE  /\ refreshTokenPromises' \in [RefreshToken -> Call \union {None}]
         /\ post' \in [Call -> Post \union {None}]
         /\ awaiting' \in [Call -> Call \union {None}]
         /\ starts' \in [Call -> Nat]
  BY DEF TypeOK, refreshToken, Post

LEMMA DeliverType ==
  ASSUME TypeOK, NEW c \in Call, NEW k \in Kinds,
         NEW token \in Token \union {None}, Deliver(c, k, token)
  PROVE  /\ header' \in [Call -> Token \union {None}]
         /\ sends' \in [Call -> Nat]
         /\ pc' \in [Call -> {"idle", "sent", "replay", "revoking"}
                             \union Waiting \union Settled]
  BY DEF TypeOK, Deliver, Goto

LEMMA MetadataType ==
  ASSUME TypeOK, NEW c \in Call, NEW k \in Kinds, getRequestMetadataAsync(c, k)
  PROVE  /\ refreshTokenPromises' \in [RefreshToken -> Call \union {None}]
         /\ post' \in [Call -> Post \union {None}]
         /\ awaiting' \in [Call -> Call \union {None}]
         /\ starts' \in [Call -> Nat]
         /\ header' \in [Call -> Token \union {None}]
         /\ sends' \in [Call -> Nat]
         /\ pc' \in [Call -> {"idle", "sent", "replay", "revoking"}
                             \union Waiting \union Settled]
  BY DeliverType, RefreshTokenType
     DEF TypeOK, getRequestMetadataAsync, Fail, Goto, refreshVars, Usable,
         Credentials

LEMMA ForcedType ==
  ASSUME TypeOK, NEW c \in Call, refreshAccessTokenAsync(c)
  PROVE  /\ refreshTokenPromises' \in [RefreshToken -> Call \union {None}]
         /\ post' \in [Call -> Post \union {None}]
         /\ awaiting' \in [Call -> Call \union {None}]
         /\ starts' \in [Call -> Nat]
         /\ header' \in [Call -> Token \union {None}]
         /\ sends' \in [Call -> Nat]
         /\ pc' \in [Call -> {"idle", "sent", "replay", "revoking"}
                             \union Waiting \union Settled]
  BY RefreshTokenType
     DEF TypeOK, refreshAccessTokenAsync, Goto, refreshVars, Credentials

LEMMA CatchType ==
  ASSUME TypeOK, NEW c \in Call, NEW status, NEW streamed,
         Catch(c, status, streamed)
  PROVE  /\ refreshTokenPromises' \in [RefreshToken -> Call \union {None}]
         /\ post' \in [Call -> Post \union {None}]
         /\ awaiting' \in [Call -> Call \union {None}]
         /\ starts' \in [Call -> Nat]
         /\ header' \in [Call -> Token \union {None}]
         /\ sends' \in [Call -> Nat]
         /\ retry' \in [Call -> BOOLEAN]
         /\ pc' \in [Call -> {"idle", "sent", "replay", "revoking"}
                             \union Waiting \union Settled]
  BY ForcedType DEF TypeOK, Catch, Goto, refreshVars

LEMMA OutcomeType ==
  ASSUME TypeOK, NEW reply \in Reply
  PROVE  Outcome(reply) \in Result
  BY DEF TypeOK, Outcome, Reply, Result

LEMMA RefreshedType ==
  ASSUME TypeOK, NEW r \in Result
  PROVE  Refreshed(r) \in Credentials
  BY DEF TypeOK, Refreshed, Result, Credentials

(* A step of the token endpoint puts an answer into one POST.              *)
LEMMA EndpointReplies ==
  ASSUME TypeOK, NEW c \in Call,
         \/ TokenEndpointGrants(c)
         \/ TokenEndpointOmitsToken(c)
         \/ TokenEndpointRefuses(c)
  PROVE  issued' \in Nat /\ \E reply \in Reply : TokenEndpointAnswers(c, reply)
<1>1. CASE TokenEndpointGrants(c)
  <2> PICK life \in Lifetimes :
        /\ post[c] # None
        /\ issued' = issued + 1
        /\ TokenEndpointAnswers(c,
             [status |-> "ok",
              token |-> [rt |-> post[c].rt, serial |-> issued + 1,
                         deadline |-> now + life],
              expires_in |-> IF ReportsExpiry THEN life ELSE 0,
              since |-> now])
    BY <1>1 DEF TokenEndpointGrants
  <2> QED BY ConstantsOk DEF ConstantsOk, TypeOK, Reply, Post, Token
<1>2. CASE TokenEndpointOmitsToken(c)
  BY <1>2 DEF TypeOK, TokenEndpointOmitsToken, Reply
<1>3. CASE TokenEndpointRefuses(c)
  BY <1>3 DEF TypeOK, TokenEndpointRefuses, Reply
<1> QED BY <1>1, <1>2, <1>3

LEMMA EndpointType ==
  ASSUME TypeOK, NEW c \in Call, NEW reply \in Reply,
         TokenEndpointAnswers(c, reply), issued' \in Nat
  PROVE  TypeOK'
  BY DEF TypeOK, TokenEndpointAnswers, Post, callVars

LEMMA ApplicationType == TypeOK /\ Application => TypeOK'
<1> SUFFICES ASSUME TypeOK, Application PROVE TypeOK'
  OBVIOUS
<1>1. ASSUME NEW new \in Stashed, setCredentials(new) PROVE TypeOK'
  BY <1>1, ConstantsOk DEF TypeOK, ConstantsOk, setCredentials, refreshVars, callVars
<1>2. ASSUME NEW c \in Call, requestAsync(c) PROVE TypeOK'
  BY <1>2, MetadataType DEF TypeOK, requestAsync, Begin
<1>3. ASSUME NEW c \in Call, getAccessTokenAsync(c) PROVE TypeOK'
  BY <1>3, DeliverType, ForcedType
     DEF TypeOK, getAccessTokenAsync, Begin, Usable, Credentials, refreshVars
<1>4. ASSUME NEW c \in Call, refreshAccessToken(c) PROVE TypeOK'
  BY <1>4, ForcedType DEF TypeOK, refreshAccessToken, Begin
<1>5. ASSUME NEW c \in Call, revokeCredentialsAsync(c) PROVE TypeOK'
  BY <1>5 DEF TypeOK, revokeCredentialsAsync, Begin, Goto, refreshVars,
              Credentials, NoCredentials
<1> QED BY <1>1, <1>2, <1>3, <1>4, <1>5 DEF Application

LEMMA ContinuationType ==
  ASSUME TypeOK, NEW c \in Call, Continuation(c) PROVE TypeOK'
<1>1. CASE MetadataRefreshed(c)
  BY <1>1, DeliverType, RefreshedType
     DEF TypeOK, MetadataRefreshed, Resume, Result, refreshVars
<1>2. CASE MetadataRefused(c)
  BY <1>2, CatchType DEF TypeOK, MetadataRefused, Resume, Fail, Goto, refreshVars
<1>3. CASE ForcedRefreshed(c)
  BY <1>3, RefreshedType
     DEF TypeOK, ForcedRefreshed, Resume, Result, Goto, refreshVars
<1>4. CASE ForcedRefused(c)
  BY <1>4 DEF TypeOK, ForcedRefused, Resume, Fail, Goto, refreshVars
<1>5. CASE Replay(c)
  BY <1>5, MetadataType DEF TypeOK, Replay
<1> QED BY <1>1, <1>2, <1>3, <1>4, <1>5 DEF Continuation

LEMMA AnswerType ==
  ASSUME TypeOK, NEW c \in Call, Answer(c) PROVE TypeOK'
<1>1. CASE RefreshSettles(c)
  BY <1>1, OutcomeType DEF TypeOK, RefreshSettles, PromisesAfter, Post
<1>2. CASE TokenEndpointGrants(c)
  BY <1>2, EndpointReplies, EndpointType
<1>3. CASE TokenEndpointOmitsToken(c)
  BY <1>3, EndpointReplies, EndpointType
<1>4. CASE TokenEndpointRefuses(c)
  BY <1>4, EndpointReplies, EndpointType
<1>5. CASE ApiAnswers(c)
  BY <1>5, CatchType DEF TypeOK, ApiAnswers, Goto, refreshVars
<1>6. CASE RevokeAnswers(c)
  BY <1>6 DEF TypeOK, RevokeAnswers, Goto, refreshVars
<1> QED BY <1>1, <1>2, <1>3, <1>4, <1>5, <1>6 DEF Answer

(* Every variable keeps its shape.                                         *)
THEOREM TypeCorrect == Spec => []TypeOK
<1>1. TypeOK /\ [Next]_vars => TypeOK'
  <2> SUFFICES ASSUME TypeOK, [Next]_vars PROVE TypeOK'
    OBVIOUS
  <2>1. CASE Tick
    BY <2>1 DEF TypeOK, Tick, refreshVars, callVars
  <2>2. CASE UNCHANGED vars
    BY <2>2 DEF TypeOK, vars, refreshVars, callVars
  <2> QED
    BY <2>1, <2>2, ApplicationType, ContinuationType, AnswerType DEF Next
<1> QED BY <1>1, InitTypeOK, PTL DEF Spec

-----------------------------------------------------------------------------
(* Refreshes in flight.  As far as they are concerned a step either lets    *)
(* its call go on without one, or begins to await one, or settles one, or  *)
(* puts an answer on its way, or does nothing.                             *)

FlightInv == TypeOK /\ RefreshInv

Free(c) == pc[c] \notin Waiting \/ got[c] # None

GoesOn(c) ==
  /\ Free(c)
  /\ UNCHANGED <<refreshTokenPromises, post, awaiting>>
  /\ \E label : label \notin Waiting /\ pc' = [pc EXCEPT ![c] = label]
  /\ got' = [got EXCEPT ![c] = None]

Joins(c) ==
  /\ Free(c)
  /\ \E rt \in RefreshToken : refreshToken(c, rt)
  /\ \E label \in Waiting : pc' = [pc EXCEPT ![c] = label]
  /\ got' = [got EXCEPT ![c] = None]

FlightStep ==
  \/ \E c \in Call : GoesOn(c) \/ Joins(c) \/ RefreshSettles(c)
  \/ \E c \in Call, reply \in Reply : TokenEndpointAnswers(c, reply)
  \/ UNCHANGED <<refreshTokenPromises, post, awaiting, pc, got>>

LEMMA MetadataSteps ==
  ASSUME TypeOK, NEW c \in Call, NEW k, Free(c),
         getRequestMetadataAsync(c, k), got' = [got EXCEPT ![c] = None]
  PROVE  GoesOn(c) \/ Joins(c)
  BY DEF TypeOK, Credentials, GoesOn, Joins, getRequestMetadataAsync, Deliver,
         Fail, Goto, refreshVars

LEMMA ForcedSteps ==
  ASSUME TypeOK, NEW c \in Call, Free(c),
         refreshAccessTokenAsync(c), got' = [got EXCEPT ![c] = None]
  PROVE  GoesOn(c) \/ Joins(c)
  BY DEF TypeOK, Credentials, GoesOn, Joins, refreshAccessTokenAsync, Goto,
         refreshVars

LEMMA CatchSteps ==
  ASSUME TypeOK, NEW c \in Call, NEW status, NEW streamed, Free(c),
         Catch(c, status, streamed), got' = [got EXCEPT ![c] = None]
  PROVE  GoesOn(c) \/ Joins(c)
  BY ForcedSteps DEF GoesOn, Catch, Goto, refreshVars

(* A call that awaits no refresh has no answer to take.                    *)
LEMMA NothingGot ==
  ASSUME FlightInv, NEW c \in Call, pc[c] \notin Waiting
  PROVE  Free(c) /\ got = [got EXCEPT ![c] = None]
  BY DEF FlightInv, TypeOK, RefreshInv, WaitersAwait, Free

LEMMA ApplicationSteps == FlightInv /\ Application => FlightStep
<1> SUFFICES ASSUME FlightInv, Application PROVE FlightStep
  OBVIOUS
<1> USE DEF FlightStep, FlightInv
<1>1. ASSUME NEW new \in Stashed, setCredentials(new) PROVE FlightStep
  BY <1>1 DEF setCredentials, refreshVars, callVars
<1>2. ASSUME NEW c \in Call, requestAsync(c) PROVE FlightStep
  BY <1>2, MetadataSteps, NothingGot DEF requestAsync, Begin
<1>3. ASSUME NEW c \in Call, getAccessTokenAsync(c) PROVE FlightStep
  BY <1>3, ForcedSteps, NothingGot
  DEF getAccessTokenAsync, Begin, Deliver, Goto, refreshVars, GoesOn
<1>4. ASSUME NEW c \in Call, refreshAccessToken(c) PROVE FlightStep
  BY <1>4, ForcedSteps, NothingGot DEF refreshAccessToken, Begin
<1>5. ASSUME NEW c \in Call, revokeCredentialsAsync(c) PROVE FlightStep
  BY <1>5, NothingGot DEF revokeCredentialsAsync, Begin, Goto, refreshVars, GoesOn
<1> QED BY <1>1, <1>2, <1>3, <1>4, <1>5 DEF Application

LEMMA ContinuationSteps ==
  ASSUME FlightInv, NEW c \in Call, Continuation(c) PROVE FlightStep
<1> USE DEF Resume, FlightStep, FlightInv, Free, Goto, refreshVars
<1>1. CASE MetadataRefreshed(c)
  BY <1>1 DEF MetadataRefreshed, Deliver, GoesOn
<1>2. CASE MetadataRefused(c)
  BY <1>2, CatchSteps DEF MetadataRefused, Fail, GoesOn
<1>3. CASE ForcedRefreshed(c)
  BY <1>3 DEF ForcedRefreshed, GoesOn
<1>4. CASE ForcedRefused(c)
  BY <1>4 DEF ForcedRefused, Fail, GoesOn
<1>5. CASE Replay(c)
  BY <1>5, MetadataSteps, NothingGot DEF Replay
<1> QED BY <1>1, <1>2, <1>3, <1>4, <1>5 DEF Continuation

LEMMA AnswerSteps ==
  ASSUME FlightInv, NEW c \in Call, Answer(c) PROVE FlightStep
<1> USE DEF FlightStep, FlightInv, Goto, refreshVars
<1>1. CASE RefreshSettles(c)
  BY <1>1
<1>2. CASE \/ TokenEndpointGrants(c)
           \/ TokenEndpointOmitsToken(c)
           \/ TokenEndpointRefuses(c)
  BY <1>2, EndpointReplies
<1>3. CASE ApiAnswers(c)
  BY <1>3, CatchSteps, NothingGot DEF ApiAnswers, GoesOn
<1>4. CASE RevokeAnswers(c)
  BY <1>4, NothingGot DEF RevokeAnswers, GoesOn
<1> QED BY <1>1, <1>2, <1>3, <1>4 DEF Answer

LEMMA FlightSteps == FlightInv /\ [Next]_vars => FlightStep
  BY ApplicationSteps, ContinuationSteps, AnswerSteps
  DEF Next, Tick, FlightStep, vars, refreshVars, callVars

-----------------------------------------------------------------------------
(* The invariant of the refreshes in flight.                               *)

LEMMA FreeCall ==
  ASSUME FlightInv, NEW c \in Call, Free(c)
  PROVE  awaiting[c] = None /\ post[c] = None
  BY ConstantsOk
  DEF FlightInv, TypeOK, RefreshInv, StarterAwaits, AwaitersWait, ConstantsOk, Free

LEMMA GoesOnInv ==
  ASSUME FlightInv, NEW c \in Call, GoesOn(c) PROVE RefreshInv'
  BY FreeCall DEF GoesOn, FlightInv, TypeOK, RefreshInv, PromisesMatchPosts,
     StarterAwaits, AwaitersWait, WaitersAwait

LEMMA JoinsInv ==
  ASSUME FlightInv, NEW c \in Call, Joins(c) PROVE RefreshInv'
<1> USE FreeCall, ConstantsOk
    DEF FlightInv, TypeOK, RefreshInv, Joins, refreshToken, ConstantsOk, Post
<1>1. PromisesMatchPosts'
  BY DEF PromisesMatchPosts
<1>2. StarterAwaits'
  BY DEF StarterAwaits, PromisesMatchPosts
<1>3. AwaitersWait'
  BY DEF AwaitersWait, PromisesMatchPosts, StarterAwaits
<1>4. WaitersAwait'
  BY DEF WaitersAwait
<1> QED BY <1>1, <1>2, <1>3, <1>4

LEMMA SettlesInv ==
  ASSUME FlightInv, NEW c \in Call, RefreshSettles(c) PROVE RefreshInv'
<1>1. PromisesMatchPosts'
  BY ConstantsOk
  DEF FlightInv, TypeOK, RefreshInv, PromisesMatchPosts, RefreshSettles,
      PromisesAfter, ConstantsOk, Post
<1>2. StarterAwaits'
  BY DEF FlightInv, TypeOK, RefreshInv, StarterAwaits, RefreshSettles
<1>3. AwaitersWait'
  BY DEF FlightInv, TypeOK, RefreshInv, AwaitersWait, RefreshSettles
<1>4. WaitersAwait'
  <2>1. Outcome(post[c].reply) # None
    BY OutcomeType, ConstantsOk
    DEF FlightInv, TypeOK, RefreshSettles, ConstantsOk, Post
  <2> QED
    BY <2>1, ConstantsOk
    DEF FlightInv, TypeOK, RefreshInv, WaitersAwait, AwaitersWait,
        RefreshSettles, ConstantsOk
<1> QED BY <1>1, <1>2, <1>3, <1>4 DEF RefreshInv

(* An answer on its way leaves the POST what it is.                        *)
LEMMA SamePosts ==
  ASSUME FlightInv, NEW c \in Call, NEW reply \in Reply,
         TokenEndpointAnswers(c, reply)
  PROVE  \A d \in Call : /\ post'[d] = None <=> post[d] = None
                         /\ post[d] # None => post'[d].rt = post[d].rt
  BY ConstantsOk
  DEF FlightInv, TypeOK, TokenEndpointAnswers, Post, ConstantsOk

LEMMA RefreshInvStep == FlightInv /\ FlightStep => RefreshInv'
<1> SUFFICES ASSUME FlightInv, FlightStep PROVE RefreshInv'
  OBVIOUS
<1>1. ASSUME NEW c \in Call, NEW reply \in Reply, TokenEndpointAnswers(c, reply)
      PROVE  RefreshInv'
  <2>1. \A d \in Call : /\ post'[d] = None <=> post[d] = None
                        /\ post[d] # None => post'[d].rt = post[d].rt
    BY <1>1, SamePosts
  <2> QED
    BY <1>1, <2>1
    DEF FlightInv, TypeOK, RefreshInv, PromisesMatchPosts, StarterAwaits,
        AwaitersWait, WaitersAwait, TokenEndpointAnswers, callVars
<1>2. CASE UNCHANGED <<refreshTokenPromises, post, awaiting, pc, got>>
  BY <1>2 DEF FlightInv, RefreshInv, PromisesMatchPosts, StarterAwaits,
              AwaitersWait, WaitersAwait
<1> QED BY <1>1, <1>2, GoesOnInv, JoinsInv, SettlesInv DEF FlightStep

(* The invariant of the refreshes in flight.                               *)
THEOREM RefreshesCorrect == Spec => []RefreshInv
<1>1. Init => RefreshInv
  BY ConstantsOk DEF Init, ConstantsOk, RefreshInv, PromisesMatchPosts,
     StarterAwaits, AwaitersWait, WaitersAwait
<1>2. TypeOK /\ RefreshInv /\ [Next]_vars => RefreshInv'
  BY FlightSteps, RefreshInvStep DEF FlightInv
<1> QED BY <1>1, <1>2, TypeCorrect, PTL DEF Spec

(* At most one POST is in flight for a refresh token (refreshToken's       *)
(* comment: "return the same promise").                                    *)
THEOREM AtMostOneFlight == Spec => []SingleFlight
<1>1. TypeOK /\ RefreshInv => SingleFlight
  BY DEF TypeOK, RefreshInv, PromisesMatchPosts, SingleFlight, Post
<1> QED BY <1>1, TypeCorrect, RefreshesCorrect, PTL

(* No call waits for a refresh that is not running.                        *)
THEOREM NoWaiterLost == Spec => []NoOrphanWaiter
<1>1. RefreshInv => NoOrphanWaiter
  BY DEF RefreshInv, AwaitersWait, WaitersAwait, NoOrphanWaiter
<1> QED BY <1>1, RefreshesCorrect, PTL

-----------------------------------------------------------------------------
(* The client implements SharedRefresh.                                    *)

SharedStep == Shared!Next \/ UNCHANGED Shared!vars

LEMMA GoesOnShared ==
  ASSUME FlightInv, NEW c \in Call, GoesOn(c) PROVE SharedStep
<1>1. CASE got[c] = None
  BY <1>1 DEF GoesOn, FlightInv, TypeOK, SharedStep, Shared!vars
<1>2. CASE got[c] # None
  <2>1. Shared!Take(c)
    BY <1>2 DEF GoesOn, Shared!Take
  <2> QED BY <2>1 DEF SharedStep, Shared!Next
<1> QED BY <1>1, <1>2

LEMMA JoinsShared ==
  ASSUME FlightInv, NEW c \in Call, Joins(c) PROVE SharedStep
<1> PICK rt \in RefreshToken : refreshToken(c, rt)
  BY DEF Joins
<1>0. awaiting[c] = None /\ post[c] = None /\ got' = [got EXCEPT ![c] = None]
  BY FreeCall DEF Joins
<1>1. post'[awaiting'[c]] # None /\ post'[awaiting'[c]].rt = rt
  BY ConstantsOk
  DEF FlightInv, TypeOK, RefreshInv, refreshToken, PromisesMatchPosts,
      ConstantsOk, Post
<1>2. \A f \in Call : post[f] # None => post'[f] = post[f]
  BY <1>0 DEF FlightInv, TypeOK, refreshToken
<1>3. \A f \in Call : post'[f] # None => post'[f].rt = rt \/ post[f] # None
  BY <1>0 DEF FlightInv, TypeOK, refreshToken
<1>4. awaiting'[c] \in Call /\ awaiting'[c] # None
  BY ConstantsOk DEF FlightInv, TypeOK, refreshToken, ConstantsOk
<1>5. \A d \in Call \ {c} : awaiting'[d] = awaiting[d]
  BY DEF FlightInv, TypeOK, refreshToken
<1>6. \A d \in Call : awaiting[d] # None
                      => awaiting[d] \in Call /\ post[awaiting[d]] # None
  BY DEF FlightInv, TypeOK, RefreshInv, AwaitersWait
<1>7. {post'[f].rt : f \in {g \in Call : post'[g] # None}}
        = {post[f].rt : f \in {g \in Call : post[g] # None}} \union {rt}
  BY <1>1, <1>2, <1>3, <1>4
<1> DEFINE Asked(d) == IF awaiting[d] = None \/ post[awaiting[d]] = None
                       THEN None ELSE post[awaiting[d]].rt
<1>8. [d \in Call |-> Asked(d)'] = [[d \in Call |-> Asked(d)] EXCEPT ![c] = rt]
  <2>1. Asked(c)' = rt
    BY <1>1, <1>4
  <2>2. ASSUME NEW d \in Call, d # c PROVE Asked(d)' = Asked(d)
    BY <1>2, <1>5, <1>6, <2>2
  <2> HIDE DEF Asked
  <2> QED BY <2>1, <2>2
<1>9. Shared!Ask(c, rt)
  BY <1>0, <1>7, <1>8 DEF Shared!Ask
<1> QED BY <1>9 DEF SharedStep, Shared!Next

LEMMA SettlesShared ==
  ASSUME FlightInv, NEW c \in Call, RefreshSettles(c) PROVE SharedStep
<1> PICK rt \in RefreshToken : post[c] # None /\ post[c].rt = rt
  BY DEF FlightInv, TypeOK, RefreshSettles, Post
<1>0. awaiting[c] = c /\ c # None
  BY ConstantsOk
  DEF FlightInv, RefreshInv, StarterAwaits, ConstantsOk
<1>1. \A f \in Call : post[f] # None => (post[f].rt = rt <=> f = c)
  BY <1>0 DEF FlightInv, TypeOK, RefreshInv, PromisesMatchPosts
<1>2. \A f \in Call : post'[f] = IF f = c THEN None ELSE post[f]
  BY DEF FlightInv, TypeOK, RefreshSettles
<1>3. \A d \in Call : awaiting[d] # None
                      => awaiting[d] \in Call /\ post[awaiting[d]] # None
  BY DEF FlightInv, TypeOK, RefreshInv, AwaitersWait
<1>4. Shared!Sharers(rt) = {d \in Call : awaiting[d] = c}
  BY <1>0, <1>1, <1>3, ConstantsOk DEF Shared!Sharers, ConstantsOk
<1>5. \A d \in Call : awaiting'[d] = IF awaiting[d] = c THEN None ELSE awaiting[d]
  BY DEF RefreshSettles
<1>6. {post'[f].rt : f \in {g \in Call : post'[g] # None}}
        = {post[f].rt : f \in {g \in Call : post[g] # None}} \ {rt}
  BY <1>1, <1>2
<1>7. [d \in Call |-> IF awaiting'[d] = None \/ post'[awaiting'[d]] = None
                      THEN None ELSE post'[awaiting'[d]].rt]
       = [d \in Call |->
            IF d \in {e \in Call : awaiting[e] = c} THEN None
            ELSE [e \in Call |-> IF awaiting[e] = None \/ post[awaiting[e]] = None
                                 THEN None ELSE post[awaiting[e]].rt][d]]
  BY <1>0, <1>2, <1>3, <1>5
<1>8. /\ got'[c] # None
      /\ got' = [d \in Call |-> IF d \in {e \in Call : awaiting[e] = c}
                                THEN got'[c] ELSE got[d]]
  <2>1. Outcome(post[c].reply) # None
    BY OutcomeType, ConstantsOk
    DEF FlightInv, TypeOK, RefreshSettles, ConstantsOk, Post
  <2> QED BY <2>1, <1>0 DEF RefreshSettles
<1>9. Shared!End(rt)
  <2>1. rt \in {post[f].rt : f \in {g \in Call : post[g] # None}}
    OBVIOUS
  <2>2. c \in Shared!Sharers(rt)
    BY <1>0, <1>4
  <2>3. \E s \in Shared!Sharers(rt) :
          /\ got'[s] # None
          /\ got' = [d \in Call |-> IF d \in Shared!Sharers(rt) THEN got'[s]
                                                             ELSE got[d]]
    BY <2>2, <1>4, <1>8
  <2> QED BY <2>1, <2>3, <1>4, <1>6, <1>7 DEF Shared!End
<1> QED BY <1>0, <1>9 DEF SharedStep, Shared!Next

LEMMA AnswersShared ==
  ASSUME FlightInv, NEW c \in Call, NEW reply \in Reply,
         TokenEndpointAnswers(c, reply)
  PROVE  SharedStep
<1>1. \A d \in Call : /\ post'[d] = None <=> post[d] = None
                      /\ post[d] # None => post'[d].rt = post[d].rt
  BY SamePosts
<1>2. awaiting' = awaiting /\ got' = got
  BY DEF TokenEndpointAnswers, callVars
<1>3. {post'[f].rt : f \in {g \in Call : post'[g] # None}}
        = {post[f].rt : f \in {g \in Call : post[g] # None}}
  BY <1>1
<1>4. [d \in Call |-> IF awaiting'[d] = None \/ post'[awaiting'[d]] = None
                      THEN None ELSE post'[awaiting'[d]].rt]
       = [d \in Call |-> IF awaiting[d] = None \/ post[awaiting[d]] = None
                         THEN None ELSE post[awaiting[d]].rt]
  BY <1>1, <1>2 DEF FlightInv, TypeOK
<1> QED BY <1>2, <1>3, <1>4 DEF SharedStep, Shared!vars

(* The map of promises gives its callers what SharedRefresh promises: one  *)
(* exchange for each refresh token at a time, and one answer to all who    *)
(* asked while it ran.                                                     *)
THEOREM ImplementsSharedRefresh == Spec => SharedSpec
<1>1. Init => Shared!Init
  BY DEF Init, Shared!Init
<1>2. TypeOK /\ RefreshInv /\ [Next]_vars => [Shared!Next]_(Shared!vars)
  <2> SUFFICES ASSUME FlightInv, FlightStep PROVE SharedStep
    BY FlightSteps DEF FlightInv, SharedStep
  <2>1. CASE UNCHANGED <<refreshTokenPromises, post, awaiting, pc, got>>
    BY <2>1 DEF SharedStep, Shared!vars
  <2> QED
    BY <2>1, GoesOnShared, JoinsShared, SettlesShared, AnswersShared
    DEF FlightStep
<1> QED
  BY <1>1, <1>2, TypeCorrect, RefreshesCorrect, PTL
  DEF Spec, SharedSpec, Shared!Spec

-----------------------------------------------------------------------------
(* Only setCredentials and revokeCredentials change the refresh token: no  *)
(* refresh drops it or brings back the one it was made with.               *)
THEOREM RefreshTokenStaysTheApplications == Spec => RefreshTokenIsTheApplications
<1>1. TypeOK /\ [Next]_vars =>
        \/ credentials'.rt = credentials.rt \/ swaps' # swaps
        \/ \E c \in Call : pc[c] = "idle" /\ revokeCredentialsAsync(c)
  <2> SUFFICES ASSUME TypeOK, [Next]_vars
               PROVE  \/ credentials'.rt = credentials.rt \/ swaps' # swaps
                      \/ \E c \in Call :
                           pc[c] = "idle" /\ revokeCredentialsAsync(c)
    OBVIOUS
  <2>1. CASE Application
    BY <2>1
    DEF Application, setCredentials, requestAsync, getAccessTokenAsync,
        refreshAccessToken, revokeCredentialsAsync, Begin, TypeOK
  <2>2. ASSUME NEW c \in Call, Continuation(c)
        PROVE  credentials'.rt = credentials.rt
    <3>1. CASE MetadataRefreshed(c) \/ ForcedRefreshed(c)
      <4>1. credentials' = Refreshed(got[c])
        BY <3>1 DEF MetadataRefreshed, ForcedRefreshed
      <4> QED BY <4>1 DEF Refreshed
    <3>2. CASE MetadataRefused(c) \/ ForcedRefused(c) \/ Replay(c)
      BY <3>2 DEF MetadataRefused, ForcedRefused, Replay
    <3> QED BY <2>2, <3>1, <3>2 DEF Continuation
  <2>3. ASSUME NEW c \in Call, Answer(c)
        PROVE  credentials' = credentials
    BY <2>3
    DEF Answer, RefreshSettles, TokenEndpointGrants, TokenEndpointOmitsToken,
        TokenEndpointRefuses, TokenEndpointAnswers, ApiAnswers, RevokeAnswers
  <2> QED BY <2>1, <2>2, <2>3 DEF Next, Tick, vars
<1> QED
  BY <1>1, TypeCorrect, PTL DEF Spec, RefreshTokenIsTheApplications

-----------------------------------------------------------------------------
(* Effort.  What a call has sent and started so far depends on where it    *)
(* stands and on whether it is a replay: only the first try is caught, and *)
(* the refresh between the two tries is the only forced one of a request.  *)

Effort(c) ==
  /\ sends[c] <= 2 /\ starts[c] <= 3
  /\ ~retry[c] => sends[c] <= 1 /\ starts[c] <= 1
  /\ pc[c] = "idle" => sends[c] = 0 /\ starts[c] = 0 /\ ~retry[c]
  /\ pc[c] = "metadata" => sends[c] <= 1
  /\ pc[c] = "metadata" /\ ~retry[c] => sends[c] = 0
  /\ pc[c] \in {"forced", "replay"} => sends[c] <= 1 /\ starts[c] <= 2
  /\ pc[c] = "forced" /\ kind[c] \in {"request", "upload"} => retry[c]
  /\ pc[c] = "replay" => retry[c]

EffortInv == \A c \in Call : Effort(c)

(* The other calls' effort stays what it is.                               *)
OthersRest(c) ==
  \A e \in Call : e # c =>
    /\ pc'[e] = pc[e] /\ kind'[e] = kind[e] /\ retry'[e] = retry[e]
    /\ sends'[e] = sends[e] /\ starts'[e] = starts[e]

LEMMA EffortFrom ==
  ASSUME EffortInv, NEW c \in Call, OthersRest(c), Effort(c)'
  PROVE  EffortInv'
  BY DEF EffortInv, Effort, OthersRest

LEMMA SameEffort ==
  ASSUME EffortInv, UNCHANGED <<pc, kind, retry, sends, starts>>
  PROVE  EffortInv'
  BY DEF EffortInv, Effort

(* The numbers, as the solver wants them beside what is Boolean.           *)
LEMMA EffortNumbers ==
  ASSUME TypeOK, EffortInv, NEW c \in Call
  PROVE  sends[c] \in Nat /\ starts[c] \in Nat /\ retry[c] \in BOOLEAN /\ Effort(c)
  BY DEF TypeOK, EffortInv

(* A call that settles, or that sends nothing and starts nothing.          *)
LEMMA SettlingEffort ==
  ASSUME TypeOK, EffortInv, NEW c \in Call, OthersRest(c),
         pc'[c] \in {"done", "failed", "unauthorized", "revoking"},
         sends'[c] = sends[c], starts'[c] = starts[c], retry'[c] = retry[c]
  PROVE  EffortInv'
<1>1. Effort(c)'
  BY EffortNumbers DEF Effort
<1> QED BY <1>1, EffortFrom

LEMMA RefreshTokenEffort ==
  ASSUME TypeOK, NEW c \in Call, NEW rt, refreshToken(c, rt)
  PROVE  /\ starts'[c] = starts[c] \/ starts'[c] = starts[c] + 1
         /\ \A e \in Call : e # c => starts'[e] = starts[e]
  BY DEF TypeOK, refreshToken

(* getRequestMetadataAsync, of the first try or of the replay.             *)
LEMMA MetadataEffort ==
  ASSUME TypeOK, EffortInv, NEW c \in Call, NEW k,
         pc[c] = "idle" \/ pc[c] = "replay",
         getRequestMetadataAsync(c, k), UNCHANGED retry,
         \A e \in Call : e # c => kind'[e] = kind[e]
  PROVE  EffortInv'
<1>1. /\ sends[c] \in Nat /\ starts[c] \in Nat
      /\ sends[c] <= 1 /\ starts[c] <= 2
      /\ ~retry[c] => sends[c] = 0 /\ starts[c] = 0
  BY EffortNumbers DEF Effort
<1>2. CASE \E token : Deliver(c, k, token) /\ UNCHANGED refreshVars
  <2>1. /\ pc'[c] \in {"sent", "done"} /\ starts'[c] = starts[c]
        /\ sends'[c] = sends[c] \/ sends'[c] = sends[c] + 1
        /\ OthersRest(c)
    BY <1>2 DEF TypeOK, Deliver, Goto, refreshVars, OthersRest
  <2>2. /\ sends'[c] <= 2 /\ starts'[c] <= 3
        /\ ~retry'[c] => sends'[c] <= 1 /\ starts'[c] <= 1
    BY <1>1, <2>1
  <2>3. Effort(c)'
    BY <2>1, <2>2 DEF Effort
  <2> QED BY <2>1, <2>3, EffortFrom
<1>3. CASE Fail(c) /\ UNCHANGED refreshVars
  <2>1. pc'[c] = "failed" /\ OthersRest(c) /\ sends' = sends /\ starts' = starts
    BY <1>3 DEF TypeOK, Fail, Goto, refreshVars, OthersRest
  <2> QED BY <2>1, SettlingEffort
<1>4. CASE Goto(c, "metadata") /\ refreshToken(c, credentials.rt)
           /\ UNCHANGED <<header, sends>>
  <2>1. /\ pc'[c] = "metadata" /\ sends'[c] = sends[c]
        /\ starts'[c] = starts[c] \/ starts'[c] = starts[c] + 1
        /\ OthersRest(c)
    BY <1>4, RefreshTokenEffort DEF TypeOK, Goto, OthersRest
  <2>2. /\ sends'[c] <= 1 /\ starts'[c] <= 3
        /\ ~retry'[c] => sends'[c] = 0 /\ starts'[c] <= 1
    BY <1>1, <2>1
  <2>3. sends'[c] <= 2 /\ (~retry'[c] => sends'[c] <= 1)
    BY <1>1, <2>1
  <2>4. Effort(c)'
    BY <2>1, <2>2, <2>3 DEF Effort
  <2> QED BY <2>1, <2>4, EffortFrom
<1> QED BY <1>2, <1>3, <1>4 DEF getRequestMetadataAsync

(* refreshAccessTokenAsync, of a first call or of the replay to come.      *)
LEMMA ForcedEffort ==
  ASSUME TypeOK, EffortInv, NEW c \in Call, refreshAccessTokenAsync(c),
         sends[c] <= 1, starts[c] <= 1,
         ~retry'[c] => starts[c] = 0 /\ kind'[c] \notin {"request", "upload"},
         \A e \in Call : e # c => kind'[e] = kind[e] /\ retry'[e] = retry[e]
  PROVE  EffortInv'
<1>1. sends[c] \in Nat /\ starts[c] \in Nat
  BY DEF TypeOK
<1>2. /\ pc'[c] \in {"failed", "forced"} /\ sends'[c] = sends[c]
      /\ starts'[c] = starts[c] \/ starts'[c] = starts[c] + 1
      /\ OthersRest(c)
  BY RefreshTokenEffort
  DEF TypeOK, refreshAccessTokenAsync, Goto, refreshVars, OthersRest
<1>3. /\ sends'[c] <= 1 /\ starts'[c] <= 2 /\ sends'[c] <= 2 /\ starts'[c] <= 3
      /\ ~retry'[c] => starts'[c] <= 1
  BY <1>1, <1>2
<1>4. Effort(c)'
  BY <1>2, <1>3 DEF Effort
<1> QED BY <1>2, <1>4, EffortFrom

LEMMA CatchEffort ==
  ASSUME TypeOK, EffortInv, NEW c \in Call, NEW status, NEW streamed,
         Catch(c, status, streamed), UNCHANGED kind
  PROVE  EffortInv'
<1>1. CASE /\ ~retry[c] /\ retry' = [retry EXCEPT ![c] = TRUE]
           /\ refreshAccessTokenAsync(c)
  <2>1. sends[c] <= 1 /\ starts[c] <= 1
    BY <1>1, EffortNumbers DEF Effort
  <2>2. retry'[c] = TRUE /\ \A e \in Call : e # c => retry'[e] = retry[e]
    BY <1>1 DEF TypeOK
  <2> QED BY <1>1, <2>1, <2>2, ForcedEffort
<1>2. CASE /\ \E label \in {"unauthorized", "failed"} : Goto(c, label)
           /\ UNCHANGED <<retry, header, sends, refreshVars>>
  <2>1. pc'[c] \in {"unauthorized", "failed"} /\ OthersRest(c) /\ starts' = starts
    BY <1>2 DEF TypeOK, Goto, refreshVars, OthersRest
  <2> QED BY <1>2, <2>1, SettlingEffort
<1> QED BY <1>1, <1>2 DEF Catch

LEMMA ApplicationEffort == TypeOK /\ EffortInv /\ Application => EffortInv'
<1> SUFFICES ASSUME TypeOK, EffortInv, Application PROVE EffortInv'
  OBVIOUS
<1>1. ASSUME NEW new \in Stashed, setCredentials(new) PROVE EffortInv'
  BY <1>1, SameEffort DEF setCredentials, refreshVars, callVars
<1>2. ASSUME NEW c \in Call, NEW k, Begin(c, k)
      PROVE  /\ pc[c] = "idle" /\ sends[c] = 0 /\ starts[c] = 0
             /\ kind'[c] = k /\ retry' = retry
             /\ \A e \in Call : e # c => kind'[e] = kind[e]
  BY <1>2, EffortNumbers DEF TypeOK, Begin, Effort
<1>3. ASSUME NEW c \in Call, requestAsync(c) PROVE EffortInv'
  BY <1>2, <1>3, MetadataEffort DEF requestAsync
<1>4. ASSUME NEW c \in Call, NEW k \in {"getAccessToken", "refreshAccessToken"},
             Begin(c, k), refreshAccessTokenAsync(c)
      PROVE  EffortInv'
  <2>1. sends[c] <= 1 /\ starts[c] <= 1 /\ starts[c] = 0
    BY <1>2, <1>4
  <2> QED BY <1>2, <1>4, <2>1, ForcedEffort
<1>5. ASSUME NEW c \in Call, getAccessTokenAsync(c) PROVE EffortInv'
  <2>1. CASE Deliver(c, "getAccessToken", credentials.at) /\ UNCHANGED refreshVars
    <3>1. /\ pc'[c] = "done" /\ sends' = sends /\ starts' = starts /\ retry' = retry
          /\ OthersRest(c)
      BY <1>2, <1>5, <2>1
      DEF TypeOK, getAccessTokenAsync, Deliver, Goto, refreshVars, OthersRest
    <3> QED BY <3>1, SettlingEffort
  <2> QED BY <1>4, <1>5, <2>1 DEF getAccessTokenAsync
<1>6. ASSUME NEW c \in Call, refreshAccessToken(c) PROVE EffortInv'
  BY <1>4, <1>6 DEF refreshAccessToken
<1>7. ASSUME NEW c \in Call, revokeCredentialsAsync(c) PROVE EffortInv'
  <2>1. /\ pc'[c] \in {"revoking", "failed"} /\ sends' = sends /\ starts' = starts
        /\ retry' = retry /\ OthersRest(c)
    BY <1>2, <1>7 DEF TypeOK, revokeCredentialsAsync, Goto, refreshVars, OthersRest
  <2> QED BY <2>1, SettlingEffort
<1> QED BY <1>1, <1>3, <1>5, <1>6, <1>7 DEF Application

LEMMA ContinuationEffort ==
  ASSUME TypeOK, EffortInv, NEW c \in Call, Continuation(c) PROVE EffortInv'
<1> USE DEF Resume
<1>1. CASE MetadataRefreshed(c)
  <2>1. /\ sends[c] \in Nat /\ starts[c] \in Nat /\ sends[c] <= 1 /\ starts[c] <= 3
        /\ ~retry[c] => sends[c] = 0 /\ starts[c] <= 1
    BY <1>1, EffortNumbers DEF MetadataRefreshed, Effort
  <2>2. /\ pc'[c] \in {"sent", "done"} /\ starts' = starts /\ retry' = retry
        /\ sends'[c] = sends[c] \/ sends'[c] = sends[c] + 1
        /\ OthersRest(c)
    BY <1>1 DEF TypeOK, MetadataRefreshed, Deliver, Goto, refreshVars, OthersRest
  <2>3. /\ sends'[c] <= 2 /\ starts'[c] <= 3
        /\ ~retry'[c] => sends'[c] <= 1 /\ starts'[c] <= 1
    BY <2>1, <2>2
  <2>4. Effort(c)'
    BY <2>2, <2>3 DEF Effort
  <2> QED BY <2>2, <2>4, EffortFrom
<1>2. ASSUME Fail(c), UNCHANGED <<kind, retry, refreshVars>>
      PROVE  EffortInv'
  <2>1. pc'[c] = "failed" /\ OthersRest(c) /\ sends' = sends /\ starts' = starts
    BY <1>2 DEF TypeOK, Fail, Goto, refreshVars, OthersRest
  <2> QED BY <1>2, <2>1, SettlingEffort
<1>3. CASE MetadataRefused(c)
  BY <1>2, <1>3, CatchEffort DEF MetadataRefused
<1>4. CASE ForcedRefreshed(c)
  <2>1. CASE kind[c] \in {"request", "upload"}
    <3>1. /\ pc'[c] = "replay" /\ sends' = sends /\ starts' = starts
          /\ retry' = retry /\ kind' = kind /\ OthersRest(c)
      BY <1>4, <2>1 DEF TypeOK, ForcedRefreshed, Goto, refreshVars, OthersRest
    <3>2. Effort(c) /\ pc[c] = "forced" /\ retry[c]
      BY <1>4, <2>1, EffortNumbers DEF ForcedRefreshed, Effort
    <3>3. Effort(c)'
      BY <3>1, <3>2 DEF Effort
    <3> QED BY <3>1, <3>3, EffortFrom
  <2>2. CASE kind[c] \notin {"request", "upload"}
    <3>1. /\ pc'[c] \in {"failed", "done"} /\ sends' = sends /\ starts' = starts
          /\ retry' = retry /\ OthersRest(c)
      BY <1>4, <2>2 DEF TypeOK, ForcedRefreshed, Goto, refreshVars, OthersRest
    <3> QED BY <3>1, SettlingEffort
  <2> QED BY <2>1, <2>2
<1>5. CASE ForcedRefused(c)
  BY <1>2, <1>5 DEF ForcedRefused
<1>6. CASE Replay(c)
  BY <1>6, MetadataEffort DEF Replay
<1> QED BY <1>1, <1>3, <1>4, <1>5, <1>6 DEF Continuation

LEMMA AnswerEffort ==
  ASSUME TypeOK, EffortInv, NEW c \in Call, Answer(c) PROVE EffortInv'
<1>1. CASE \/ RefreshSettles(c) \/ TokenEndpointGrants(c)
           \/ TokenEndpointOmitsToken(c) \/ TokenEndpointRefuses(c)
  BY <1>1, SameEffort
  DEF RefreshSettles, TokenEndpointGrants, TokenEndpointOmitsToken,
      TokenEndpointRefuses, TokenEndpointAnswers, callVars
<1>2. ASSUME NEW label \in {"done", "failed"}, Goto(c, label),
             UNCHANGED <<kind, retry, sends, refreshVars>>
      PROVE  EffortInv'
  <2>1. pc'[c] \in {"done", "failed"} /\ OthersRest(c) /\ starts' = starts
    BY <1>2 DEF TypeOK, Goto, refreshVars, OthersRest
  <2> QED BY <1>2, <2>1, SettlingEffort
<1>3. CASE ApiAnswers(c)
  BY <1>2, <1>3, CatchEffort DEF ApiAnswers
<1>4. CASE RevokeAnswers(c)
  BY <1>2, <1>4 DEF RevokeAnswers
<1> QED BY <1>1, <1>3, <1>4 DEF Answer

LEMMA EffortInit == Init => EffortInv
<1> SUFFICES ASSUME Init, NEW c \in Call PROVE Effort(c)
  BY DEF EffortInv
<1>1. sends[c] = 0 /\ starts[c] = 0 /\ pc[c] = "idle" /\ ~retry[c]
  BY DEF Init
<1>2. sends[c] <= 1 /\ starts[c] <= 1 /\ sends[c] <= 2 /\ starts[c] <= 3
  BY <1>1
<1> QED BY <1>1, <1>2, Zenon DEF Effort

LEMMA EffortNext == TypeOK /\ EffortInv /\ [Next]_vars => EffortInv'
<1> SUFFICES ASSUME TypeOK, EffortInv, [Next]_vars PROVE EffortInv'
  OBVIOUS
<1>1. CASE Tick \/ UNCHANGED vars
  BY <1>1, SameEffort DEF Tick, vars, refreshVars, callVars
<1> QED
  BY <1>1, ApplicationEffort, ContinuationEffort, AnswerEffort DEF Next

(* A request reaches the API at most twice and starts at most three        *)
(* refreshes, whatever the API and the token endpoint answer and however   *)
(* many calls share their refreshes.                                       *)
THEOREM EffortBounded == Spec => []BoundedEffort
<1>1. EffortInv => BoundedEffort
  BY DEF EffortInv, Effort, BoundedEffort
<1> QED
  BY <1>1, EffortInit, EffortNext, TypeCorrect, PTL DEF Spec

-----------------------------------------------------------------------------
(* Tokens on their way.  A token is pending while the answer that carries  *)
(* it has arrived at no call, and got while a call is ready to take it.    *)

Pending(p, t) == p # None /\ p.reply # None /\ p.reply.token = t /\ t # None
Obtained(g, t) == g # None /\ g.at = t /\ t # None

(* As far as tokens are concerned, a step is one of these or a grant.      *)
Installs ==
  /\ MaySwap
  /\ credentials' \in Stashed \union {NoCredentials}
  /\ credentials' = NoCredentials \/ swaps' # swaps
  /\ UNCHANGED <<now, issued, post, got>>

Runs(c) ==
  /\ got' = [got EXCEPT ![c] = None]
  /\ \A d \in Call : \/ post'[d] = post[d]
                     \/ /\ credentials.rt # None
                        /\ post'[d] = [rt |-> credentials.rt, reply |-> None]
  /\ UNCHANGED <<now, issued, credentials>>

Stores(c) ==
  /\ got[c] # None
  /\ got' = [got EXCEPT ![c] = None]
  /\ credentials' = Refreshed(got[c])
  /\ UNCHANGED <<now, issued, post>>

Refuses(c) ==
  \E reply \in Reply : /\ reply.token = None /\ reply.since = now
                       /\ TokenEndpointAnswers(c, reply)
                       /\ UNCHANGED issued

TokenStep ==
  \/ Installs \/ Tick \/ UNCHANGED <<now, issued, credentials, post, got>>
  \/ \E c \in Call : \/ Runs(c) \/ Stores(c) \/ RefreshSettles(c)
                     \/ TokenEndpointGrants(c) \/ Refuses(c)

LEMMA RefreshTokenRuns ==
  ASSUME TypeOK, NEW c \in Call, refreshToken(c, credentials.rt), credentials.rt # None,
         got' = [got EXCEPT ![c] = None], UNCHANGED <<now, issued, credentials>>
  PROVE  Runs(c)
  BY DEF TypeOK, refreshToken, Runs

LEMMA RestRuns ==
  ASSUME NEW c \in Call, got' = [got EXCEPT ![c] = None],
         UNCHANGED <<now, issued, credentials, post>>
  PROVE  Runs(c)
  BY DEF Runs

LEMMA MetadataRuns ==
  ASSUME TypeOK, NEW c \in Call, NEW k, getRequestMetadataAsync(c, k),
         got' = [got EXCEPT ![c] = None], UNCHANGED <<now, issued, credentials>>
  PROVE  Runs(c)
  BY RefreshTokenRuns, RestRuns DEF getRequestMetadataAsync, refreshVars

LEMMA ForcedRuns ==
  ASSUME TypeOK, NEW c \in Call, refreshAccessTokenAsync(c),
         got' = [got EXCEPT ![c] = None], UNCHANGED <<now, issued, credentials>>
  PROVE  Runs(c)
  BY RefreshTokenRuns, RestRuns DEF refreshAccessTokenAsync, refreshVars

LEMMA CatchRuns ==
  ASSUME TypeOK, NEW c \in Call, NEW status, NEW streamed, Catch(c, status, streamed),
         got' = [got EXCEPT ![c] = None], UNCHANGED <<now, issued, credentials>>
  PROVE  Runs(c)
  BY ForcedRuns, RestRuns DEF Catch, refreshVars

LEMMA TokenSteps == FlightInv /\ [Next]_vars => TokenStep
<1> SUFFICES ASSUME FlightInv, [Next]_vars PROVE TokenStep
  OBVIOUS
<1> USE DEF TokenStep
<1>0. TypeOK
  BY DEF FlightInv
<1>1. ASSUME NEW new \in Stashed, setCredentials(new) PROVE Installs
  BY <1>0, <1>1 DEF setCredentials, Installs, refreshVars, callVars, TypeOK
<1>2. ASSUME NEW c \in Call, revokeCredentialsAsync(c) PROVE Installs
  BY <1>2 DEF revokeCredentialsAsync, Begin, Installs, refreshVars
<1>3. ASSUME NEW c \in Call, NEW k, Begin(c, k) PROVE got' = [got EXCEPT ![c] = None]
  BY <1>3, NothingGot DEF Begin
<1>4. ASSUME NEW c \in Call,
             requestAsync(c) \/ getAccessTokenAsync(c) \/ refreshAccessToken(c)
      PROVE  Runs(c)
  <2>1. CASE requestAsync(c)
    BY <1>0, <1>3, <2>1, MetadataRuns DEF requestAsync, Begin
  <2>2. CASE getAccessTokenAsync(c)
    BY <1>0, <1>3, <2>2, ForcedRuns, RestRuns
    DEF getAccessTokenAsync, Begin, refreshVars
  <2>3. CASE refreshAccessToken(c)
    BY <1>0, <1>3, <2>3, ForcedRuns DEF refreshAccessToken, Begin
  <2> QED BY <1>4, <2>1, <2>2, <2>3
<1>5. ASSUME NEW c \in Call, Continuation(c) PROVE Runs(c) \/ Stores(c)
  <2>1. CASE MetadataRefreshed(c) \/ ForcedRefreshed(c)
    BY <2>1 DEF MetadataRefreshed, ForcedRefreshed, Resume, Stores, refreshVars
  <2>2. CASE MetadataRefused(c)
    BY <1>0, <2>2, CatchRuns, RestRuns DEF MetadataRefused, Resume, refreshVars
  <2>3. CASE ForcedRefused(c)
    BY <2>3, RestRuns DEF ForcedRefused, Resume, refreshVars
  <2>4. CASE Replay(c)
    BY <1>0, <2>4, NothingGot, MetadataRuns DEF Replay
  <2> QED BY <1>5, <2>1, <2>2, <2>3, <2>4 DEF Continuation
<1>6. ASSUME NEW c \in Call, Answer(c) PROVE TokenStep
  <2>1. CASE TokenEndpointOmitsToken(c)
    BY <1>0, <2>1 DEF TypeOK, TokenEndpointOmitsToken, Refuses, Reply
  <2>2. CASE TokenEndpointRefuses(c)
    BY <1>0, <2>2 DEF TypeOK, TokenEndpointRefuses, Refuses, Reply
  <2>3. CASE ApiAnswers(c)
    BY <1>0, <2>3, NothingGot, CatchRuns, RestRuns DEF ApiAnswers, refreshVars
  <2>4. CASE RevokeAnswers(c)
    BY <2>4 DEF RevokeAnswers, refreshVars
  <2> QED BY <1>6, <2>1, <2>2, <2>3, <2>4 DEF Answer
<1> QED
  BY <1>1, <1>2, <1>4, <1>5, <1>6
  DEF Next, Application, vars, refreshVars, callVars

(* What each kind of step does to the tokens on their way.                 *)

LEMMA OnItsWayType ==
  ASSUME TypeOK, NEW d \in Call, NEW t, Pending(post[d], t) \/ Obtained(got[d], t)
  PROVE  t \in Token
<1>1. CASE Pending(post[d], t)
  <2>1. post[d] \in Post
    BY <1>1 DEF TypeOK, Pending
  <2>2. post[d].reply \in Reply
    BY <1>1, <2>1 DEF Pending, Post
  <2> QED BY <1>1, <2>2 DEF Pending, Reply
<1>2. CASE Obtained(got[d], t)
  BY <1>2 DEF TypeOK, Obtained, Result
<1> QED BY <1>1, <1>2

LEMMA RunsTokens ==
  ASSUME TypeOK, NEW c \in Call, Runs(c)
  PROVE  \A d \in Call, t \in Token :
             /\ Pending(post'[d], t) => Pending(post[d], t) /\ post'[d] = post[d]
             /\ Obtained(got'[d], t) => Obtained(got[d], t)
  BY DEF TypeOK, Runs, Pending, Obtained

LEMMA StoresTokens ==
  ASSUME TypeOK, NEW c \in Call, Stores(c)
  PROVE  /\ \A d \in Call, t \in Token :
                /\ Pending(post'[d], t) => Pending(post[d], t)
                /\ Obtained(got'[d], t) => Obtained(got[d], t)
         /\ credentials' \in Credentials
         /\ credentials'.rt = credentials.rt /\ credentials'.exp = got[c].exp
         /\ credentials'.at # None => Obtained(got[c], credentials'.at)
<1>1. \A d \in Call, t \in Token :
          /\ Pending(post'[d], t) => Pending(post[d], t)
          /\ Obtained(got'[d], t) => Obtained(got[d], t)
  BY DEF TypeOK, Stores, Pending, Obtained
<1>2. got[c] \in Result
  BY DEF TypeOK, Stores
<1> QED
  BY <1>1, <1>2, RefreshedType DEF Stores, Refreshed, Obtained

LEMMA SettlesTokens ==
  ASSUME TypeOK, NEW c \in Call, RefreshSettles(c)
  PROVE  \A d \in Call, t \in Token :
           /\ Pending(post'[d], t) => Pending(post[d], t) /\ d # c /\ post'[d] = post[d]
           /\ Obtained(got'[d], t) => Pending(post[c], t) /\ awaiting[d] = c
           /\ ~Obtained(got[d], t)
<1>1. \A d \in Call : post'[d] = IF d = c THEN None ELSE post[d]
  BY DEF TypeOK, RefreshSettles
<1>2. \A d \in Call : got[d] = None
  BY DEF RefreshSettles, Ready
<1>3. \A d \in Call : got'[d] = IF awaiting[d] = c THEN Outcome(post[c].reply) ELSE None
  BY <1>2 DEF RefreshSettles
<1> QED
  BY <1>1, <1>2, <1>3 DEF RefreshSettles, Pending, Obtained, Outcome

(* The token that c is granted.                                            *)
GrantedTo(c, t) == /\ t \in Token
                   /\ t.rt = post[c].rt /\ t.serial = issued + 1

LEMMA AnswersTokens ==
  ASSUME TypeOK, NEW c \in Call, NEW reply \in Reply, TokenEndpointAnswers(c, reply)
  PROVE  /\ \A d \in Call, t \in Token : Pending(post'[d], t) =>
              \/ Pending(post[d], t) /\ post'[d] = post[d]
              \/ d = c /\ t = reply.token
         /\ \A d \in Call : /\ post'[d] = None <=> post[d] = None
                            /\ post[d] # None => post'[d].rt = post[d].rt
                            /\ got[d] = None /\ got'[d] = None
<1>1. post[c] \in Post
  BY DEF TypeOK, TokenEndpointAnswers
<1>2. post'[c] = [rt |-> post[c].rt, reply |-> reply]
  BY <1>1 DEF TypeOK, TokenEndpointAnswers, Post
<1>3. post'[c] # None
  BY <1>1, <1>2, ConstantsOk DEF ConstantsOk, Post
<1>4. \A d \in Call : d # c => post'[d] = post[d]
  BY DEF TypeOK, TokenEndpointAnswers
<1>5. \A d \in Call : got[d] = None /\ got'[d] = None
  BY DEF TokenEndpointAnswers, Ready, callVars
<1>6. post[c] # None
  BY DEF TokenEndpointAnswers
<1> QED BY <1>2, <1>3, <1>4, <1>5, <1>6 DEF Pending, Obtained

LEMMA GrantsTokens ==
  ASSUME TypeOK, NEW c \in Call, TokenEndpointGrants(c)
  PROVE  /\ \A d \in Call, t \in Token : Pending(post'[d], t) =>
              \/ Pending(post[d], t) /\ post'[d] = post[d]
              \/ d = c /\ GrantedTo(c, t)
         /\ \A d \in Call : /\ post'[d] = None <=> post[d] = None
                            /\ post[d] # None => post'[d].rt = post[d].rt
                            /\ got[d] = None /\ got'[d] = None
         /\ issued' = issued + 1 /\ credentials' = credentials /\ post[c] # None
         /\ UNCHANGED <<header, pc, retry, now>>
<1> PICK life \in Lifetimes :
      /\ post[c] # None
      /\ issued' = issued + 1
      /\ TokenEndpointAnswers(c,
           [status |-> "ok",
            token |-> [rt |-> post[c].rt, serial |-> issued + 1,
                       deadline |-> now + life],
            expires_in |-> IF ReportsExpiry THEN life ELSE 0,
            since |-> now])
  BY DEF TokenEndpointGrants
<1> DEFINE granted == [rt |-> post[c].rt, serial |-> issued + 1, deadline |-> now + life]
           reply == [status |-> "ok", token |-> granted,
                     expires_in |-> IF ReportsExpiry THEN life ELSE 0, since |-> now]
<1>1. granted \in Token
  BY ConstantsOk DEF ConstantsOk, TypeOK, Post, Token
<1>2. reply \in Reply
  BY <1>1, ConstantsOk DEF ConstantsOk, TypeOK, Reply
<1>3. TokenEndpointAnswers(c, reply)
  OBVIOUS
<1>4. reply.token = granted /\ GrantedTo(c, granted)
  BY <1>1 DEF GrantedTo
<1>5. credentials' = credentials /\ UNCHANGED <<header, pc, retry, now>>
  BY <1>3 DEF TokenEndpointAnswers, callVars
<1> HIDE DEF granted, reply
<1>6. /\ \A d \in Call, t \in Token : Pending(post'[d], t) =>
           \/ Pending(post[d], t) /\ post'[d] = post[d]
           \/ d = c /\ t = reply.token
      /\ \A d \in Call : /\ post'[d] = None <=> post[d] = None
                         /\ post[d] # None => post'[d].rt = post[d].rt
                         /\ got[d] = None /\ got'[d] = None
  BY <1>2, <1>3, AnswersTokens
<1> QED BY <1>4, <1>5, <1>6

LEMMA RefusesTokens ==
  ASSUME TypeOK, NEW c \in Call, Refuses(c)
  PROVE  /\ \A d \in Call, t \in Token :
              Pending(post'[d], t) => Pending(post[d], t) /\ post'[d] = post[d]
         /\ \A d \in Call : /\ post'[d] = None <=> post[d] = None
                            /\ post[d] # None => post'[d].rt = post[d].rt
                            /\ got[d] = None /\ got'[d] = None
         /\ UNCHANGED <<issued, credentials, header, pc, retry, now>>
<1> PICK reply \in Reply : reply.token = None /\ TokenEndpointAnswers(c, reply)
                           /\ UNCHANGED issued
  BY DEF Refuses
<1>1. UNCHANGED <<issued, credentials, header, pc, retry, now>>
  BY DEF TokenEndpointAnswers, callVars
<1>2. \A t \in Token : t # reply.token
  BY ConstantsOk DEF ConstantsOk
<1> QED BY <1>1, <1>2, AnswersTokens

-----------------------------------------------------------------------------
(* Tokens and accounts.  An application that replaces the credentials only *)
(* while no refresh runs, and stashes tokens beside the refresh token they *)
(* were granted for, finds every token on its way to be granted for the    *)
(* refresh token of the credentials.                                       *)

BelongInv ==
  /\ TokensBelongTogether
  /\ \A d \in Call : post[d] # None => post[d].rt = credentials.rt
  /\ \A d \in Call, t \in Token : Pending(post[d], t) \/ Obtained(got[d], t)
                                    => t.rt = credentials.rt

(* While the credentials are replaced no token is on its way.              *)
LEMMA QuietSwap ==
  ASSUME FlightInv, ~SwapsOverlap, MaySwap
  PROVE  \A d \in Call : post[d] = None /\ got[d] = None /\ pc[d] # "replay"
<1> SUFFICES ASSUME NEW d \in Call
             PROVE  post[d] = None /\ got[d] = None /\ pc[d] # "replay"
  OBVIOUS
<1>1. pc[d] \notin Waiting /\ pc[d] # "replay"
  BY DEF MaySwap
<1>2. Free(d) /\ got[d] = None
  BY <1>1 DEF FlightInv, RefreshInv, WaitersAwait, Free
<1> QED BY <1>1, <1>2, FreeCall

LEMMA BelongStep ==
  ASSUME FlightInv, BelongInv, TokenStep, ~SwapsOverlap,
         \A s \in Stashed : s.at # None => s.at.rt = s.rt
  PROVE  BelongInv'
<1>0. TypeOK
  BY DEF FlightInv
<1>1. CASE Installs
  <2>1. \A d \in Call : post'[d] = None /\ got'[d] = None
    BY <1>1, QuietSwap DEF Installs
  <2>2. credentials'.at # None => credentials'.at.rt = credentials'.rt
    BY <1>1 DEF Installs, NoCredentials
  <2> QED BY <2>1, <2>2 DEF BelongInv, TokensBelongTogether, Pending, Obtained
<1>2. CASE UNCHANGED <<credentials, post, got>>
  BY <1>2 DEF BelongInv, TokensBelongTogether, Pending, Obtained
<1>3. ASSUME NEW c \in Call, Runs(c) PROVE BelongInv'
  <2>1. \A d \in Call : post'[d] # None => post'[d].rt = credentials.rt
    BY <1>3 DEF Runs, BelongInv
  <2>2. credentials' = credentials
    BY <1>3 DEF Runs
  <2> QED
    BY <1>0, <1>3, <2>1, <2>2, RunsTokens DEF BelongInv, TokensBelongTogether
<1>4. ASSUME NEW c \in Call, Stores(c) PROVE BelongInv'
  <2>1. credentials'.rt = credentials.rt /\ post' = post
    BY <1>0, <1>4, StoresTokens DEF Stores, Pending, Obtained
  <2>2. credentials'.at # None => credentials'.at.rt = credentials.rt
    BY <1>0, <1>4, StoresTokens, OnItsWayType DEF BelongInv
  <2> QED
    BY <1>0, <1>4, <2>1, <2>2, StoresTokens DEF BelongInv, TokensBelongTogether
<1>5. ASSUME NEW c \in Call, RefreshSettles(c) PROVE BelongInv'
  <2>1. \A d \in Call : post'[d] # None => post'[d] = post[d]
    BY <1>0, <1>5 DEF TypeOK, RefreshSettles
  <2>2. credentials' = credentials
    BY <1>5 DEF RefreshSettles
  <2> QED
    BY <1>0, <1>5, <2>1, <2>2, SettlesTokens DEF BelongInv, TokensBelongTogether
<1>6. ASSUME NEW c \in Call, TokenEndpointGrants(c) PROVE BelongInv'
  <2>1. credentials' = credentials /\ post[c] # None
    BY <1>0, <1>6, GrantsTokens
  <2>2. \A d \in Call : post'[d] # None => post'[d].rt = credentials.rt
    BY <1>0, <1>6, GrantsTokens DEF BelongInv, Pending, Obtained
  <2>3. \A d \in Call, t \in Token : Pending(post'[d], t) \/ Obtained(got'[d], t)
                                       => t.rt = credentials.rt
    BY <1>0, <1>6, <2>1, GrantsTokens DEF BelongInv, GrantedTo
  <2> QED BY <2>1, <2>2, <2>3 DEF BelongInv, TokensBelongTogether
<1>7. ASSUME NEW c \in Call, Refuses(c) PROVE BelongInv'
  BY <1>0, <1>7, RefusesTokens DEF BelongInv, TokensBelongTogether, Pending, Obtained
<1> QED
  BY <1>1, <1>2, <1>3, <1>4, <1>5, <1>6, <1>7
  DEF TokenStep, Tick, refreshVars, callVars

(* The access token that the client holds was granted for the refresh      *)
(* token it holds beside it, if the application replaces the credentials   *)
(* only while no refresh runs: the stored refresh token is                 *)
(* this.credentials' at the time the waiter resumes.                       *)
THEOREM TokensAreOfTheAccount ==
  ASSUME ~SwapsOverlap, \A s \in Stashed : s.at # None => s.at.rt = s.rt
  PROVE  Spec => []TokensBelongTogether
<1>1. Init => BelongInv
  BY DEF Init, BelongInv, TokensBelongTogether, Pending, Obtained
<1>2. TypeOK /\ RefreshInv /\ BelongInv /\ [Next]_vars => BelongInv'
  BY TokenSteps, BelongStep DEF FlightInv
<1>3. BelongInv => TokensBelongTogether
  BY DEF BelongInv
<1> QED
  BY <1>1, <1>2, <1>3, TypeCorrect, RefreshesCorrect, PTL DEF Spec

-----------------------------------------------------------------------------
(* Tokens and their age.  Serial numbers order the grants; what the        *)
(* application stashes was granted before.                                 *)

AgeInv ==
  /\ credentials.at # None => credentials.at.serial <= issued
  /\ \A d \in Call, t \in Token :
       Pending(post[d], t) \/ Obtained(got[d], t)
         => /\ t.serial <= issued
            /\ credentials.at # None /\ credentials.at.rt = t.rt
                 => credentials.at.serial <= t.serial
  /\ \A d \in Call, t \in Token : Pending(post[d], t) => t.rt = post[d].rt
  /\ \A d, e \in Call, t, u \in Token :
       /\ Obtained(got[d], t) /\ Obtained(got[e], u) => t = u
       /\ Pending(post[d], t) /\ Obtained(got[e], u) => t.rt # u.rt

LEMMA AgeStep ==
  ASSUME FlightInv, AgeInv, TokenStep,
         \A s \in Stashed : s.at # None => s.at.serial = 0
  PROVE  AgeInv'
<1>0. /\ TypeOK /\ issued \in Nat /\ credentials \in Credentials
      /\ \A t \in Token : t.serial \in Nat
  BY DEF FlightInv, TypeOK, Token
<1>1. CASE Installs
  <2>1. credentials'.at # None => credentials'.at.serial = 0
    BY <1>1 DEF Installs, NoCredentials
  <2>2. UNCHANGED <<issued, post, got>>
    BY <1>1 DEF Installs
  <2> QED BY <1>0, <2>1, <2>2 DEF AgeInv, Pending, Obtained
<1>2. CASE UNCHANGED <<issued, credentials, post, got>>
  BY <1>2 DEF AgeInv, Pending, Obtained
<1>3. ASSUME NEW c \in Call, Runs(c) PROVE AgeInv'
  <2>1. UNCHANGED <<issued, credentials>>
    BY <1>3 DEF Runs
  <2> QED BY <1>0, <1>3, <2>1, RunsTokens DEF AgeInv, Pending, Obtained
<1>4. ASSUME NEW c \in Call, Stores(c) PROVE AgeInv'
  <2>1. UNCHANGED <<issued, post>>
    BY <1>4 DEF Stores
  <2>2. credentials'.at # None => credentials'.at \in Token /\ Obtained(got[c], credentials'.at)
    BY <1>0, <1>4, StoresTokens, OnItsWayType
  <2>3. \A d \in Call, t \in Token :
            /\ Pending(post'[d], t) => Pending(post[d], t)
            /\ Obtained(got'[d], t) => Obtained(got[d], t)
    BY <1>0, <1>4, StoresTokens
  <2>4. credentials'.at # None => credentials'.at.serial <= issued
    BY <2>2 DEF AgeInv
  <2>5. ASSUME NEW d \in Call, NEW t \in Token, Pending(post'[d], t) \/ Obtained(got'[d], t),
               credentials'.at # None /\ credentials'.at.rt = t.rt
        PROVE  credentials'.at.serial <= t.serial
    <3>1. CASE Obtained(got[d], t)
      <4>1. credentials'.at = t
        BY <2>2, <2>5, <3>1 DEF AgeInv
      <4> QED BY <1>0, <4>1
    <3>2. CASE Pending(post[d], t)
      BY <2>2, <2>5, <3>2 DEF AgeInv
    <3> QED BY <2>3, <2>5, <3>1, <3>2
  <2> QED BY <2>1, <2>3, <2>4, <2>5 DEF AgeInv, Pending, Obtained
<1>5. ASSUME NEW c \in Call, RefreshSettles(c) PROVE AgeInv'
  <2>1. UNCHANGED <<issued, credentials>> /\ post[c] # None
    BY <1>5 DEF RefreshSettles
  <2>2. \A d \in Call, t \in Token :
           /\ Pending(post'[d], t) => Pending(post[d], t) /\ d # c /\ post'[d] = post[d]
           /\ Obtained(got'[d], t) => Pending(post[c], t)
    BY <1>0, <1>5, SettlesTokens
  <2>3. \A d \in Call : post[d] # None /\ d # c => post[d].rt # post[c].rt
    BY <1>0, <2>1 DEF FlightInv, TypeOK, RefreshInv, PromisesMatchPosts, Post
  <2>4. ASSUME NEW d \in Call, NEW e \in Call, NEW t \in Token, NEW u \in Token
        PROVE  /\ Obtained(got'[d], t) /\ Obtained(got'[e], u) => t = u
               /\ Pending(post'[d], t) /\ Obtained(got'[e], u) => t.rt # u.rt
    <3>1. Obtained(got'[d], t) /\ Obtained(got'[e], u) => t = u
      BY <2>2 DEF Pending
    <3>2. ASSUME Pending(post'[d], t), Obtained(got'[e], u) PROVE t.rt # u.rt
      <4>1. Pending(post[d], t) /\ d # c /\ Pending(post[c], u)
        BY <2>2, <3>2
      <4>2. t.rt = post[d].rt /\ u.rt = post[c].rt /\ post[d] # None
        BY <4>1 DEF AgeInv, Pending
      <4> QED BY <2>3, <4>1, <4>2
    <3> QED BY <3>1, <3>2
  <2> QED BY <2>1, <2>2, <2>4 DEF AgeInv
<1>6. ASSUME NEW c \in Call, TokenEndpointGrants(c) PROVE AgeInv'
  <2>1. credentials' = credentials /\ issued' = issued + 1 /\ post[c] # None
    BY <1>0, <1>6, GrantsTokens
  <2>2. \A d \in Call, t \in Token :
              /\ Pending(post'[d], t) =>
                   \/ Pending(post[d], t) /\ post'[d] = post[d]
                   \/ d = c /\ GrantedTo(c, t)
              /\ post[d] # None => post'[d].rt = post[d].rt
              /\ ~Obtained(got'[d], t)
    BY <1>0, <1>6, GrantsTokens DEF Obtained
  <2>3. credentials.at # None => credentials.at.serial <= issued
                                 /\ credentials.at.serial \in Nat
    BY <1>0 DEF AgeInv, Credentials
  <2>4. credentials.at # None => credentials.at.serial <= issued + 1
    BY <1>0, <2>3
  <2>5. ASSUME NEW d \in Call, NEW t \in Token, Pending(post'[d], t)
        PROVE  /\ t.serial <= issued + 1
               /\ credentials.at # None /\ credentials.at.rt = t.rt
                    => credentials.at.serial <= t.serial
               /\ t.rt = post'[d].rt
    <3>1. CASE Pending(post[d], t) /\ post'[d] = post[d]
      <4>1. t.serial <= issued
        BY <3>1 DEF AgeInv
      <4>2. t.serial <= issued + 1
        BY <1>0, <4>1
      <4> QED BY <3>1, <4>2 DEF AgeInv
    <3>2. CASE d = c /\ GrantedTo(c, t)
      <4>1. t.serial = issued + 1 /\ t.rt = post'[d].rt
        BY <2>1, <2>2, <3>2 DEF GrantedTo
      <4> QED BY <1>0, <2>4, <4>1
    <3> QED BY <2>2, <2>5, <3>1, <3>2
  <2> QED BY <2>1, <2>2, <2>4, <2>5 DEF AgeInv
<1>7. ASSUME NEW c \in Call, Refuses(c) PROVE AgeInv'
  BY <1>0, <1>7, RefusesTokens DEF AgeInv
<1> QED
  BY <1>1, <1>2, <1>3, <1>4, <1>5, <1>6, <1>7
  DEF TokenStep, Tick, refreshVars, callVars

(* Several calls that refresh, join and resume in any order never take the *)
(* client back to an older grant of the same account: all the calls that   *)
(* are ready hold the answer of one refresh, and no other of the same      *)
(* account is answered until they have run.                                *)
THEOREM NeverBack ==
  ASSUME \A s \in Stashed : s.at # None => s.at.serial = 0
  PROVE  Spec => TokensNeverGoBack
<1>1. Init => AgeInv
  BY DEF Init, AgeInv, Pending, Obtained
<1>2. TypeOK /\ RefreshInv /\ AgeInv /\ [Next]_vars => AgeInv'
  BY TokenSteps, AgeStep DEF FlightInv
<1>3. TypeOK /\ RefreshInv /\ AgeInv /\ [Next]_vars =>
        [ LET old == credentials.at  new == credentials'.at IN
          swaps' = swaps /\ old # None /\ new # None /\ old.rt = new.rt
            => new.serial >= old.serial ]_vars
  <2> SUFFICES ASSUME FlightInv, AgeInv, TokenStep, swaps' = swaps,
                      credentials.at # None, credentials'.at # None,
                      credentials.at.rt = credentials'.at.rt
               PROVE  credentials'.at.serial >= credentials.at.serial
    BY TokenSteps DEF FlightInv
  <2>0. TypeOK /\ credentials.at.serial \in Nat
    BY DEF FlightInv, TypeOK, Credentials, Token
  <2>1. CASE credentials' = credentials
    BY <2>0, <2>1
  <2>2. CASE Installs
    BY <2>2 DEF Installs, NoCredentials
  <2>3. ASSUME NEW c \in Call, Stores(c)
        PROVE  credentials'.at.serial >= credentials.at.serial
    <3>1. Obtained(got[c], credentials'.at) /\ credentials'.at \in Token
      BY <2>0, <2>3, StoresTokens, OnItsWayType
    <3>2. credentials.at.serial <= credentials'.at.serial
      BY <3>1 DEF AgeInv
    <3>3. credentials'.at.serial \in Nat
      BY <3>1 DEF Token
    <3> QED BY <2>0, <3>2, <3>3
  <2> QED
    BY <2>0, <2>1, <2>2, <2>3, GrantsTokens, RefusesTokens
    DEF TokenStep, Runs, RefreshSettles, Tick
<1> QED
  BY <1>1, <1>2, <1>3, TypeCorrect, RefreshesCorrect, PTL
  DEF Spec, TokensNeverGoBack

-----------------------------------------------------------------------------
(* Tokens and headers.  A step lets one call move on, in one of these      *)
(* ways, or leaves the headers alone.                                      *)

OthersStand(c) ==
  \A e \in Call : e # c =>
    pc'[e] = pc[e] /\ header'[e] = header[e] /\ retry'[e] = retry[e]

Leaves(c) ==
  /\ Runs(c) \/ Installs
  /\ header'[c] = header[c]
  /\ pc'[c] \in {"sent", "done", "failed", "unauthorized", "revoking"}
  /\ pc'[c] = "sent" \/ (pc[c] = "replay" /\ pc'[c] = "done") => apiKey

UsesCached(c) ==
  /\ Runs(c) /\ Usable
  /\ header'[c] = credentials.at
  /\ pc'[c] \in {"sent", "done"}

AsksMetadata(c) ==
  /\ Runs(c)
  /\ pc[c] = "idle" \/ retry'[c]
  /\ header'[c] = header[c] /\ pc'[c] = "metadata"

AsksForced(c) ==
  /\ Runs(c)
  /\ pc[c] = "idle" \/ (pc[c] = "metadata" /\ ~retry[c]) \/ ~Ready
  /\ header'[c] = header[c] /\ pc'[c] = "forced"

UsesGot(c) ==
  /\ Stores(c) /\ pc[c] \in Waiting
  /\ header'[c] = got[c].at /\ pc'[c] \in {"sent", "done", "failed"}

WillReplay(c) ==
  /\ Stores(c) /\ pc[c] = "forced"
  /\ header'[c] = header[c] /\ pc'[c] = "replay"

Turns(c) ==
  /\ OthersStand(c)
  /\ \/ Leaves(c) \/ UsesCached(c) \/ AsksMetadata(c) \/ AsksForced(c)
     \/ UsesGot(c) \/ WillReplay(c)

Stays ==
  /\ UNCHANGED <<pc, header, retry>>
  /\ \/ Installs \/ Tick \/ UNCHANGED <<now, issued, credentials, post, got>>
     \/ \E c \in Call : RefreshSettles(c) \/ TokenEndpointGrants(c) \/ Refuses(c)

HeaderStep == Stays \/ \E c \in Call : Turns(c)

LEMMA MetadataTurns ==
  ASSUME TypeOK, NEW c \in Call, NEW k, getRequestMetadataAsync(c, k),
         pc[c] = "idle" \/ retry[c], UNCHANGED retry, Runs(c)
  PROVE  Turns(c)
<1>1. CASE Usable /\ Deliver(c, k, credentials.at)
  BY <1>1 DEF TypeOK, Deliver, Goto, Turns, UsesCached, OthersStand
<1>2. CASE apiKey /\ Deliver(c, k, header[c])
  BY <1>2 DEF TypeOK, Deliver, Goto, Turns, Leaves, OthersStand
<1>3. CASE Fail(c)
  BY <1>3 DEF TypeOK, Fail, Goto, Turns, Leaves, OthersStand
<1>4. CASE Goto(c, "metadata") /\ UNCHANGED header
  BY <1>4 DEF TypeOK, Goto, Turns, AsksMetadata, OthersStand
<1> QED BY <1>1, <1>2, <1>3, <1>4 DEF getRequestMetadataAsync

LEMMA ForcedTurns ==
  ASSUME TypeOK, NEW c \in Call, refreshAccessTokenAsync(c),
         pc[c] = "idle" \/ (pc[c] = "metadata" /\ ~retry[c]) \/ ~Ready,
         \A e \in Call : e # c => retry'[e] = retry[e], Runs(c)
  PROVE  Turns(c)
<1>1. CASE Goto(c, "failed") /\ UNCHANGED header
  BY <1>1 DEF TypeOK, Goto, Turns, Leaves, OthersStand
<1>2. CASE Goto(c, "forced") /\ UNCHANGED header
  BY <1>2 DEF TypeOK, Goto, Turns, AsksForced, OthersStand
<1> QED BY <1>1, <1>2 DEF refreshAccessTokenAsync

LEMMA LeavesTurns ==
  ASSUME TypeOK, NEW c \in Call, Runs(c) \/ Installs, UNCHANGED <<header, retry>>,
         NEW label \in {"done", "failed", "unauthorized", "revoking"}, Goto(c, label),
         pc[c] = "replay" => label # "done"
  PROVE  Turns(c)
  BY DEF TypeOK, Goto, Turns, Leaves, OthersStand

LEMMA CatchTurns ==
  ASSUME TypeOK, NEW c \in Call, NEW status, NEW streamed, Catch(c, status, streamed),
         pc[c] = "metadata" \/ ~Ready, Runs(c)
  PROVE  Turns(c)
<1>1. CASE /\ ~retry[c] /\ retry' = [retry EXCEPT ![c] = TRUE]
           /\ refreshAccessTokenAsync(c)
  <2>1. \A e \in Call : e # c => retry'[e] = retry[e]
    BY <1>1 DEF TypeOK
  <2> QED BY <1>1, <2>1, ForcedTurns
<1>2. CASE /\ \E label \in {"unauthorized", "failed"} : Goto(c, label)
           /\ UNCHANGED <<retry, header>>
  BY <1>2, LeavesTurns
<1> QED BY <1>1, <1>2 DEF Catch

LEMMA ApplicationTurns == FlightInv /\ Application => HeaderStep
<1> SUFFICES ASSUME FlightInv, Application PROVE HeaderStep
  OBVIOUS
<1> USE DEF HeaderStep
<1>0. TypeOK
  BY DEF FlightInv
<1>1. ASSUME NEW new \in Stashed, setCredentials(new) PROVE Stays
  BY <1>0, <1>1 DEF setCredentials, Installs, refreshVars, callVars, TypeOK, Stays
<1>2. ASSUME NEW c \in Call, NEW k, Begin(c, k)
      PROVE  pc[c] = "idle" /\ got' = [got EXCEPT ![c] = None] /\ UNCHANGED retry
  BY <1>2, NothingGot DEF Begin
<1>3. ASSUME NEW c \in Call, revokeCredentialsAsync(c) PROVE Turns(c)
  <2>1. Installs /\ UNCHANGED header
    BY <1>3 DEF revokeCredentialsAsync, Begin, Installs, refreshVars
  <2> QED BY <1>0, <1>2, <1>3, <2>1, LeavesTurns DEF revokeCredentialsAsync
<1>4. ASSUME NEW c \in Call, requestAsync(c) PROVE Turns(c)
  <2> PICK k : Begin(c, k) /\ getRequestMetadataAsync(c, k) /\ UNCHANGED credentials
    BY <1>4 DEF requestAsync
  <2>1. Runs(c)
    BY <1>0, <1>2, MetadataRuns DEF Begin
  <2> QED BY <1>0, <1>2, <2>1, MetadataTurns
<1>5. ASSUME NEW c \in Call, NEW k, Begin(c, k), UNCHANGED credentials,
             refreshAccessTokenAsync(c)
      PROVE  Turns(c)
  <2>1. Runs(c)
    BY <1>0, <1>2, <1>5, ForcedRuns DEF Begin
  <2> QED BY <1>0, <1>2, <1>5, <2>1, ForcedTurns
<1>6. ASSUME NEW c \in Call, getAccessTokenAsync(c) PROVE Turns(c)
  <2>1. CASE Usable /\ Deliver(c, "getAccessToken", credentials.at)
             /\ UNCHANGED refreshVars
    <3>1. Runs(c) /\ UNCHANGED retry
      BY <1>2, <1>6, <2>1, RestRuns DEF getAccessTokenAsync, Begin, refreshVars
    <3> QED
      BY <1>0, <2>1, <3>1 DEF TypeOK, Deliver, Goto, Turns, UsesCached, OthersStand
  <2> QED BY <1>5, <1>6, <2>1 DEF getAccessTokenAsync
<1>7. ASSUME NEW c \in Call, refreshAccessToken(c) PROVE Turns(c)
  BY <1>5, <1>7 DEF refreshAccessToken
<1> QED BY <1>1, <1>3, <1>4, <1>6, <1>7 DEF Application

LEMMA ContinuationTurns ==
  ASSUME FlightInv, EffortInv, NEW c \in Call, Continuation(c) PROVE Turns(c)
<1> USE DEF Resume
<1>0. TypeOK
  BY DEF FlightInv
<1>1. CASE MetadataRefreshed(c)
  <2>1. Stores(c)
    BY <1>1 DEF MetadataRefreshed, Stores, refreshVars
  <2> QED
    BY <1>0, <1>1, <2>1
    DEF MetadataRefreshed, TypeOK, Deliver, Goto, Turns, UsesGot, OthersStand
<1>2. CASE MetadataRefused(c)
  <2>1. Runs(c)
    BY <1>0, <1>2, CatchRuns, RestRuns DEF MetadataRefused, refreshVars
  <2> QED
    BY <1>0, <1>2, <2>1, CatchTurns, LeavesTurns DEF MetadataRefused, Fail
<1>3. CASE ForcedRefreshed(c)
  <2>1. Stores(c)
    BY <1>3 DEF ForcedRefreshed, Stores, refreshVars
  <2> QED
    BY <1>0, <1>3, <2>1
    DEF ForcedRefreshed, TypeOK, Goto, Turns, UsesGot, WillReplay, OthersStand
<1>4. CASE ForcedRefused(c)
  <2>1. Runs(c)
    BY <1>4, RestRuns DEF ForcedRefused, refreshVars
  <2> QED BY <1>0, <1>4, <2>1, LeavesTurns DEF ForcedRefused, Fail
<1>5. CASE Replay(c)
  <2>1. retry[c] /\ UNCHANGED retry
    BY <1>0, <1>5, EffortNumbers DEF Replay, Effort
  <2>2. Runs(c)
    BY <1>0, <1>5, NothingGot, MetadataRuns DEF Replay
  <2> QED BY <1>0, <1>5, <2>1, <2>2, MetadataTurns DEF Replay
<1> QED BY <1>1, <1>2, <1>3, <1>4, <1>5 DEF Continuation

LEMMA AnswerTurns ==
  ASSUME FlightInv, NEW c \in Call, Answer(c) PROVE HeaderStep
<1> USE DEF HeaderStep, Stays
<1>0. TypeOK
  BY DEF FlightInv
<1>1. CASE RefreshSettles(c)
  BY <1>1 DEF RefreshSettles
<1>2. CASE TokenEndpointGrants(c)
  BY <1>0, <1>2, GrantsTokens
<1>3. CASE TokenEndpointOmitsToken(c) \/ TokenEndpointRefuses(c)
  <2>1. Refuses(c)
    BY <1>0, <1>3
    DEF TypeOK, TokenEndpointOmitsToken, TokenEndpointRefuses, Refuses, Reply
  <2> QED BY <1>0, <2>1, RefusesTokens
<1>4. CASE ApiAnswers(c)
  <2>1. Runs(c)
    BY <1>0, <1>4, NothingGot, CatchRuns, RestRuns DEF ApiAnswers, refreshVars
  <2>2. Turns(c)
    BY <1>0, <1>4, <2>1, CatchTurns, LeavesTurns DEF ApiAnswers
  <2> QED BY <2>2
<1>5. CASE RevokeAnswers(c)
  <2>1. Runs(c)
    BY <1>5, NothingGot, RestRuns DEF RevokeAnswers, refreshVars
  <2>2. Turns(c)
    BY <1>0, <1>5, <2>1, LeavesTurns DEF RevokeAnswers
  <2> QED BY <2>2
<1> QED BY <1>1, <1>2, <1>3, <1>4, <1>5 DEF Answer

LEMMA HeaderSteps == FlightInv /\ EffortInv /\ [Next]_vars => HeaderStep
<1> SUFFICES ASSUME FlightInv, EffortInv, [Next]_vars PROVE HeaderStep
  OBVIOUS
<1>1. CASE Tick \/ UNCHANGED vars
  BY <1>1 DEF Tick, vars, refreshVars, callVars, HeaderStep, Stays
<1>2. ASSUME NEW c \in Call, Continuation(c) PROVE HeaderStep
  BY <1>2, ContinuationTurns DEF HeaderStep
<1> QED BY <1>1, <1>2, ApplicationTurns, AnswerTurns DEF Next

-----------------------------------------------------------------------------
(* A token on its way is in no header yet; one that a call is ready to     *)
(* take is not the one that a call waiting for its forced refresh was      *)
(* turned down with; and what the client holds when a request is replayed  *)
(* is not the token it was sent with.                                      *)

FreshInv ==
  /\ \A c \in Call : header[c] # None => header[c].serial <= issued
  /\ \A d \in Call, t \in Token : Pending(post[d], t) =>
       /\ credentials.at # t
       /\ \A c \in Call : header[c] # t /\ ~Obtained(got[c], t)
  /\ \A d, c \in Call, t \in Token :
       Obtained(got[d], t) /\ pc[c] \in {"forced", "replay"} => header[c] # t
  /\ \A c \in Call :
       /\ pc[c] = "replay" /\ credentials.at # None => credentials.at # header[c]
       /\ pc[c] = "idle" => header[c] = None
       /\ pc[c] = "metadata" /\ ~retry[c] => header[c] = None

(* A step that leaves the headers alone.                                   *)
LEMMA FreshStays ==
  ASSUME FlightInv, AgeInv, FreshInv, Stays, ~SwapsOverlap
  PROVE  FreshInv'
<1>0. /\ TypeOK /\ issued \in Nat /\ credentials \in Credentials
      /\ \A c \in Call : header[c] \in Token \union {None}
      /\ \A t \in Token : t.serial \in Nat
  BY DEF FlightInv, TypeOK, Token
<1>00. UNCHANGED <<pc, header, retry>>
  BY DEF Stays
<1>1. CASE Installs
  <2>1. \A d \in Call : post[d] = None /\ got[d] = None /\ pc[d] # "replay"
    BY <1>1, QuietSwap DEF Installs
  <2>2. UNCHANGED <<issued, post, got>>
    BY <1>1 DEF Installs
  <2> QED BY <1>00, <2>1, <2>2 DEF FreshInv, Pending, Obtained
<1>2. CASE UNCHANGED <<issued, credentials, post, got>>
  BY <1>00, <1>2 DEF FreshInv, Pending, Obtained
<1>3. ASSUME NEW c \in Call, RefreshSettles(c) PROVE FreshInv'
  <2>1. UNCHANGED <<issued, credentials>> /\ post[c] # None
    BY <1>3 DEF RefreshSettles
  <2>2. \A d \in Call, t \in Token :
           /\ Pending(post'[d], t) => Pending(post[d], t) /\ d # c
           /\ Obtained(got'[d], t) => Pending(post[c], t)
    BY <1>0, <1>3, SettlesTokens
  <2>3. \A d \in Call : post[d] # None /\ d # c => post[d].rt # post[c].rt
    BY <1>0, <2>1 DEF FlightInv, TypeOK, RefreshInv, PromisesMatchPosts, Post
  <2>4. \A d, e \in Call, t \in Token : Pending(post'[d], t) => ~Obtained(got'[e], t)
    BY <2>2, <2>3 DEF AgeInv, Pending
  <2>5. \A d, e \in Call, t \in Token : Obtained(got'[d], t) => header[e] # t
    BY <2>2 DEF FreshInv
  <2> QED BY <1>00, <2>1, <2>2, <2>4, <2>5 DEF FreshInv
<1>4. ASSUME NEW c \in Call, TokenEndpointGrants(c) PROVE FreshInv'
  <2>1. credentials' = credentials /\ issued' = issued + 1
    BY <1>0, <1>4, GrantsTokens
  <2>2. \A d \in Call, t \in Token :
            /\ Pending(post'[d], t) => Pending(post[d], t) \/ GrantedTo(c, t)
            /\ ~Obtained(got'[d], t)
    BY <1>0, <1>4, GrantsTokens DEF Obtained
  <2>3. \A t \in Token : GrantedTo(c, t) =>
          credentials.at # t /\ \A e \in Call : header[e] # t
    <3> SUFFICES ASSUME NEW t \in Token, GrantedTo(c, t)
                 PROVE  credentials.at # t /\ \A e \in Call : header[e] # t
      OBVIOUS
    <3>1. t.serial = issued + 1 /\ ~(t.serial <= issued) /\ t # None
      BY <1>0, ConstantsOk DEF GrantedTo, ConstantsOk
    <3> QED BY <3>1 DEF AgeInv, FreshInv
  <2>4. \A e \in Call : header[e] # None => header[e].serial <= issued + 1
    <3> SUFFICES ASSUME NEW e \in Call, header[e] # None
                 PROVE  header[e].serial <= issued + 1
      OBVIOUS
    <3>1. header[e].serial <= issued /\ header[e].serial \in Nat
      BY <1>0 DEF FreshInv
    <3> QED BY <1>0, <3>1
  <2> QED BY <1>00, <2>1, <2>2, <2>3, <2>4 DEF FreshInv
<1>5. ASSUME NEW c \in Call, Refuses(c) PROVE FreshInv'
  BY <1>0, <1>5, RefusesTokens DEF FreshInv
<1> QED
  BY <1>1, <1>2, <1>3, <1>4, <1>5 DEF Stays, Tick, refreshVars, callVars

(* What FreshInv says of one call's header, kept by every other call.      *)
LEMMA FreshRuns ==
  ASSUME FlightInv, AgeInv, FreshInv, NEW c \in Call, Runs(c), OthersStand(c),
         header'[c] # None => header'[c].serial <= issued,
         header'[c] = header[c] \/ header'[c] = credentials.at,
         pc'[c] \notin {"idle", "replay"},
         pc'[c] = "metadata" /\ ~retry'[c] => header'[c] = None,
         \A d \in Call, t \in Token : Obtained(got[d], t) /\ pc'[c] = "forced" => header'[c] # t
  PROVE  FreshInv'
<1>0. TypeOK
  BY DEF FlightInv
<1>1. \A d \in Call, t \in Token :
          /\ Pending(post'[d], t) => Pending(post[d], t)
          /\ Obtained(got'[d], t) => Obtained(got[d], t)
  BY <1>0, RunsTokens DEF Pending, Obtained
<1>2. UNCHANGED <<issued, credentials>>
  BY DEF Runs
<1>3. \A e \in Call : header'[e] # None => header'[e].serial <= issued
  BY DEF FreshInv, OthersStand
<1>4. \A d \in Call, t \in Token : Pending(post'[d], t) =>
        /\ credentials.at # t
        /\ \A e \in Call : header'[e] # t /\ ~Obtained(got'[e], t)
  BY <1>1 DEF FreshInv, OthersStand, Pending, Obtained
<1>5. \A d, e \in Call, t \in Token :
        Obtained(got'[d], t) /\ pc'[e] \in {"forced", "replay"} => header'[e] # t
  BY <1>1 DEF FreshInv, OthersStand, Pending, Obtained
<1>6. \A e \in Call :
       /\ pc'[e] = "replay" /\ credentials.at # None => credentials.at # header'[e]
       /\ pc'[e] = "idle" => header'[e] = None
       /\ pc'[e] = "metadata" /\ ~retry'[e] => header'[e] = None
  BY DEF FreshInv, OthersStand
<1> QED BY <1>2, <1>3, <1>4, <1>5, <1>6 DEF FreshInv

LEMMA FreshStores ==
  ASSUME FlightInv, AgeInv, FreshInv, NEW c \in Call, Stores(c), OthersStand(c),
         header'[c] = header[c] \/ header'[c] = got[c].at,
         pc'[c] \notin {"idle", "metadata", "forced"},
         pc'[c] = "replay" => pc[c] = "forced" /\ header'[c] = header[c]
  PROVE  FreshInv'
<1>0. TypeOK /\ got[c] \in Result
  BY DEF FlightInv, Stores, TypeOK
<1>1. /\ \A d \in Call, t \in Token :
             /\ Pending(post'[d], t) => Pending(post[d], t)
             /\ Obtained(got'[d], t) => Obtained(got[d], t)
      /\ credentials'.at = got[c].at
  BY <1>0, StoresTokens DEF Stores, Refreshed
<1>2. UNCHANGED issued
  BY DEF Stores
<1>3. got[c].at # None => Obtained(got[c], got[c].at) /\ got[c].at \in Token
  BY <1>0 DEF Obtained, Stores, Result
<1>4. \A e \in Call : header'[e] # None => header'[e].serial <= issued
  BY <1>3 DEF FreshInv, AgeInv, OthersStand
<1>5. \A d \in Call, t \in Token : Pending(post'[d], t) =>
        /\ credentials'.at # t
        /\ \A e \in Call : header'[e] # t /\ ~Obtained(got'[e], t)
  <2> SUFFICES ASSUME NEW d \in Call, NEW t \in Token, Pending(post[d], t)
               PROVE  /\ got[c].at # t
                      /\ \A e \in Call : header'[e] # t /\ ~Obtained(got'[e], t)
    BY <1>1 DEF Pending, Obtained
  <2>1. got[c].at # t
    BY <1>3 DEF FreshInv, Pending
  <2> QED BY <1>1, <2>1 DEF FreshInv, OthersStand, Pending, Obtained
<1>6. \A d, e \in Call, t \in Token :
        Obtained(got'[d], t) /\ pc'[e] \in {"forced", "replay"} => header'[e] # t
  BY <1>1 DEF FreshInv, OthersStand, Pending, Obtained
<1>7. \A e \in Call :
       /\ pc'[e] = "replay" /\ credentials'.at # None => credentials'.at # header'[e]
       /\ pc'[e] = "idle" => header'[e] = None
       /\ pc'[e] = "metadata" /\ ~retry'[e] => header'[e] = None
  BY <1>1, <1>3 DEF FreshInv, OthersStand
<1> QED BY <1>2, <1>4, <1>5, <1>6, <1>7 DEF FreshInv

LEMMA FreshInstalls ==
  ASSUME FlightInv, FreshInv, NEW c \in Call, Installs, OthersStand(c), Leaves(c),
         ~SwapsOverlap
  PROVE  FreshInv'
<1>1. \A d \in Call : post[d] = None /\ got[d] = None /\ pc[d] # "replay"
  BY QuietSwap DEF Installs
<1>2. UNCHANGED <<issued, post, got>>
  BY DEF Installs
<1>3. \A e \in Call : header'[e] = header[e]
  BY DEF OthersStand, Leaves
<1> QED BY <1>1, <1>2, <1>3 DEF FreshInv, Pending, Obtained, OthersStand, Leaves

LEMMA FreshTurns ==
  ASSUME FlightInv, AgeInv, FreshInv, NEW c \in Call, Turns(c), ~SwapsOverlap
  PROVE  FreshInv'
<1>0. header[c] # None => header[c].serial <= issued
  BY DEF FreshInv
<1>1. CASE Leaves(c)
  BY <1>0, <1>1, FreshRuns, FreshInstalls DEF Leaves, Turns
<1>2. CASE UsesCached(c)
  <2>1. header'[c] # None => header'[c].serial <= issued
    BY <1>2 DEF UsesCached, AgeInv
  <2> QED BY <1>2, <2>1, FreshRuns DEF UsesCached, Turns
<1>3. CASE AsksMetadata(c)
  <2>1. ~retry'[c] => header'[c] = None
    BY <1>3 DEF AsksMetadata, FreshInv
  <2> QED BY <1>0, <1>3, <2>1, FreshRuns DEF AsksMetadata, Turns
<1>4. CASE AsksForced(c)
  <2>1. \A d \in Call, t \in Token : Obtained(got[d], t) => header'[c] # t
    <3>1. CASE pc[c] = "idle" \/ (pc[c] = "metadata" /\ ~retry[c])
      BY <1>4, <3>1, ConstantsOk DEF AsksForced, FreshInv, ConstantsOk
    <3>2. CASE ~Ready
      BY <3>2 DEF Ready, Obtained
    <3> QED BY <1>4, <3>1, <3>2 DEF AsksForced
  <2> QED BY <1>0, <1>4, <2>1, FreshRuns DEF AsksForced, Turns
<1>5. CASE UsesGot(c)
  BY <1>5, FreshStores DEF UsesGot, Turns
<1>6. CASE WillReplay(c)
  BY <1>6, FreshStores DEF WillReplay, Turns
<1> QED BY <1>1, <1>2, <1>3, <1>4, <1>5, <1>6 DEF Turns

(* All of it together: what the next two theorems rest on.                 *)
CallInv == TypeOK /\ RefreshInv /\ EffortInv /\ AgeInv /\ FreshInv

LEMMA CallInvariant ==
  ASSUME ~SwapsOverlap, \A s \in Stashed : s.at # None => s.at.serial = 0
  PROVE  Spec => []CallInv
<1>1. Init => EffortInv /\ AgeInv /\ FreshInv
  BY EffortInit DEF Init, AgeInv, FreshInv, Pending, Obtained
<1>2. TypeOK /\ RefreshInv /\ EffortInv /\ AgeInv /\ FreshInv /\ [Next]_vars
        => EffortInv' /\ AgeInv' /\ FreshInv'
  BY EffortNext, TokenSteps, AgeStep, HeaderSteps, FreshStays, FreshTurns
  DEF FlightInv, HeaderStep
<1> QED
  BY <1>1, <1>2, TypeCorrect, RefreshesCorrect, PTL DEF Spec, CallInv

(* Without an API key, a request that was sent and is replayed carries     *)
(* another access token than the one that was turned down, if the          *)
(* credentials are replaced only while no refresh runs.                    *)
THEOREM ReplayIsNew ==
  ASSUME ~SwapsOverlap, \A s \in Stashed : s.at # None => s.at.serial = 0
  PROVE  Spec => ReplayUsesANewToken
<1>1. CallInv /\ [Next]_vars =>
        [ \A c \in Call :
            /\ pc[c] = "replay" /\ pc'[c] = "sent" /\ sends[c] = 1 /\ ~apiKey
            => header'[c] # header[c] ]_vars
  <2> SUFFICES ASSUME CallInv, HeaderStep, NEW c \in Call,
                      pc[c] = "replay", pc'[c] = "sent", ~apiKey
               PROVE  header'[c] # header[c]
    BY HeaderSteps DEF CallInv, FlightInv
  <2>1. Turns(c)
    BY DEF HeaderStep, Stays, Turns, OthersStand
  <2>2. UsesCached(c)
    BY <2>1 DEF Turns, Leaves, AsksMetadata, AsksForced, UsesGot, WillReplay
  <2>3. header'[c] = credentials.at /\ credentials.at # None
    BY <2>2 DEF UsesCached, Usable
  <2> QED BY <2>3 DEF CallInv, FreshInv
<1> QED
  BY <1>1, CallInvariant, PTL DEF Spec, ReplayUsesANewToken

-----------------------------------------------------------------------------
(* Tokens and their end.  expiry_date counts from the arrival of the       *)
(* answer, which is at most MaxLatency after the grant.                    *)

Late(t, exp) == exp # 0 => exp <= t.deadline + Threshold

LiveInv ==
  /\ credentials.at # None => Late(credentials.at, credentials.exp)
  /\ \A d \in Call : got[d] # None /\ got[d].at # None => Late(got[d].at, got[d].exp)
  /\ \A d \in Call : post[d] # None /\ post[d].reply # None =>
       /\ now <= post[d].reply.since + MaxLatency
       /\ post[d].reply.token # None /\ post[d].reply.expires_in > 0
            => post[d].reply.since + post[d].reply.expires_in
                 <= post[d].reply.token.deadline

LEMMA LiveSettles ==
  ASSUME TypeOK, LiveInv, NEW c \in Call, RefreshSettles(c), MaxLatency <= Threshold
  PROVE  LiveInv'
<1> DEFINE reply == post[c].reply
<1>1. /\ post[c] # None /\ reply # None /\ reply \in Reply
      /\ UNCHANGED <<now, credentials>>
  BY DEF RefreshSettles, TypeOK, Post
<1>2. \A d \in Call : post'[d] = None \/ post'[d] = post[d]
  BY DEF TypeOK, RefreshSettles
<1>3. \A d \in Call : got'[d] = Outcome(reply) \/ got'[d] = None
  BY DEF TypeOK, RefreshSettles, Ready
<1>4. reply.token # None => Late(reply.token, Outcome(reply).exp)
  <2> SUFFICES ASSUME reply.token # None, reply.expires_in > 0
               PROVE  now + reply.expires_in <= reply.token.deadline + Threshold
    BY DEF Outcome, Late
  <2>1. /\ now <= reply.since + MaxLatency
        /\ reply.since + reply.expires_in <= reply.token.deadline
    BY <1>1 DEF LiveInv
  <2>2. /\ {now, reply.since, reply.expires_in} \subseteq Nat
        /\ reply.token.deadline \in Nat
    BY <1>1 DEF TypeOK, Reply, Token
  <2> HIDE DEF reply
  <2> QED BY <2>1, <2>2, ConstantsOk DEF ConstantsOk
<1>5. Outcome(reply).at = reply.token
  BY DEF Outcome
<1> HIDE DEF reply
<1> QED BY <1>1, <1>2, <1>3, <1>4, <1>5 DEF LiveInv

LEMMA LiveAnswers ==
  ASSUME TypeOK, LiveInv, NEW c \in Call, NEW reply \in Reply,
         TokenEndpointAnswers(c, reply), reply.since = now,
         reply.token # None /\ reply.expires_in > 0
           => now + reply.expires_in <= reply.token.deadline
  PROVE  LiveInv'
<1>1. UNCHANGED <<now, credentials, got>>
  BY DEF TokenEndpointAnswers, callVars
<1>2. \A d \in Call : d # c => post'[d] = post[d]
  BY DEF TypeOK, TokenEndpointAnswers
<1>3. post'[c].reply = reply
  BY DEF TypeOK, TokenEndpointAnswers, Post
<1>4. now <= now + MaxLatency
  BY ConstantsOk DEF TypeOK, ConstantsOk
<1> QED BY <1>1, <1>2, <1>3, <1>4 DEF LiveInv

LEMMA LiveGrants ==
  ASSUME TypeOK, LiveInv, NEW c \in Call, TokenEndpointGrants(c)
  PROVE  LiveInv'
<1> PICK life \in Lifetimes :
      TokenEndpointAnswers(c,
           [status |-> "ok",
            token |-> [rt |-> post[c].rt, serial |-> issued + 1,
                       deadline |-> now + life],
            expires_in |-> IF ReportsExpiry THEN life ELSE 0,
            since |-> now])
  BY DEF TokenEndpointGrants
<1> DEFINE token == [rt |-> post[c].rt, serial |-> issued + 1, deadline |-> now + life]
           reply == [status |-> "ok", token |-> token,
                     expires_in |-> IF ReportsExpiry THEN life ELSE 0, since |-> now]
<1>1. token \in Token /\ token.deadline = now + life
  BY ConstantsOk DEF ConstantsOk, TypeOK, TokenEndpointGrants, Post, Token
<1>2. reply \in Reply /\ reply.token = token /\ reply.since = now
      /\ (reply.expires_in > 0 => reply.expires_in = life)
  BY <1>1, ConstantsOk DEF ConstantsOk, TypeOK, Reply
<1>3. reply.expires_in > 0 => now + reply.expires_in <= token.deadline
  BY <1>1, <1>2, ConstantsOk DEF TypeOK, ConstantsOk
<1>4. TokenEndpointAnswers(c, reply)
  OBVIOUS
<1> HIDE DEF token, reply
<1> QED BY <1>2, <1>3, <1>4, LiveAnswers

LEMMA LiveStep ==
  ASSUME TypeOK, LiveInv, [Next]_vars, TokenStep, MaxLatency <= Threshold,
         \A s \in Stashed : s.at # None => Late(s.at, s.exp)
  PROVE  LiveInv'
<1>1. CASE Installs
  BY <1>1 DEF Installs, NoCredentials, LiveInv
<1>2. CASE UNCHANGED <<now, credentials, post, got>>
  BY <1>2 DEF LiveInv
<1>3. CASE Tick
  <2>1. ASSUME NEW d \in Call, post[d] # None, post[d].reply # None
        PROVE  now' <= post[d].reply.since + MaxLatency
    <3>1. post[d].reply.since \in Nat
      BY <2>1 DEF TypeOK, Post, Reply
    <3>2. now < post[d].reply.since + MaxLatency /\ now' = now + 1
      BY <1>3, <2>1 DEF Tick
    <3> QED BY <3>1, <3>2, ConstantsOk DEF TypeOK, ConstantsOk
  <2> QED BY <1>3, <2>1 DEF LiveInv, Tick, refreshVars, callVars
<1>4. ASSUME NEW c \in Call, Runs(c) PROVE LiveInv'
  BY <1>4 DEF TypeOK, Runs, LiveInv
<1>5. ASSUME NEW c \in Call, Stores(c) PROVE LiveInv'
  BY <1>5 DEF TypeOK, Stores, Refreshed, LiveInv
<1>6. ASSUME NEW c \in Call, Refuses(c) PROVE LiveInv'
  BY <1>6, LiveAnswers DEF Refuses
<1> QED
  BY <1>1, <1>2, <1>3, <1>4, <1>5, <1>6, LiveSettles, LiveGrants DEF TokenStep

LEMMA LiveInvariant ==
  ASSUME MaxLatency <= Threshold,
         \A s \in Stashed : s.at # None => Late(s.at, s.exp)
  PROVE  Spec => []LiveInv
<1>1. Init => LiveInv
  BY DEF Init, LiveInv
<1>2. TypeOK /\ RefreshInv /\ LiveInv /\ [Next]_vars => LiveInv'
  BY TokenSteps, LiveStep DEF FlightInv
<1> QED
  BY <1>1, <1>2, TypeCorrect, RefreshesCorrect, PTL DEF Spec

(* The eager threshold makes up for the latency by which expiry_date is    *)
(* late.                                                                   *)
LEMMA UsedIsLive ==
  ASSUME TypeOK, LiveInv, NEW c \in Call, UsesCached(c), credentials.exp # 0
  PROVE  header'[c].deadline > now
<1>1. header'[c] = credentials.at /\ credentials.at # None
  BY DEF UsesCached, Usable
<1>2. /\ ~(credentials.exp <= now + Threshold)
      /\ credentials.exp <= credentials.at.deadline + Threshold
  BY <1>1 DEF UsesCached, Usable, isTokenExpiring, LiveInv, Late
<1>3. {now, credentials.exp, credentials.at.deadline} \subseteq Nat
  BY <1>1 DEF TypeOK, Credentials, Token
<1>4. credentials.at.deadline > now
  BY <1>2, <1>3, ConstantsOk DEF ConstantsOk
<1> QED BY <1>1, <1>4

(* A call that uses the cached access token without a refresh uses one     *)
(* that the endpoint still accepts, if the credentials are replaced only   *)
(* while no refresh runs.                                                  *)
THEOREM CachedIsLive ==
  ASSUME ~SwapsOverlap, \A s \in Stashed : s.at # None => s.at.serial = 0,
         MaxLatency <= Threshold,
         \A s \in Stashed : s.at # None => Late(s.at, s.exp)
  PROVE  Spec => CachedTokenIsLive
<1>1. CallInv /\ LiveInv /\ [Next]_vars =>
        [ \A c \in Call :
            /\ pc[c] \in {"idle", "replay"} /\ pc'[c] \in {"sent", "done"}
            /\ header'[c] # None /\ header'[c] = credentials.at
            /\ credentials.exp # 0
            => header'[c].deadline > now ]_vars
  <2> SUFFICES ASSUME CallInv, LiveInv, HeaderStep, NEW c \in Call,
                      pc[c] \in {"idle", "replay"}, pc'[c] \in {"sent", "done"},
                      header'[c] # None, header'[c] = credentials.at,
                      credentials.exp # 0
               PROVE  header'[c].deadline > now
    BY HeaderSteps DEF CallInv, FlightInv
  <2>1. Turns(c)
    BY DEF HeaderStep, Stays, Turns, OthersStand
  <2>2. header[c] # credentials.at
    BY DEF CallInv, FreshInv
  <2>3. UsesCached(c)
    BY <2>1, <2>2 DEF Turns, Leaves, AsksMetadata, AsksForced, UsesGot, WillReplay
  <2> QED BY <2>3, UsedIsLive DEF CallInv
<1> QED
  BY <1>1, CallInvariant, LiveInvariant, PTL DEF Spec, CachedTokenIsLive

(* Without an API key no request goes out with an old header, and the      *)
(* application may replace the credentials at any time.                    *)
KeylessInv ==
  /\ ~apiKey
  /\ \A c \in Call : pc[c] = "idle" => header[c] = None

LEMMA KeyStays == [Next]_vars => UNCHANGED apiKey
<1> SUFFICES ASSUME [Next]_vars PROVE UNCHANGED apiKey
  OBVIOUS
<1>1. CASE Application
  BY <1>1
  DEF Application, setCredentials, revokeCredentialsAsync, requestAsync,
      getAccessTokenAsync, refreshAccessToken, Begin
<1>2. ASSUME NEW c \in Call, Continuation(c) PROVE UNCHANGED apiKey
  BY <1>2
  DEF Continuation, MetadataRefreshed, MetadataRefused, ForcedRefreshed,
      ForcedRefused, Replay, Resume
<1>3. ASSUME NEW c \in Call, Answer(c) PROVE UNCHANGED apiKey
  BY <1>3
  DEF Answer, RefreshSettles, TokenEndpointGrants, TokenEndpointOmitsToken,
      TokenEndpointRefuses, TokenEndpointAnswers, ApiAnswers, RevokeAnswers
<1> QED BY <1>1, <1>2, <1>3 DEF Next, vars, Tick

(* Of a client without API key: a call that uses the cached access token   *)
(* without a refresh uses one that the endpoint still accepts, whenever    *)
(* the application replaces the credentials.                               *)
THEOREM CachedIsLiveWithoutKey ==
  ASSUME TRUE \notin ApiKeys, MaxLatency <= Threshold,
         \A s \in Stashed : s.at # None => Late(s.at, s.exp)
  PROVE  Spec => CachedTokenIsLive
<1>1. Init => KeylessInv
  BY ConstantsOk DEF Init, ConstantsOk, KeylessInv
<1>2. FlightInv /\ EffortInv /\ KeylessInv /\ [Next]_vars => KeylessInv'
  <2> SUFFICES ASSUME TypeOK, KeylessInv, HeaderStep, UNCHANGED apiKey
               PROVE  KeylessInv'
    BY HeaderSteps, KeyStays DEF FlightInv
  <2>1. CASE Stays
    BY <2>1 DEF Stays, KeylessInv
  <2>2. ASSUME NEW c \in Call, Turns(c) PROVE KeylessInv'
    <3>1. pc'[c] # "idle"
      BY <2>2
      DEF Turns, Leaves, UsesCached, AsksMetadata, AsksForced, UsesGot, WillReplay
    <3> QED BY <2>2, <3>1 DEF Turns, OthersStand, KeylessInv
  <2> QED BY <2>1, <2>2 DEF HeaderStep
<1>3. FlightInv /\ EffortInv /\ KeylessInv /\ LiveInv /\ [Next]_vars =>
        [ \A c \in Call :
            /\ pc[c] \in {"idle", "replay"} /\ pc'[c] \in {"sent", "done"}
            /\ header'[c] # None /\ header'[c] = credentials.at
            /\ credentials.exp # 0
            => header'[c].deadline > now ]_vars
  <2> SUFFICES ASSUME TypeOK, KeylessInv, LiveInv, HeaderStep, NEW c \in Call,
                      pc[c] \in {"idle", "replay"}, pc'[c] \in {"sent", "done"},
                      header'[c] # None, header'[c] = credentials.at,
                      credentials.exp # 0
               PROVE  header'[c].deadline > now
    BY HeaderSteps DEF FlightInv
  <2>1. Turns(c)
    BY DEF HeaderStep, Stays, Turns, OthersStand
  <2>2. ~Leaves(c)
    BY DEF Leaves, KeylessInv
  <2>3. UsesCached(c)
    BY <2>1, <2>2 DEF Turns, AsksMetadata, AsksForced, UsesGot, WillReplay, Waiting
  <2> QED BY <2>3, UsedIsLive
<1> QED
  BY <1>1, <1>2, <1>3, TypeCorrect, RefreshesCorrect, EffortInit,
     EffortNext, LiveInvariant, PTL
  DEF Spec, FlightInv, CachedTokenIsLive
=============================================================================
