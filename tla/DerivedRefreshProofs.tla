------------------------ MODULE DerivedRefreshProofs ------------------------
(***************************************************************************)
(* Theorems about the refreshes of the derived clients, for every set of   *)
(* calls, all lifetimes and whatever setCredentials has installed: they    *)
(* implement SharedRefresh, a token found expiring is replaced, a cached   *)
(* token is live, and a call's effort is bounded.                          *)
(***************************************************************************)
EXTENDS DerivedClientsProofs

USE DEF Requests, Waiting, Settled

Waits == Waiting \union {"authorizing", "id_token"}

Shapes ==
  /\ apiKey \in BOOLEAN
  /\ refreshTokenPromises \in [RefreshToken -> Call \union {None}]
  /\ awaiting \in [Call -> Call \union {None}]
  /\ credentials.rt # Unshared

(* The map holds the POST for the client's refresh token, if there is one, *)
(* and none of the others.                                                 *)
MapInv ==
  /\ \A c \in Call : refreshTokenPromises[Placeholder] = c
                       <=> post[c] # None /\ post[c].rt = Placeholder
  /\ refreshTokenPromises[Unshared] = None

(* Who starts a refresh awaits it, who awaits one awaits a POST in flight  *)
(* and has no answer, and who stands at an await awaits something.         *)
WaitInv ==
  /\ \A c \in Call : post[c] # None => awaiting[c] = c
  /\ \A c \in Call : awaiting[c] # None
       => pc[c] \in Waits /\ got[c] = None /\ post[awaiting[c]] # None
  /\ \A c \in Call : /\ pc[c] \in Waits /\ got[c] = None => awaiting[c] # None
                     /\ got[c] # None => pc[c] \in Waits

FlightInv == Types /\ Called /\ Shapes /\ MapInv /\ WaitInv

-----------------------------------------------------------------------------
(* The kinds of steps.  A call goes on without a refresh, or begins to     *)
(* await one, or its refresh settles, or an endpoint answers.              *)

Free(c) == pc[c] \notin Waits \/ got[c] # None
Answered(c) == got[c] # None /\ got[c].status = "ok"

(* The steps that take c's answer store it, but for an ID token.           *)
Stores(c) ==
  /\ Answered(c)
  /\ credentials'.at = got[c].at /\ credentials'.exp = got[c].exp
  /\ credentials'.rt \in {credentials.rt, Placeholder}
Keeps(c) ==
  /\ Answered(c) => pc[c] = "id_token"
  /\ UNCHANGED credentials
Revokes(c) ==
  /\ pc[c] = "idle" /\ kind'[c] = "revokeCredentials"
  /\ credentials' = NoCredentials

SameFlights == \A d \in Call : post[d] # None => asks'[d] = asks[d]

GoesOn(c) ==
  /\ Free(c)
  /\ \E label \in Labels \ Waits : Goto(c, label)
  /\ got' = [got EXCEPT ![c] = None]
  /\ Stores(c) \/ Keeps(c) \/ Revokes(c)
  /\ SameFlights
  /\ UNCHANGED <<refreshTokenPromises, post, awaiting, now, issued, gtoken>>

Asks(c) == refreshToken(c, Placeholder) \/ refreshTokenWithoutArgument(c)

Joins(c) ==
  /\ Free(c) /\ ~Answered(c)
  /\ Asks(c)
  /\ \E label \in Waits : Goto(c, label) /\ (label = "id_token" => target_audience)
  /\ got' = [got EXCEPT ![c] = None]
  /\ refreshTokenNoCache
  /\ UNCHANGED <<credentials, now, issued, gtoken>>

SettlesWith(c, r) ==
  /\ post[c] # None
  /\ got' = [w \in Call |-> IF awaiting[w] = c THEN r ELSE got[w]]
  /\ awaiting' = [w \in Call |-> IF awaiting[w] = c THEN None ELSE awaiting[w]]
  /\ refreshTokenPromises' = PromisesAfter(c)
  /\ post' = [post EXCEPT ![c] = None]
  /\ \A d \in Call : post'[d] # None => asks'[d] = asks[d]
  /\ UNCHANGED <<pc, credentials, now, issued>>

SettlesRaw(c) ==
  /\ HasRawToken(c)
  /\ SettlesWith(c, RawToken)
  /\ UNCHANGED gtoken

UsesRaw == class = "JWT" /\ ~target_audience

SettlesReply(c) ==
  /\ Idle
  /\ post[c] # None /\ post[c].reply # None
  /\ SettlesWith(c, Outcome(post[c].reply))
  /\ gtoken' \in IF UsesRaw
                 THEN IF post[c].reply.status = "ok"
                      THEN {[at |-> post[c].reply.token,
                             exp |-> Outcome(post[c].reply).exp]}
                      ELSE {gtoken, NoRawToken}
                 ELSE {gtoken}

Replies(c) ==
  /\ Idle
  /\ TokenEndpointGrants(c) \/ TokenEndpointOmitsToken(c) \/ TokenEndpointRefuses(c)
  /\ UNCHANGED <<gtoken, asks>>

Quiet ==
  /\ UNCHANGED <<refreshTokenPromises, post, awaiting, pc, got, credentials,
                 issued, gtoken, asks>>
  /\ UNCHANGED now \/ DerivedTick

FlightStep ==
  /\ UNCHANGED options /\ apiKey' = apiKey
  /\ \/ Quiet
     \/ \E c \in Call : GoesOn(c) \/ Joins(c) \/ SettlesRaw(c)
                        \/ SettlesReply(c) \/ Replies(c)

(* A call that awaits no refresh has no answer to take.                    *)
LEMMA NothingGot ==
  ASSUME FlightInv, NEW c \in Call, pc[c] \notin Waits
  PROVE  Free(c) /\ ~Answered(c) /\ got = [got EXCEPT ![c] = None]
  BY DEF FlightInv, Types, Flow, WaitInv, Free, Answered

LEMMA KnownRefreshToken ==
  ASSUME FlightInv, credentials.rt # None
  PROVE  credentials.rt = Placeholder
  BY DerivedConstantsOk
  DEF FlightInv, Shapes, Types, DerivedTypeOK, Credentials, DerivedConstantsOk

(* The asks of the flights that a step leaves alone.                       *)
LEMMA AsksKept ==
  ASSUME FlightInv, refreshTokenNoCache
  PROVE  \A d \in Call : post[d] # None /\ post'[d] # None => asks'[d] = asks[d]
  BY DEF refreshTokenNoCache

(* What a step in which c may ask for a refresh does otherwise.            *)
Steady(c) ==
  /\ Free(c) /\ ~Answered(c)
  /\ got' = [got EXCEPT ![c] = None]
  /\ refreshTokenNoCache
  /\ UNCHANGED <<credentials, now, issued, gtoken>>

LEMMA SteadyGoesOn ==
  ASSUME FlightInv, NEW c \in Call, Steady(c), UNCHANGED refreshVars,
         NEW label \in Labels \ Waits, Goto(c, label)
  PROVE  GoesOn(c)
  BY AsksKept DEF Steady, GoesOn, Keeps, SameFlights, refreshVars

LEMMA DeliverGoesOn ==
  ASSUME FlightInv, NEW c \in Call, Steady(c), UNCHANGED refreshVars,
         NEW k, NEW token, Deliver(c, k, token) \/ Fail(c)
  PROVE  GoesOn(c)
<1>1. \E label \in {"sent", "done", "failed"} : Goto(c, label)
  BY DEF Deliver, Fail
<1> QED BY <1>1, SteadyGoesOn DEF Labels, Waits

LEMMA ForcedFlight ==
  ASSUME FlightInv, NEW c \in Call, Steady(c), refreshAccessTokenAsync(c)
  PROVE  GoesOn(c) \/ Joins(c)
<1>1. CASE Goto(c, "failed") /\ UNCHANGED refreshVars
  BY <1>1, SteadyGoesOn DEF Labels, Waits
<1>2. CASE /\ credentials.rt # None /\ Goto(c, "forced")
           /\ refreshToken(c, credentials.rt)
  BY <1>2, KnownRefreshToken DEF Steady, Joins, Asks, Waits
<1> QED BY <1>1, <1>2 DEF refreshAccessTokenAsync

LEMMA CatchFlight ==
  ASSUME FlightInv, NEW c \in Call, Steady(c), NEW status, NEW streamed,
         Catch(c, status, streamed)
  PROVE  GoesOn(c) \/ Joins(c)
<1>1. CASE refreshAccessTokenAsync(c)
  BY <1>1, ForcedFlight
<1>2. CASE \E label \in {"unauthorized", "failed"} :
             Goto(c, label) /\ UNCHANGED refreshVars
  BY <1>2, SteadyGoesOn DEF Labels, Waits
<1> QED BY <1>1, <1>2 DEF Catch

LEMMA MetadataFlight ==
  ASSUME FlightInv, NEW c \in Call, Steady(c), NEW k, NEW u,
         derivedRequestMetadataAsync(c, k, u)
  PROVE  GoesOn(c) \/ Joins(c)
<1>1. CASE target_audience /\ Goto(c, "id_token") /\ refreshTokenWithoutArgument(c)
  BY <1>1 DEF Steady, Joins, Asks, Waits
<1>2. CASE /\ (\E token : Deliver(c, k, token)) \/ Fail(c)
           /\ UNCHANGED refreshVars
  BY <1>2, DeliverGoesOn
<1>3. CASE Goto(c, "metadata") /\ refreshTokenWithoutArgument(c)
  BY <1>3 DEF Steady, Joins, Asks, Waits
<1>4. CASE /\ credentials.rt # None /\ Goto(c, "metadata")
           /\ refreshToken(c, credentials.rt)
  BY <1>4, KnownRefreshToken DEF Steady, Joins, Asks, Waits
<1> QED
  BY <1>1, <1>2, <1>3, <1>4
  DEF derivedRequestMetadataAsync, getRequestHeaders, baseRequestMetadataAsync,
      getRequestMetadataAsync

-----------------------------------------------------------------------------
(* Every action is a step of one of these kinds.                           *)

LEMMA CallFlight ==
  ASSUME FlightInv, NEW c \in Call,
         \/ derivedRequestAsync(c) \/ derivedRefreshAccessToken(c)
         \/ DerivedReplay(c) \/ authorizeAsync(c) \/ BaseCall(c)
  PROVE  (GoesOn(c) \/ Joins(c)) /\ apiKey' = apiKey
<1>1. ASSUME pc[c] \in {"idle", "replay"}, refreshTokenNoCache,
             UNCHANGED <<got, credentials, now, issued, gtoken>>
      PROVE  Steady(c)
  BY <1>1, NothingGot DEF Steady, Waits
<1>2. CASE derivedRequestAsync(c)
  <2> PICK k, u :
        /\ Begin(c, k)
        /\ derivedRequestMetadataAsync(c, k, u)
        /\ refreshTokenNoCache
        /\ UNCHANGED <<credentials, key, gtoken>>
    BY <1>2 DEF derivedRequestAsync
  <2> QED BY <1>1, MetadataFlight DEF Begin
<1>3. CASE DerivedReplay(c)
  BY <1>1, <1>3, MetadataFlight DEF DerivedReplay
<1>4. CASE derivedRefreshAccessToken(c)
  <2>1. Steady(c) /\ apiKey' = apiKey
    BY <1>1, <1>4 DEF derivedRefreshAccessToken, refreshAccessToken, Begin
  <2>2. CASE Goto(c, "forced") /\ refreshTokenWithoutArgument(c)
    BY <2>1, <2>2 DEF Steady, Joins, Asks, Waits
  <2>3. CASE refreshAccessTokenAsync(c)
    BY <2>1, <2>3, ForcedFlight
  <2> QED
    BY <1>4, <2>1, <2>2, <2>3 DEF derivedRefreshAccessToken, refreshAccessToken
<1>5. CASE authorizeAsync(c)
  <2>1. Steady(c) /\ apiKey' = apiKey
    BY <1>1, <1>5 DEF authorizeAsync, StartMore
  <2> QED
    BY <1>5, <2>1 DEF authorizeAsync, Steady, Joins, Asks, Waits
<1>6. CASE BaseCall(c)
  <2>1. CASE getAccessTokenAsync(c)
    <3>1. Steady(c) /\ apiKey' = apiKey
      BY <1>1, <1>6, <2>1 DEF BaseCall, getAccessTokenAsync, Begin
    <3> QED
      BY <2>1, <3>1, DeliverGoesOn, ForcedFlight DEF getAccessTokenAsync
  <2>2. CASE revokeCredentialsAsync(c)
    <3>1. /\ \E label \in {"revoking", "failed"} : Goto(c, label)
          /\ pc[c] = "idle" /\ credentials' = NoCredentials
          /\ UNCHANGED <<got, now, issued, refreshVars, apiKey>>
      BY <2>2 DEF revokeCredentialsAsync, Begin
    <3>2. Free(c) /\ got = [got EXCEPT ![c] = None]
      BY <3>1, NothingGot DEF Waits
    <3>3. Revokes(c)
      <4>1. kind' = [kind EXCEPT ![c] = "revokeCredentials"]
        BY <2>2 DEF revokeCredentialsAsync, Begin
      <4>2. kind'[c] = "revokeCredentials"
        BY <4>1 DEF FlightInv, Called
      <4> QED BY <3>1, <4>2 DEF Revokes
    <3> QED
      BY <1>6, <3>1, <3>2, <3>3, AsksKept
      DEF BaseCall, GoesOn, SameFlights, refreshVars, Labels, Waits
  <2> QED BY <1>6, <2>1, <2>2 DEF BaseCall
<1> QED BY <1>2, <1>3, <1>4, <1>5, <1>6

(* What the steps that take an answer have in common.                      *)
LEMMA ResumeFree ==
  ASSUME FlightInv, NEW c \in Call, NEW label, NEW status, Resume(c, label, status)
  PROVE  /\ Free(c) /\ pc[c] = label /\ got[c] # None /\ got[c].status \in status
         /\ got' = [got EXCEPT ![c] = None]
         /\ UNCHANGED <<now, issued, apiKey>>
  BY DEF Resume, Free

LEMMA LeavesFlights ==
  ASSUME UNCHANGED refreshVars, refreshTokenNoCache \/ UNCHANGED asks, FlightInv
  PROVE  SameFlights /\ UNCHANGED <<refreshTokenPromises, post, awaiting>>
  BY AsksKept DEF SameFlights, refreshVars

LEMMA TakenStored ==
  ASSUME FlightInv, NEW c \in Call, got[c] # None, got[c].status = "ok",
         \/ credentials' = Refreshed(got[c])
         \/ credentials' = AuthorizedCredentials(got[c])
  PROVE  Stores(c)
  BY DEF Stores, Answered, Refreshed, AuthorizedCredentials

LEMMA TakenFlight ==
  ASSUME FlightInv, NEW c \in Call,
         \/ Authorized(c) \/ IdTokenReceived(c)
         \/ MetadataRefreshed(c) /\ refreshTokenNoCache /\ UNCHANGED gtoken
         \/ ForcedRefreshed(c) /\ refreshTokenNoCache /\ UNCHANGED gtoken
  PROVE  GoesOn(c) /\ apiKey' = apiKey
<1>1. /\ got[c] # None /\ got[c].status = "ok"
      /\ Free(c) /\ got' = [got EXCEPT ![c] = None]
      /\ UNCHANGED <<now, issued, apiKey>>
  BY ResumeFree
  DEF Authorized, IdTokenReceived, MetadataRefreshed, ForcedRefreshed
<1>2. UNCHANGED gtoken
  BY DEF Authorized, IdTokenReceived, jwtVars
<1>3. SameFlights /\ UNCHANGED <<refreshTokenPromises, post, awaiting>>
  BY LeavesFlights
  DEF Authorized, IdTokenReceived, MetadataRefreshed, ForcedRefreshed, jwtVars
<1>4. \E label \in {"sent", "done", "failed", "replay"} : Goto(c, label)
  BY DEF Authorized, IdTokenReceived, MetadataRefreshed, ForcedRefreshed, Deliver
<1>5. CASE IdTokenReceived(c)
  <2>1. Keeps(c)
    BY <1>5 DEF IdTokenReceived, Resume, Keeps
  <2> QED BY <1>1, <1>2, <1>3, <1>4, <2>1 DEF GoesOn, Labels, Waits
<1>6. CASE Authorized(c) \/ MetadataRefreshed(c) \/ ForcedRefreshed(c)
  <2>1. \/ credentials' = Refreshed(got[c])
        \/ credentials' = AuthorizedCredentials(got[c])
    BY <1>6 DEF Authorized, MetadataRefreshed, ForcedRefreshed
  <2>2. Stores(c)
    BY <1>1, <2>1, TakenStored
  <2> QED BY <1>1, <1>2, <1>3, <1>4, <2>2 DEF GoesOn, Labels, Waits
<1> QED BY <1>5, <1>6

LEMMA RefusedFlight ==
  ASSUME FlightInv, NEW c \in Call,
         \/ AuthorizeRefused(c) \/ IdTokenRefused(c)
         \/ MetadataRefused(c) /\ refreshTokenNoCache /\ UNCHANGED gtoken
         \/ ForcedRefused(c) /\ refreshTokenNoCache /\ UNCHANGED gtoken
  PROVE  (GoesOn(c) \/ Joins(c)) /\ apiKey' = apiKey
<1>1. /\ Free(c) /\ ~Answered(c) /\ got' = [got EXCEPT ![c] = None]
      /\ UNCHANGED <<now, issued, apiKey>>
  <2>1. \E label : Resume(c, label, {"auth", "error"})
    BY DEF AuthorizeRefused, IdTokenRefused, MetadataRefused, ForcedRefused
  <2> QED BY <2>1, ResumeFree DEF Answered
<1>2. UNCHANGED <<gtoken, credentials>>
  BY DEF AuthorizeRefused, IdTokenRefused, MetadataRefused, ForcedRefused, jwtVars
<1>3. CASE Fail(c) /\ UNCHANGED refreshVars
  <2>1. SameFlights /\ UNCHANGED <<refreshTokenPromises, post, awaiting>>
    BY <1>3, LeavesFlights
    DEF AuthorizeRefused, IdTokenRefused, MetadataRefused, ForcedRefused, jwtVars
  <2>2. Goto(c, "failed") /\ "failed" \in Labels \ Waits
    BY <1>3 DEF Fail, Labels, Waits
  <2> QED BY <1>1, <1>2, <2>1, <2>2 DEF GoesOn, Keeps
<1>4. CASE refreshTokenNoCache /\ Catch(c, got[c].status, FALSE)
  <2>1. Steady(c)
    BY <1>1, <1>2, <1>4 DEF Steady
  <2> QED BY <1>1, <1>4, <2>1, CatchFlight
<1> QED
  BY <1>3, <1>4
  DEF AuthorizeRefused, IdTokenRefused, MetadataRefused, ForcedRefused

LEMMA AnswerFlight ==
  ASSUME FlightInv, NEW c \in Call,
         \/ RawTokenGiven(c) \/ DerivedRefreshSettles(c) \/ TokenSourceAnswers(c)
  PROVE  /\ SettlesRaw(c) \/ SettlesReply(c) \/ Replies(c)
         /\ apiKey' = apiKey
<1>1. CASE RawTokenGiven(c)
  <2>1. \A d \in Call : post'[d] # None => asks'[d] = asks[d]
    BY <1>1 DEF RawTokenGiven, FlightInv, Types, Flow, DerivedTypeOK
  <2> QED
    BY <1>1, <2>1 DEF RawTokenGiven, SettlesRaw, SettlesWith, HasRawToken
<1>2. CASE DerivedRefreshSettles(c)
  <2>1. RefreshSettles(c) /\ refreshTokenNoCache /\ Idle
    BY <1>2 DEF DerivedRefreshSettles
  <2>2. \A d \in Call : post'[d] # None => asks'[d] = asks[d]
    <3>1. \A d \in Call : post'[d] # None => post[d] # None
      BY <2>1 DEF RefreshSettles, FlightInv, Types, Flow
    <3> QED BY <2>1, <3>1, AsksKept
  <2> QED
    BY <1>2, <2>1, <2>2
    DEF DerivedRefreshSettles, RefreshSettles, SettlesReply, SettlesWith, UsesRaw
<1>3. CASE TokenSourceAnswers(c)
  BY <1>3
  DEF TokenSourceAnswers, Replies, jwtVars, TokenEndpointGrants,
      TokenEndpointOmitsToken, TokenEndpointRefuses, TokenEndpointAnswers
<1> QED BY <1>1, <1>2, <1>3

LEMMA BaseAnswerFlight ==
  ASSUME FlightInv, NEW c \in Call, BaseAnswer(c)
  PROVE  (GoesOn(c) \/ Joins(c)) /\ apiKey' = apiKey
<1>1. /\ pc[c] \in {"sent", "revoking"} /\ refreshTokenNoCache
      /\ UNCHANGED <<got, credentials, now, issued, gtoken, apiKey>>
  BY DEF BaseAnswer, ApiAnswers, RevokeAnswers
<1>2. Steady(c)
  BY <1>1, NothingGot DEF Steady, Waits
<1>3. CASE \E label \in {"done", "failed"} : Goto(c, label) /\ UNCHANGED refreshVars
  BY <1>1, <1>2, <1>3, SteadyGoesOn DEF Labels, Waits
<1>4. CASE \E status, streamed : Catch(c, status, streamed)
  BY <1>1, <1>2, <1>4, CatchFlight
<1> QED BY <1>3, <1>4 DEF BaseAnswer, ApiAnswers, RevokeAnswers

LEMMA IdTokenClientFlight ==
  ASSUME FlightInv, NEW c \in Call, IdTokenClientStep(c)
  PROVE  GoesOn(c) /\ apiKey' = apiKey
<1>1. /\ pc[c] \notin Waits
      /\ UNCHANGED <<got, credentials, now, issued, gtoken, asks, refreshVars,
                     apiKey>>
  BY DEF IdTokenClientStep, idTokenRequest, StartMore, IdTokenFetched,
         IdTokenNotFetched, IdApiAnswers, jwtVars, Waits
<1>2. \E label \in Labels \ Waits : Goto(c, label)
  BY DEF IdTokenClientStep, idTokenRequest, SendIdToken, IdTokenFetched,
         IdTokenNotFetched, IdApiAnswers, Fail, Labels, Waits
<1> QED
  BY <1>1, <1>2, NothingGot DEF GoesOn, Keeps, SameFlights, refreshVars

LEMMA FlightSteps == FlightInv /\ [DerivedNext]_derivedVars => FlightStep
<1> SUFFICES ASSUME FlightInv, [DerivedNext]_derivedVars PROVE FlightStep
  OBVIOUS
<1>1. ASSUME NEW c \in Call, ClientStep(c), UNCHANGED options PROVE FlightStep
  BY <1>1, CallFlight, TakenFlight, RefusedFlight, AnswerFlight, BaseAnswerFlight
  DEF ClientStep, BaseContinuation, FlightStep
<1>2. ASSUME NEW c \in Call, IdTokenClientStep(c), UNCHANGED options PROVE FlightStep
  BY <1>2, IdTokenClientFlight DEF FlightStep
<1>3. CASE DerivedTick /\ UNCHANGED options
  BY <1>3 DEF DerivedTick, Tick, jwtVars, refreshVars, callVars, FlightStep, Quiet
<1>4. CASE UNCHANGED derivedVars
  BY <1>4 DEF derivedVars, vars, options, jwtVars, refreshVars, callVars,
              FlightStep, Quiet
<1> QED BY <1>1, <1>2, <1>3, <1>4 DEF DerivedNext

-----------------------------------------------------------------------------
(* The invariant of the refreshes in flight.                               *)

LEMMA FreeCall ==
  ASSUME FlightInv, NEW c \in Call, Free(c)
  PROVE  awaiting[c] = None /\ post[c] = None /\ c # None
  BY ConstantsOk DEF FlightInv, Types, Flow, WaitInv, Free, ConstantsOk

(* A refresh in flight is either in the map or beside it.                  *)
LEMMA Filed ==
  ASSUME FlightInv, NEW c \in Call, post[c] # None
  PROVE  post[c] \in Post /\ post[c].rt \in {Placeholder, Unshared}
  BY DerivedConstantsOk DEF FlightInv, Types, Flow, Post, DerivedConstantsOk

LEMMA CallsKnown == \A c \in Call : c # None
  BY ConstantsOk DEF ConstantsOk

LEMMA PlaceholderShared ==
  /\ Placeholder \in RefreshToken /\ Unshared \in RefreshToken
  /\ Placeholder # Unshared
  /\ \A r \in RefreshToken : r \in {Placeholder, Unshared}
  BY DerivedConstantsOk DEF DerivedConstantsOk

LEMMA AnswersGiven ==
  ASSUME FlightInv, NEW c \in Call
  PROVE  /\ RawToken \in Result /\ RawToken # None
         /\ post[c] # None /\ post[c].reply # None
              => /\ Outcome(post[c].reply) \in Result
                 /\ Outcome(post[c].reply) # None
<1>1. RawToken \in Result
  BY DEF FlightInv, Types, DerivedTypeOK, RawToken, Result
<1>2. ASSUME post[c] # None, post[c].reply # None
      PROVE  Outcome(post[c].reply) \in Result
  BY <1>2 DEF FlightInv, Types, Flow, Post, Reply, Outcome, Result
<1> QED BY <1>1, <1>2, ConstantsOk DEF ConstantsOk

LEMMA GoesOnInv ==
  ASSUME FlightInv, NEW c \in Call, GoesOn(c)
  PROVE  MapInv' /\ WaitInv'
  BY FreeCall
  DEF GoesOn, Goto, FlightInv, Types, Flow, MapInv, WaitInv, Labels, Waits

LEMMA JoinsInv ==
  ASSUME FlightInv, NEW c \in Call, Joins(c)
  PROVE  MapInv' /\ WaitInv'
<1>1. /\ awaiting[c] = None /\ post[c] = None /\ c # None
      /\ pc[c] \notin Waits \/ got[c] # None
      /\ got' = [got EXCEPT ![c] = None]
      /\ \E label \in Waits : pc' = [pc EXCEPT ![c] = label]
  BY FreeCall DEF Joins, Goto, Free
<1>2. CASE refreshTokenPromises[Placeholder] # None /\ refreshToken(c, Placeholder)
  BY <1>1, <1>2, PlaceholderShared
  DEF refreshToken, FlightInv, Types, Flow, Shapes, MapInv, WaitInv
<1>3. ASSUME NEW rt \in {Placeholder, Unshared},
             awaiting' = [awaiting EXCEPT ![c] = c],
             post' = [post EXCEPT ![c] = [rt |-> rt, reply |-> None]],
             rt = Placeholder => refreshTokenPromises[Placeholder] = None,
             refreshTokenPromises' = IF rt = Unshared THEN refreshTokenPromises
                                     ELSE [refreshTokenPromises EXCEPT ![rt] = c]
      PROVE  MapInv' /\ WaitInv'
  <2>1. post'[c] \in Post /\ post'[c] # None /\ post'[c].rt = rt
    BY <1>3, PlaceholderShared, ConstantsOk
    DEF FlightInv, Types, Flow, Post, ConstantsOk
  <2>2. \A d \in Call \ {c} : post'[d] = post[d] /\ awaiting'[d] = awaiting[d]
                              /\ pc'[d] = pc[d] /\ got'[d] = got[d]
    BY <1>1, <1>3 DEF FlightInv, Types, Flow, Shapes
  <2>3. awaiting'[c] = c /\ pc'[c] \in Waits /\ got'[c] = None
    BY <1>1, <1>3 DEF FlightInv, Types, Flow, Shapes
  <2>4. MapInv'
    BY <1>1, <1>3, <2>1, <2>2, PlaceholderShared, CallsKnown
    DEF FlightInv, Shapes, MapInv
  <2>5. WaitInv'
    BY <1>1, <2>1, <2>2, <2>3 DEF FlightInv, Shapes, WaitInv
  <2> QED BY <2>4, <2>5
<1> QED
  BY <1>2, <1>3, PlaceholderShared
  DEF Joins, Asks, refreshToken, refreshTokenWithoutArgument

LEMMA SettlesInv ==
  ASSUME FlightInv, NEW c \in Call, NEW r, r # None, SettlesWith(c, r)
  PROVE  MapInv' /\ WaitInv'
<1>1. post[c].rt \in {Placeholder, Unshared} /\ c # None /\ awaiting[c] = c
  BY Filed, ConstantsOk DEF SettlesWith, ConstantsOk, FlightInv, WaitInv
<1>2. MapInv'
  <2>1. /\ refreshTokenPromises'[Placeholder]
             = IF post[c].rt = Placeholder THEN None
               ELSE refreshTokenPromises[Placeholder]
        /\ refreshTokenPromises'[Unshared] = None
    BY <1>1, PlaceholderShared
    DEF SettlesWith, PromisesAfter, FlightInv, Shapes, MapInv
  <2>2. \A d \in Call : post'[d] = IF d = c THEN None ELSE post[d]
    BY DEF SettlesWith, FlightInv, Types, Flow
  <2>3. CASE post[c].rt = Placeholder
    <3>1. \A d \in Call : post[d] # None /\ post[d].rt = Placeholder <=> d = c
      BY <2>3 DEF SettlesWith, FlightInv, MapInv
    <3> QED BY <2>1, <2>2, <2>3, <3>1, CallsKnown DEF MapInv
  <2>4. CASE post[c].rt = Unshared
    BY <2>1, <2>2, <2>4, PlaceholderShared DEF SettlesWith, FlightInv, MapInv
  <2> QED BY <1>1, <2>3, <2>4
<1>3. WaitInv'
  BY <1>1 DEF SettlesWith, FlightInv, Types, Flow, Shapes, WaitInv
<1> QED BY <1>2, <1>3

(* What the endpoint answers: a new token, or none.                        *)
Grants(c, reply) ==
  \E life \in Lifetimes :
    /\ issued' = issued + 1
    /\ reply.status = "ok"
    /\ reply.token = [rt |-> post[c].rt, serial |-> issued + 1,
                      deadline |-> now + life]
    /\ reply.expires_in = IF ReportsExpiry THEN life ELSE 0
    /\ reply.since = now
Denies(reply) ==
  /\ issued' = issued
  /\ reply.token = None /\ reply.expires_in = 0 /\ reply.since = now

LEMMA EndpointReplies ==
  ASSUME FlightInv, NEW c \in Call, Replies(c)
  PROVE  \E reply \in Reply : /\ TokenEndpointAnswers(c, reply)
                              /\ Grants(c, reply) \/ Denies(reply)
<1>1. CASE TokenEndpointGrants(c)
  <2> PICK life \in Lifetimes :
        /\ post[c] # None
        /\ issued' = issued + 1
        /\ TokenEndpointAnswers(c,
             [status |-> "ok",
              token |-> [rt |-> post[c].rt, serial |-> issued + 1,
                         deadline |-> now + life],
              expires_in |-> IF ReportsExpiry THEN life ELSE 0,
              since |-> now])
    BY <1>1 DEF TokenEndpointGrants
  <2> DEFINE token == [rt |-> post[c].rt, serial |-> issued + 1,
                       deadline |-> now + life]
             reply == [status |-> "ok", token |-> token,
                       expires_in |-> IF ReportsExpiry THEN life ELSE 0,
                       since |-> now]
  <2>1. token \in Token
    BY Filed, ConstantsOk DEF ConstantsOk, FlightInv, Types, Flow, Post, Token
  <2>2. reply \in Reply
    BY <2>1, ConstantsOk DEF ConstantsOk, FlightInv, Types, Flow, Reply
  <2>3. Grants(c, reply)
    BY DEF Grants
  <2>4. TokenEndpointAnswers(c, reply)
    OBVIOUS
  <2> QED BY <2>2, <2>3, <2>4
<1>2. CASE TokenEndpointOmitsToken(c)
  BY <1>2 DEF TokenEndpointOmitsToken, Denies, FlightInv, Types, Flow, Reply
<1>3. CASE TokenEndpointRefuses(c)
  BY <1>3 DEF TokenEndpointRefuses, Denies, FlightInv, Types, Flow, Reply
<1> QED BY <1>1, <1>2, <1>3 DEF Replies

(* An answer on its way leaves the POST what it is.                        *)
LEMMA SamePosts ==
  ASSUME FlightInv, NEW c \in Call, Replies(c)
  PROVE  /\ \A d \in Call : /\ post'[d] = None <=> post[d] = None
                            /\ post[d] # None => post'[d].rt = post[d].rt
         /\ UNCHANGED <<refreshTokenPromises, awaiting, pc, kind, got, apiKey,
                        credentials, now, starts, header, sends, retry>>
<1> PICK reply \in Reply : TokenEndpointAnswers(c, reply)
  BY EndpointReplies
<1> QED
  BY ConstantsOk
  DEF FlightInv, Types, Flow, TokenEndpointAnswers, Post, ConstantsOk, callVars

(* Nobody's refresh token is the missing one.                              *)
LEMMA CredentialsHold ==
  ASSUME FlightInv, FlightStep
  PROVE  credentials'.rt # Unshared
  BY PlaceholderShared, ConstantsOk
  DEF FlightStep, Quiet, GoesOn, Stores, Keeps, Revokes, NoCredentials, Joins,
      SettlesRaw, SettlesReply, SettlesWith, Replies, TokenEndpointGrants,
      TokenEndpointOmitsToken, TokenEndpointRefuses, TokenEndpointAnswers,
      FlightInv, Shapes, ConstantsOk

LEMMA ShapesStep == FlightInv /\ FlightStep => Shapes'
<1> SUFFICES ASSUME FlightInv, FlightStep PROVE Shapes'
  OBVIOUS
<1>1. apiKey' \in BOOLEAN
  BY DEF FlightStep, FlightInv, Shapes
<1> DEFINE Shaped == /\ refreshTokenPromises \in [RefreshToken -> Call \union {None}]
                     /\ awaiting \in [Call -> Call \union {None}]
<1>2. Shaped'
  <2>1. ASSUME NEW c \in Call, Joins(c) PROVE Shaped'
    BY <2>1, PlaceholderShared
    DEF Joins, Asks, refreshToken, refreshTokenWithoutArgument, FlightInv, Shapes
  <2>2. ASSUME NEW c \in Call, SettlesRaw(c) \/ SettlesReply(c)
        PROVE Shaped'
    BY <2>2
    DEF SettlesRaw, SettlesReply, SettlesWith, PromisesAfter, FlightInv, Shapes
  <2>3. ASSUME UNCHANGED <<refreshTokenPromises, awaiting>> PROVE Shaped'
    BY <2>3 DEF FlightInv, Shapes
  <2> QED
    BY <2>1, <2>2, <2>3, SamePosts DEF FlightStep, Quiet, GoesOn
<1> QED BY <1>1, <1>2, CredentialsHold DEF Shapes

LEMMA FlightInvStep == FlightInv /\ FlightStep => MapInv' /\ WaitInv'
<1> SUFFICES ASSUME FlightInv, FlightStep PROVE MapInv' /\ WaitInv'
  OBVIOUS
<1>1. ASSUME NEW c \in Call, SettlesRaw(c) \/ SettlesReply(c)
      PROVE  MapInv' /\ WaitInv'
  <2>1. CASE SettlesRaw(c)
    <3>1. RawToken # None
      BY AnswersGiven
    <3> QED BY <2>1, <3>1, SettlesInv DEF SettlesRaw
  <2>2. CASE SettlesReply(c)
    <3>1. Outcome(post[c].reply) # None
      BY <2>2, AnswersGiven DEF SettlesReply
    <3> QED BY <2>2, <3>1, SettlesInv DEF SettlesReply
  <2> QED BY <1>1, <2>1, <2>2
<1>2. ASSUME NEW c \in Call, Replies(c)
      PROVE  MapInv' /\ WaitInv'
  <2>1. /\ \A d \in Call : /\ post'[d] = None <=> post[d] = None
                           /\ post[d] # None => post'[d].rt = post[d].rt
        /\ refreshTokenPromises' = refreshTokenPromises /\ awaiting' = awaiting
        /\ pc' = pc /\ got' = got
    BY <1>2, SamePosts
  <2>2. MapInv'
    <3>1. MapInv
      BY DEF FlightInv
    <3> QED BY <2>1, <3>1 DEF MapInv
  <2>3. WaitInv'
    <3>1. WaitInv /\ awaiting \in [Call -> Call \union {None}]
      BY DEF FlightInv, Shapes
    <3> QED BY <2>1, <3>1 DEF WaitInv
  <2> QED BY <2>2, <2>3
<1>3. CASE Quiet
  BY <1>3 DEF Quiet, FlightInv, MapInv, WaitInv
<1> QED BY <1>1, <1>2, <1>3, GoesOnInv, JoinsInv DEF FlightStep

LEMMA FlightInvariant == DerivedSpec => []FlightInv
<1>1. DerivedInit => FlightInv
  <2> SUFFICES ASSUME DerivedInit PROVE FlightInv
    OBVIOUS
  <2>1. Types
    BY TypesInit
  <2>2. Called
    BY DEF DerivedInit, Init, Called, Kinds
  <2>3. Shapes
    BY PlaceholderShared, DerivedConstantsOk, ConstantsOk
    DEF DerivedInit, Init, Shapes, Constructed, Expired, Undated,
        DerivedConstantsOk, ConstantsOk
  <2>4. MapInv /\ WaitInv
    BY PlaceholderShared, CallsKnown DEF DerivedInit, Init, MapInv, WaitInv, Waits
  <2> QED BY <2>1, <2>2, <2>3, <2>4 DEF FlightInv
<1>2. FlightInv /\ [DerivedNext]_derivedVars => FlightInv'
  BY FlightSteps, FlightInvStep, ShapesStep, TypesNext, CalledNext DEF FlightInv
<1> QED BY <1>1, <1>2, PTL DEF DerivedSpec

-----------------------------------------------------------------------------
(* The derived clients implement SharedRefresh.                            *)

SharedStep == DerivedShared!Next \/ UNCHANGED DerivedShared!vars

(* A refresh in flight has a key of its own.                               *)
LEMMA KeysDiffer ==
  ASSUME FlightInv
  PROVE  /\ \A f \in Call : post[f] # None
              => /\ FlightKey(f, post[f].rt) \in RefreshToken \union Call
                 /\ FlightKey(f, post[f].rt) # None
         /\ \A f, g \in Call :
              /\ post[f] # None /\ post[g] # None
              /\ FlightKey(f, post[f].rt) = FlightKey(g, post[g].rt)
              => f = g
<1>1. \A f \in Call : post[f] # None => post[f].rt \in {Placeholder, Unshared}
  BY Filed
<1>2. Placeholder \notin Call /\ Placeholder # None
  BY DerivedConstantsOk, ConstantsOk DEF DerivedConstantsOk, ConstantsOk
<1> QED
  BY <1>1, <1>2, PlaceholderShared, CallsKnown DEF FlightKey, FlightInv, MapInv

LEMMA GoesOnShared ==
  ASSUME FlightInv, NEW c \in Call, GoesOn(c) PROVE SharedStep
<1>1. post' = post /\ awaiting' = awaiting /\ got' = [got EXCEPT ![c] = None]
  BY DEF GoesOn
<1>3. CASE got[c] = None
  BY <1>1, <1>3 DEF FlightInv, Types, Flow, SharedStep, DerivedShared!vars
<1>4. CASE got[c] # None
  <2>1. DerivedShared!Take(c)
    BY <1>1, <1>4 DEF DerivedShared!Take
  <2> QED BY <2>1 DEF SharedStep, DerivedShared!Next
<1> QED BY <1>3, <1>4

(* What joining a refresh and starting one have in common: c awaits the    *)
(* refresh with that key, and the other refreshes stay what they are.      *)
Awaits(c, k) ==
  /\ awaiting[c] = None
  /\ got' = [got EXCEPT ![c] = None]
  /\ awaiting'[c] \in Call /\ post'[awaiting'[c]] # None
  /\ FlightKey(awaiting'[c], post'[awaiting'[c]].rt) = k
  /\ \A f \in Call : post[f] # None => post'[f] = post[f]
  /\ \A f \in Call : post'[f] # None
                     => post[f] # None \/ FlightKey(f, post'[f].rt) = k
  /\ \A d \in Call \ {c} : awaiting'[d] = awaiting[d]

LEMMA JoinsAwaits ==
  ASSUME FlightInv, NEW c \in Call, Joins(c)
  PROVE  \E k \in RefreshToken \union Call : Awaits(c, k)
<1>1. /\ awaiting[c] = None /\ post[c] = None
      /\ got' = [got EXCEPT ![c] = None]
  BY FreeCall DEF Joins
<1> USE CallsKnown, PlaceholderShared
<1>2. CASE refreshTokenPromises[Placeholder] # None /\ refreshToken(c, Placeholder)
  <2>1. Awaits(c, Placeholder)
    BY <1>1, <1>2
    DEF Awaits, FlightKey, refreshToken, FlightInv, Types, Flow, Shapes, MapInv
  <2> QED BY <2>1
<1>3. ASSUME NEW rt \in {Placeholder, Unshared},
             awaiting' = [awaiting EXCEPT ![c] = c],
             post' = [post EXCEPT ![c] = [rt |-> rt, reply |-> None]]
      PROVE  \E k \in RefreshToken \union Call : Awaits(c, k)
  <2>1. post'[c] \in Post /\ post'[c] # None /\ post'[c].rt = rt
    BY <1>3, ConstantsOk DEF FlightInv, Types, Flow, Post, ConstantsOk
  <2>2. \A d \in Call \ {c} : post'[d] = post[d] /\ awaiting'[d] = awaiting[d]
    BY <1>3 DEF FlightInv, Types, Flow, Shapes
  <2>3. awaiting'[c] = c
    BY <1>3 DEF FlightInv, Shapes
  <2>4. Awaits(c, IF rt = Unshared THEN c ELSE rt)
    BY <1>1, <2>1, <2>2, <2>3 DEF Awaits, FlightKey
  <2> QED BY <2>4
<1> QED
  BY <1>2, <1>3 DEF Joins, Asks, refreshToken, refreshTokenWithoutArgument

LEMMA JoinsShared ==
  ASSUME FlightInv, NEW c \in Call, Joins(c) PROVE SharedStep
<1> PICK k \in RefreshToken \union Call : Awaits(c, k)
  BY JoinsAwaits
<1> USE DEF Awaits
<1>1. \A f \in Call :
        post[f] # None => FlightKey(f, post'[f].rt) = FlightKey(f, post[f].rt)
  OBVIOUS
<1>2. \A f \in Call : post[f] # None => post'[f] # None
  OBVIOUS
<1>3. {FlightKey(f, post'[f].rt) : f \in {g \in Call : post'[g] # None}}
        = {FlightKey(f, post[f].rt) : f \in {g \in Call : post[g] # None}} \union {k}
  BY <1>1, <1>2
<1> DEFINE Asked(d) == IF awaiting[d] = None \/ post[awaiting[d]] = None
                       THEN None
                       ELSE FlightKey(awaiting[d], post[awaiting[d]].rt)
<1>4. [d \in Call |-> Asked(d)'] = [[d \in Call |-> Asked(d)] EXCEPT ![c] = k]
  <2>1. Asked(c)' = k
    BY CallsKnown
  <2>2. ASSUME NEW d \in Call, d # c PROVE Asked(d)' = Asked(d)
    <3>1. awaiting'[d] = awaiting[d]
      BY <2>2
    <3>2. awaiting[d] # None => awaiting[d] \in Call /\ post[awaiting[d]] # None
      BY DEF FlightInv, Shapes, WaitInv
    <3> QED BY <1>1, <1>2, <3>1, <3>2
  <2> HIDE DEF Asked
  <2> QED BY <2>1, <2>2
<1>5. DerivedShared!Ask(c, k)
  BY <1>3, <1>4 DEF DerivedShared!Ask
<1> QED BY <1>5 DEF SharedStep, DerivedShared!Next

LEMMA SettlesShared ==
  ASSUME FlightInv, NEW c \in Call, NEW r, r # None, SettlesWith(c, r)
  PROVE  SharedStep
<1> DEFINE sharers == {d \in Call : awaiting[d] = c}
<1>1. awaiting[c] = c /\ c # None /\ post[c] # None
  BY CallsKnown DEF SettlesWith, FlightInv, WaitInv
<1> PICK k \in RefreshToken \union Call : k = FlightKey(c, post[c].rt)
  BY <1>1, KeysDiffer
<1>2. \A f \in Call : post[f] # None => (FlightKey(f, post[f].rt) = k <=> f = c)
  BY <1>1, KeysDiffer
<1>3. \A f \in Call : post'[f] = IF f = c THEN None ELSE post[f]
  BY DEF SettlesWith, FlightInv, Types, Flow
<1>4. \A f \in Call : f # c => FlightKey(f, post'[f].rt) = FlightKey(f, post[f].rt)
  BY <1>3
<1>5. \A d \in Call : awaiting[d] # None
                      => awaiting[d] \in Call /\ post[awaiting[d]] # None
  BY DEF FlightInv, Shapes, WaitInv
<1>6. k # None
  BY <1>1, KeysDiffer
<1>7. \A d \in Call : awaiting'[d] = IF awaiting[d] = c THEN None ELSE awaiting[d]
  BY DEF SettlesWith
<1>8. DerivedShared!Sharers(k) = sharers
  BY <1>1, <1>2, <1>5, <1>6 DEF DerivedShared!Sharers
<1>9. {FlightKey(f, post'[f].rt) : f \in {g \in Call : post'[g] # None}}
        = {FlightKey(f, post[f].rt) : f \in {g \in Call : post[g] # None}} \ {k}
  BY <1>2, <1>3, <1>4
<1>10. \A d \in Call :
         (IF awaiting'[d] = None \/ post'[awaiting'[d]] = None
          THEN None ELSE FlightKey(awaiting'[d], post'[awaiting'[d]].rt))
           = IF d \in sharers THEN None
             ELSE IF awaiting[d] = None \/ post[awaiting[d]] = None
                  THEN None ELSE FlightKey(awaiting[d], post[awaiting[d]].rt)
  BY <1>3, <1>4, <1>5, <1>7
<1>11. got'[c] = r /\ got' = [d \in Call |-> IF d \in sharers THEN r ELSE got[d]]
  BY <1>1 DEF SettlesWith
<1>12. DerivedShared!End(k)
  <2>1. k \in {FlightKey(f, post[f].rt) : f \in {g \in Call : post[g] # None}}
    BY <1>1
  <2>2. c \in sharers
    BY <1>1
  <2>3. [d \in Call |-> IF awaiting'[d] = None \/ post'[awaiting'[d]] = None
                        THEN None
                        ELSE FlightKey(awaiting'[d], post'[awaiting'[d]].rt)]
         = [d \in Call |->
              IF d \in sharers THEN None
              ELSE [e \in Call |-> IF awaiting[e] = None \/ post[awaiting[e]] = None
                                   THEN None
                                   ELSE FlightKey(awaiting[e], post[awaiting[e]].rt)][d]]
    BY <1>10
  <2>4. \E s \in DerivedShared!Sharers(k) :
          /\ got'[s] # None
          /\ got' = [d \in Call |-> IF d \in DerivedShared!Sharers(k) THEN got'[s]
                                    ELSE got[d]]
    BY <1>8, <1>11, <2>2
  <2> QED BY <1>8, <1>9, <2>1, <2>3, <2>4 DEF DerivedShared!End
<1> QED BY <1>1, <1>12 DEF SharedStep, DerivedShared!Next

LEMMA RepliesShared ==
  ASSUME FlightInv, NEW c \in Call, Replies(c) PROVE SharedStep
<1>1. /\ \A d \in Call : /\ post'[d] = None <=> post[d] = None
                         /\ post[d] # None => post'[d].rt = post[d].rt
      /\ awaiting' = awaiting /\ got' = got
  BY SamePosts
<1>2. \A f \in Call :
        post[f] # None => FlightKey(f, post'[f].rt) = FlightKey(f, post[f].rt)
  BY <1>1
<1>3. {FlightKey(f, post'[f].rt) : f \in {g \in Call : post'[g] # None}}
        = {FlightKey(f, post[f].rt) : f \in {g \in Call : post[g] # None}}
  BY <1>1, <1>2
<1>4. [d \in Call |-> IF awaiting'[d] = None \/ post'[awaiting'[d]] = None
                      THEN None ELSE FlightKey(awaiting'[d], post'[awaiting'[d]].rt)]
       = [d \in Call |-> IF awaiting[d] = None \/ post[awaiting[d]] = None
                         THEN None
                       ELSE FlightKey(awaiting[d], post[awaiting[d]].rt)]
  BY <1>1, <1>2 DEF FlightInv, Shapes
<1> QED BY <1>1, <1>3, <1>4 DEF SharedStep, DerivedShared!vars

(* The refreshes of the derived clients, the shared ones and those that    *)
(* run beside the map, give their callers what SharedRefresh promises.     *)
THEOREM DerivedImplementsSharedRefresh == DerivedSpec => DerivedSharedSpec
<1>1. DerivedInit => DerivedShared!Init
  BY DEF DerivedInit, Init, DerivedShared!Init
<1>2. FlightInv /\ [DerivedNext]_derivedVars
        => [DerivedShared!Next]_(DerivedShared!vars)
  <2> SUFFICES ASSUME FlightInv, FlightStep PROVE SharedStep
    BY FlightSteps DEF SharedStep
  <2>1. CASE Quiet
    <3>1. post' = post /\ awaiting' = awaiting /\ got' = got
      BY <2>1 DEF Quiet
    <3> QED BY <3>1 DEF SharedStep, DerivedShared!vars
  <2>2. ASSUME NEW c \in Call, SettlesRaw(c) \/ SettlesReply(c) PROVE SharedStep
    <3>1. CASE SettlesRaw(c)
      <4>1. RawToken # None
        BY AnswersGiven
      <4> QED BY <3>1, <4>1, SettlesShared DEF SettlesRaw
    <3>2. CASE SettlesReply(c)
      <4>1. Outcome(post[c].reply) # None
        BY <3>2, AnswersGiven DEF SettlesReply
      <4> QED BY <3>2, <4>1, SettlesShared DEF SettlesReply
    <3> QED BY <2>2, <3>1, <3>2
  <2> QED
    BY <2>1, <2>2, GoesOnShared, JoinsShared, RepliesShared DEF FlightStep
<1> QED
  BY <1>1, <1>2, FlightInvariant, PTL
  DEF DerivedSpec, DerivedSharedSpec, DerivedShared!Spec

-----------------------------------------------------------------------------
(* How a call moves: where it stands, what it sends and starts, and the    *)
(* header it is given.                                                     *)

Counts ==
  /\ sends \in [Call -> Nat] /\ starts \in [Call -> Nat]
  /\ retry \in [Call -> BOOLEAN]
  /\ header \in [Call -> Token \union {None}]

MoveInv == FlightInv /\ Counts

Begins == {"idle", "replay"}
AwaitsHeader == {"metadata", "id_token"}

Once(c, f) == [f EXCEPT ![c] = @ + 1]

(* Without a refresh and without an API key, the header is the cached      *)
(* access token or none.                                                   *)
Delivers(c) ==
  /\ pc[c] \in Begins \union AwaitsHeader
  /\ \E label \in {"sent", "done"} : Goto(c, label)
  /\ \E token \in Token \union {None} :
       /\ header' = [header EXCEPT ![c] = token]
       /\ pc[c] \in Begins /\ ~apiKey /\ token # None
            => Usable /\ token = credentials.at
  /\ sends' \in {sends, Once(c, sends)}
  /\ UNCHANGED <<starts, retry>>

AsksForHeader(c) ==
  /\ pc[c] \in Begins
  /\ \E label \in AwaitsHeader : Goto(c, label)
  /\ starts' \in {starts, Once(c, starts)}
  /\ UNCHANGED <<sends, retry, header>>

AsksForToken(c) ==
  /\ pc[c] = "idle" /\ kind'[c] \notin {"request", "upload"}
  /\ \E label \in {"forced", "authorizing"} : Goto(c, label)
  /\ starts' \in {starts, Once(c, starts)}
  /\ UNCHANGED <<sends, retry, header>>

(* The catch clause, for the first try.                                    *)
AsksAgain(c) ==
  /\ pc[c] \in AwaitsHeader \union {"sent"}
  /\ ~retry[c] /\ retry' = [retry EXCEPT ![c] = TRUE]
  /\ \E label \in {"forced", "failed"} : Goto(c, label)
  /\ starts' \in {starts, Once(c, starts)}
  /\ UNCHANGED <<sends, header>>

WillReplay(c) ==
  /\ pc[c] = "forced" /\ kind[c] \in {"request", "upload"}
  /\ Goto(c, "replay")
  /\ UNCHANGED <<starts, sends, retry, header>>

EndsOrStops(c) ==
  /\ \E label \in {"done", "failed", "unauthorized", "revoking"} :
       Goto(c, label) /\ (label = "done" => pc[c] \notin Begins)
  /\ \E token \in Token \union {None} : header' = [header EXCEPT ![c] = token]
  /\ UNCHANGED <<starts, sends, retry>>

FetchesIdToken(c) ==
  /\ pc[c] = "idle"
  /\ Goto(c, "fetching")
  /\ UNCHANGED <<starts, sends, retry, header>>

SendsIdToken(c) ==
  /\ pc[c] \in {"idle", "fetching"}
  /\ Goto(c, "id_sent")
  /\ sends' = Once(c, sends)
  /\ UNCHANGED <<starts, retry, header>>

Turns(c) ==
  /\ \A e \in Call \ {c} : kind'[e] = kind[e]
  /\ pc[c] # "idle" => kind' = kind
  /\ \/ Delivers(c) \/ AsksForHeader(c) \/ AsksForToken(c) \/ AsksAgain(c)
     \/ WillReplay(c) \/ EndsOrStops(c) \/ FetchesIdToken(c) \/ SendsIdToken(c)

Stands == UNCHANGED <<pc, kind, sends, starts, retry, header>>

LEMMA HeldTokens ==
  ASSUME MoveInv, NEW c \in Call
  PROVE  /\ credentials.at \in Token \union {None}
         /\ got[c] # None => got[c].at \in Token \union {None}
         /\ header[c] \in Token \union {None}
         /\ header = [header EXCEPT ![c] = header[c]]
  BY DEF MoveInv, FlightInv, Types, DerivedTypeOK, Flow, Counts, Credentials, Result

LEMMA AsksStarts ==
  ASSUME NEW c \in Call, NEW rt,
         refreshToken(c, rt) \/ refreshTokenWithoutArgument(c)
  PROVE  starts' \in {starts, Once(c, starts)}
  BY DEF refreshToken, refreshTokenWithoutArgument, Once

(* The steps of a call that runs, but for what becomes of kind.            *)
Runs(c) ==
  \/ Delivers(c) \/ AsksForHeader(c) \/ AsksForToken(c) \/ AsksAgain(c)
  \/ WillReplay(c) \/ EndsOrStops(c)

LEMMA FailRuns ==
  ASSUME MoveInv, NEW c \in Call, UNCHANGED <<starts, retry, sends, header>>,
         NEW label \in {"failed", "unauthorized", "revoking"}, Goto(c, label)
  PROVE  Runs(c)
  BY HeldTokens DEF Runs, EndsOrStops

LEMMA ForcedRuns ==
  ASSUME MoveInv, NEW c \in Call, refreshAccessTokenAsync(c),
         \/ pc[c] = "idle" /\ kind'[c] \notin {"request", "upload"} /\ retry' = retry
         \/ /\ pc[c] \in AwaitsHeader \union {"sent"}
            /\ ~retry[c] /\ retry' = [retry EXCEPT ![c] = TRUE]
  PROVE  Runs(c)
<1>1. UNCHANGED <<sends, header>> /\ starts' \in {starts, Once(c, starts)}
  BY AsksStarts DEF refreshAccessTokenAsync, refreshVars
<1>2. \/ Goto(c, "failed") /\ starts' = starts
      \/ Goto(c, "forced")
  BY DEF refreshAccessTokenAsync, refreshVars
<1>3. CASE pc[c] = "idle" /\ retry' = retry /\ Goto(c, "failed") /\ starts' = starts
  BY <1>1, <1>3, FailRuns
<1> QED
  BY <1>1, <1>2, <1>3 DEF Runs, AsksForToken, AsksAgain, AwaitsHeader

LEMMA CatchRuns ==
  ASSUME MoveInv, NEW c \in Call, NEW status, NEW streamed,
         Catch(c, status, streamed), pc[c] \in AwaitsHeader \union {"sent"}
  PROVE  Runs(c)
<1>1. CASE /\ ~retry[c] /\ retry' = [retry EXCEPT ![c] = TRUE]
           /\ refreshAccessTokenAsync(c)
  BY <1>1, ForcedRuns
<1>2. CASE \E label \in {"unauthorized", "failed"} :
             Goto(c, label) /\ UNCHANGED <<retry, header, sends, refreshVars>>
  BY <1>2, FailRuns DEF refreshVars
<1> QED BY <1>1, <1>2 DEF Catch

LEMMA DeliverRuns ==
  ASSUME MoveInv, NEW c \in Call, NEW k, NEW token \in Token \union {None},
         Deliver(c, k, token), UNCHANGED <<starts, retry>>,
         pc[c] \in Begins \union AwaitsHeader,
         pc[c] \in Begins /\ ~apiKey /\ token # None
           => Usable /\ token = credentials.at
  PROVE  Runs(c)
  BY DEF Runs, Delivers, Deliver, Once

LEMMA MetadataRuns ==
  ASSUME MoveInv, NEW c \in Call, NEW k, NEW u, pc[c] \in Begins, retry' = retry,
         derivedRequestMetadataAsync(c, k, u)
  PROVE  Runs(c)
<1>1. CASE /\ \E label \in AwaitsHeader : Goto(c, label)
           /\ starts' \in {starts, Once(c, starts)}
           /\ UNCHANGED <<header, sends>>
  BY <1>1 DEF Runs, AsksForHeader
<1>2. CASE refreshTokenWithoutArgument(c) /\ Goto(c, "id_token")
  BY <1>1, <1>2, AsksStarts DEF refreshTokenWithoutArgument, AwaitsHeader
<1>3. CASE baseRequestMetadataAsync(c, k)
  <2>1. CASE Goto(c, "metadata") /\ refreshTokenWithoutArgument(c)
    BY <1>1, <2>1, AsksStarts DEF refreshTokenWithoutArgument, AwaitsHeader
  <2>2. CASE getRequestMetadataAsync(c, k)
    <3>1. CASE /\ Goto(c, "metadata") /\ refreshToken(c, credentials.rt)
               /\ UNCHANGED <<header, sends>>
      BY <1>1, <3>1, AsksStarts DEF AwaitsHeader
    <3>2. CASE Usable /\ Deliver(c, k, credentials.at) /\ UNCHANGED refreshVars
      BY <3>2, HeldTokens, DeliverRuns DEF refreshVars
    <3>3. CASE apiKey /\ Deliver(c, k, header[c]) /\ UNCHANGED refreshVars
      BY <3>3, HeldTokens, DeliverRuns DEF refreshVars
    <3>4. CASE Fail(c) /\ UNCHANGED refreshVars
      BY <3>4, FailRuns DEF Fail, refreshVars
    <3> QED BY <2>2, <3>1, <3>2, <3>3, <3>4 DEF getRequestMetadataAsync
  <2> QED BY <1>3, <2>1, <2>2 DEF baseRequestMetadataAsync
<1>4. CASE Deliver(c, k, None) /\ UNCHANGED refreshVars
  BY <1>4, DeliverRuns DEF refreshVars
<1>5. CASE Fail(c) /\ UNCHANGED refreshVars
  BY <1>5, FailRuns DEF Fail, refreshVars
<1> QED
  BY <1>2, <1>3, <1>4, <1>5 DEF derivedRequestMetadataAsync, getRequestHeaders

LEMMA CallTurns ==
  ASSUME MoveInv, NEW c \in Call,
         \/ derivedRequestAsync(c) \/ derivedRefreshAccessToken(c)
         \/ DerivedReplay(c) \/ authorizeAsync(c) \/ BaseCall(c)
  PROVE  Turns(c)
<1>1. ASSUME NEW k, Begin(c, k), Runs(c) PROVE Turns(c)
  BY <1>1 DEF Begin, MoveInv, FlightInv, Called, Runs, Turns
<1>2. ASSUME NEW k, Begin(c, k)
      PROVE  pc[c] = "idle" /\ kind'[c] = k /\ retry' = retry
  BY <1>2 DEF Begin, MoveInv, FlightInv, Called
<1>3. CASE derivedRequestAsync(c)
  <2> PICK k, u : Begin(c, k) /\ derivedRequestMetadataAsync(c, k, u)
    BY <1>3 DEF derivedRequestAsync
  <2>1. pc[c] = "idle" /\ retry' = retry
    BY DEF Begin
  <2> QED BY <1>1, <2>1, MetadataRuns DEF Begins
<1>4. CASE DerivedReplay(c)
  <2>1. /\ pc[c] = "replay" /\ UNCHANGED <<kind, retry>>
        /\ derivedRequestMetadataAsync(c, kind[c], url[c])
    BY <1>4 DEF DerivedReplay
  <2> QED BY <2>1, MetadataRuns DEF Begins, Runs, Turns
<1>5. CASE derivedRefreshAccessToken(c)
  <2>1. Begin(c, "refreshAccessToken")
    BY <1>5 DEF derivedRefreshAccessToken, refreshAccessToken
  <2>2. CASE refreshAccessTokenAsync(c)
    BY <1>1, <1>2, <2>1, <2>2, ForcedRuns
  <2>3. CASE Goto(c, "forced") /\ refreshTokenWithoutArgument(c)
    <3>1. UNCHANGED <<sends, header>> /\ starts' \in {starts, Once(c, starts)}
      BY <2>3, AsksStarts DEF refreshTokenWithoutArgument
    <3>2. pc[c] = "idle" /\ kind'[c] = "refreshAccessToken" /\ retry' = retry
      BY <1>2, <2>1
    <3>3. AsksForToken(c)
      BY <2>3, <3>1, <3>2 DEF AsksForToken
    <3> QED BY <1>1, <2>1, <3>3 DEF Runs
  <2> QED
    BY <1>5, <2>2, <2>3 DEF derivedRefreshAccessToken, refreshAccessToken
<1>6. CASE authorizeAsync(c)
  <2>1. /\ pc[c] = "idle" /\ UNCHANGED <<retry, sends, header>>
        /\ kind' = [kind EXCEPT ![c] = "authorize"]
        /\ Goto(c, "authorizing") /\ starts' = Once(c, starts)
    BY <1>6 DEF authorizeAsync, StartMore, refreshTokenWithoutArgument, Once
  <2>2. kind'[c] = "authorize"
    BY <2>1 DEF MoveInv, FlightInv, Called
  <2>3. AsksForToken(c)
    BY <2>1, <2>2 DEF AsksForToken
  <2> QED BY <2>1, <2>3 DEF Turns, MoveInv, FlightInv, Called
<1>7. CASE BaseCall(c)
  <2>1. CASE getAccessTokenAsync(c)
    <3>1. Begin(c, "getAccessToken")
      BY <2>1 DEF getAccessTokenAsync
    <3>2. CASE /\ Usable /\ Deliver(c, "getAccessToken", credentials.at)
               /\ UNCHANGED refreshVars
      BY <1>1, <1>2, <3>1, <3>2, HeldTokens, DeliverRuns DEF refreshVars, Begins
    <3>3. CASE refreshAccessTokenAsync(c)
      BY <1>1, <1>2, <3>1, <3>3, ForcedRuns
    <3> QED BY <2>1, <3>2, <3>3 DEF getAccessTokenAsync
  <2>2. CASE revokeCredentialsAsync(c)
    <3>1. /\ Begin(c, "revokeCredentials")
          /\ UNCHANGED <<starts, retry, sends, header>>
          /\ \E label \in {"revoking", "failed"} : Goto(c, label)
      BY <2>2 DEF revokeCredentialsAsync, Begin, refreshVars
    <3> QED BY <1>1, <3>1, FailRuns
  <2> QED BY <1>7, <2>1, <2>2 DEF BaseCall
<1> QED BY <1>3, <1>4, <1>5, <1>6, <1>7

LEMMA ContinuationTurns ==
  ASSUME MoveInv, NEW c \in Call,
         \/ Authorized(c) \/ AuthorizeRefused(c)
         \/ IdTokenReceived(c) \/ IdTokenRefused(c) \/ BaseContinuation(c)
  PROVE  Turns(c)
<1>1. kind' = kind /\ pc[c] # "idle" /\ got[c] # None
  BY DEF Authorized, AuthorizeRefused, IdTokenReceived, IdTokenRefused,
         BaseContinuation, MetadataRefreshed, MetadataRefused, ForcedRefreshed,
         ForcedRefused, Resume
<1>2. got[c].at \in Token \union {None}
  BY <1>1, HeldTokens
<1>3. CASE IdTokenReceived(c) \/ MetadataRefreshed(c)
  <2>1. /\ pc[c] \in AwaitsHeader /\ UNCHANGED <<starts, retry>>
        /\ Deliver(c, kind[c], got[c].at)
    BY <1>3 DEF IdTokenReceived, MetadataRefreshed, Resume, refreshVars, AwaitsHeader
  <2>2. pc[c] \notin Begins
    BY <2>1 DEF AwaitsHeader, Begins
  <2> QED BY <1>1, <1>2, <2>1, <2>2, DeliverRuns DEF Runs, Turns
<1>4. CASE Authorized(c)
  BY <1>1, <1>2, <1>4
  DEF Authorized, Resume, Turns, EndsOrStops, refreshVars, Begins
<1>5. CASE Fail(c) /\ UNCHANGED <<retry, refreshVars>>
  BY <1>1, <1>5, FailRuns DEF Fail, refreshVars, Runs, Turns
<1>6. CASE IdTokenRefused(c) \/ MetadataRefused(c)
  <2>1. pc[c] \in AwaitsHeader
    BY <1>6 DEF IdTokenRefused, MetadataRefused, Resume, AwaitsHeader
  <2>2. CASE Catch(c, got[c].status, FALSE)
    BY <1>1, <2>1, <2>2, CatchRuns DEF Runs, Turns
  <2> QED BY <1>5, <1>6, <2>2 DEF IdTokenRefused, MetadataRefused
<1>7. CASE ForcedRefreshed(c)
  <2>1. pc[c] = "forced" /\ UNCHANGED <<retry, sends, starts>>
    BY <1>7 DEF ForcedRefreshed, Resume, refreshVars
  <2>2. CASE kind[c] \in {"request", "upload"}
    BY <1>1, <1>7, <2>1, <2>2 DEF ForcedRefreshed, WillReplay, Turns
  <2>3. CASE kind[c] \notin {"request", "upload"}
    <3>1. \E label \in {"done", "failed"} : Goto(c, label)
      BY <1>7, <2>3 DEF ForcedRefreshed
    <3>2. header' = [header EXCEPT ![c] = got[c].at]
      BY <1>7, <2>3 DEF ForcedRefreshed
    <3> QED
      BY <1>1, <1>2, <2>1, <3>1, <3>2 DEF EndsOrStops, Turns, Begins
  <2> QED BY <2>2, <2>3
<1>8. CASE AuthorizeRefused(c) \/ ForcedRefused(c)
  BY <1>5, <1>8 DEF AuthorizeRefused, ForcedRefused
<1> QED BY <1>3, <1>4, <1>6, <1>7, <1>8 DEF BaseContinuation

LEMMA AnswerTurns ==
  ASSUME MoveInv, NEW c \in Call,
         \/ RawTokenGiven(c) \/ DerivedRefreshSettles(c)
         \/ TokenSourceAnswers(c) \/ BaseAnswer(c)
  PROVE  Turns(c) \/ Stands
<1>1. CASE RawTokenGiven(c) \/ DerivedRefreshSettles(c) \/ TokenSourceAnswers(c)
  BY <1>1
  DEF RawTokenGiven, DerivedRefreshSettles, RefreshSettles, TokenSourceAnswers,
      TokenEndpointGrants, TokenEndpointOmitsToken, TokenEndpointRefuses,
      TokenEndpointAnswers, callVars, Stands
<1>2. CASE BaseAnswer(c)
  <2>1. kind' = kind /\ pc[c] \in {"sent", "revoking"}
    BY <1>2 DEF BaseAnswer, ApiAnswers, RevokeAnswers
  <2>2. CASE /\ \E label \in {"done", "failed"} : Goto(c, label)
             /\ UNCHANGED <<retry, header, sends, refreshVars>>
    BY <2>1, <2>2, HeldTokens DEF Turns, EndsOrStops, refreshVars, Begins
  <2>3. CASE pc[c] = "sent" /\ \E status, streamed : Catch(c, status, streamed)
    BY <2>1, <2>3, CatchRuns DEF Runs, Turns
  <2> QED BY <1>2, <2>2, <2>3 DEF BaseAnswer, ApiAnswers, RevokeAnswers
<1> QED BY <1>1, <1>2

LEMMA IdTokenClientTurns ==
  ASSUME MoveInv, NEW c \in Call, IdTokenClientStep(c)
  PROVE  Turns(c)
<1>1. CASE idTokenRequest(c)
  <2>1. /\ pc[c] = "idle" /\ kind' = [kind EXCEPT ![c] = "idTokenRequest"]
        /\ UNCHANGED <<starts, retry, header>>
        /\ \/ Goto(c, "fetching") /\ UNCHANGED sends
           \/ Goto(c, "id_sent") /\ sends' = Once(c, sends)
    BY <1>1 DEF idTokenRequest, StartMore, SendIdToken, refreshVars, Once
  <2> QED
    BY <2>1 DEF Turns, FetchesIdToken, SendsIdToken, MoveInv, FlightInv, Called
<1>2. CASE IdTokenFetched(c)
  BY <1>2 DEF IdTokenFetched, SendIdToken, Turns, SendsIdToken, refreshVars, Once
<1>3. CASE IdTokenNotFetched(c) \/ IdApiAnswers(c)
  <2>1. /\ pc[c] \notin Begins /\ kind' = kind
        /\ UNCHANGED <<starts, sends, retry, header>>
        /\ \E label \in {"done", "failed", "unauthorized"} : Goto(c, label)
    BY <1>3 DEF IdTokenNotFetched, IdApiAnswers, Fail, refreshVars, Begins
  <2> QED BY <2>1, HeldTokens DEF Turns, EndsOrStops
<1> QED BY <1>1, <1>2, <1>3 DEF IdTokenClientStep

LEMMA TurnSteps ==
  MoveInv /\ [DerivedNext]_derivedVars => Stands \/ \E c \in Call : Turns(c)
<1> SUFFICES ASSUME MoveInv, [DerivedNext]_derivedVars
             PROVE  Stands \/ \E c \in Call : Turns(c)
  OBVIOUS
<1>1. ASSUME NEW c \in Call, ClientStep(c) PROVE Turns(c) \/ Stands
  BY <1>1, CallTurns, ContinuationTurns, AnswerTurns DEF ClientStep
<1>2. ASSUME NEW c \in Call, IdTokenClientStep(c) PROVE Turns(c)
  BY <1>2, IdTokenClientTurns
<1>3. CASE DerivedTick \/ UNCHANGED derivedVars
  BY <1>3 DEF DerivedTick, Tick, derivedVars, vars, refreshVars, callVars, Stands
<1> QED BY <1>1, <1>2, <1>3 DEF DerivedNext

LEMMA MoveInvariant == DerivedSpec => []MoveInv
<1>1. DerivedInit => Counts
  BY DEF DerivedInit, Init, Counts
<1>2. MoveInv /\ [DerivedNext]_derivedVars => Counts'
  <2>1. ASSUME MoveInv, NEW c \in Call, Turns(c) PROVE Counts'
    <3> USE <2>1 DEF MoveInv, Counts
    <3>1. /\ sends' \in {sends, Once(c, sends)}
          /\ starts' \in {starts, Once(c, starts)}
          /\ retry' \in {retry, [retry EXCEPT ![c] = TRUE]}
          /\ \E token \in Token \union {None} :
               header' = [header EXCEPT ![c] = token]
      BY HeldTokens
      DEF Turns, Delivers, AsksForHeader, AsksForToken, AsksAgain,
          WillReplay, EndsOrStops, FetchesIdToken, SendsIdToken
    <3>2. Once(c, sends) \in [Call -> Nat] /\ Once(c, starts) \in [Call -> Nat]
      BY DEF Once
    <3>3. sends' \in [Call -> Nat] /\ starts' \in [Call -> Nat]
      BY <3>1, <3>2
    <3>4. retry' \in [Call -> BOOLEAN] /\ header' \in [Call -> Token \union {None}]
      BY <3>1
    <3> QED BY <3>3, <3>4
  <2>2. ASSUME MoveInv, Stands PROVE Counts'
    BY <2>2 DEF MoveInv, Counts, Stands
  <2> QED BY <2>1, <2>2, TurnSteps
<1> QED BY <1>1, <1>2, FlightInvariant, PTL DEF DerivedSpec, MoveInv

-----------------------------------------------------------------------------
(* Effort.  What a call has sent and started so far depends on where it    *)
(* stands and on whether it is a replay, also where it goes around the     *)
(* base class: for an ID token, for authorize() or to an IdTokenClient.    *)

Effort(c) ==
  /\ sends[c] <= 2 /\ starts[c] <= 3
  /\ ~retry[c] => sends[c] <= 1 /\ starts[c] <= 1
  /\ pc[c] = "idle" => sends[c] = 0 /\ starts[c] = 0 /\ ~retry[c]
  /\ pc[c] \in AwaitsHeader => sends[c] <= 1 /\ (~retry[c] => sends[c] = 0)
  /\ pc[c] \in {"forced", "replay"} => sends[c] <= 1 /\ starts[c] <= 2
  /\ pc[c] = "forced" /\ kind[c] \in {"request", "upload"} => retry[c]
  /\ pc[c] = "replay" => retry[c]
  /\ pc[c] = "fetching" => sends[c] = 0

EffortInv == \A c \in Call : Effort(c)

LEMMA EffortNumbers ==
  ASSUME MoveInv, EffortInv, NEW c \in Call
  PROVE  /\ sends[c] \in Nat /\ starts[c] \in Nat /\ retry[c] \in BOOLEAN
         /\ pc \in [Call -> Labels] /\ Effort(c)
         /\ Once(c, sends)[c] = sends[c] + 1 /\ Once(c, starts)[c] = starts[c] + 1
  BY DEF MoveInv, FlightInv, Types, Flow, Counts, EffortInv, Once

LEMMA TurnsEffort ==
  ASSUME MoveInv, EffortInv, NEW c \in Call, Turns(c)
  PROVE  Effort(c)'
<1> USE EffortNumbers DEF Effort, AwaitsHeader, Begins
<1>1. CASE Delivers(c)
  <2>1. /\ pc'[c] \in {"sent", "done"} /\ starts' = starts /\ retry' = retry
        /\ sends'[c] = sends[c] \/ sends'[c] = sends[c] + 1
    BY <1>1 DEF Delivers, Goto
  <2>2. /\ sends[c] <= 1 /\ starts[c] <= 3
        /\ ~retry[c] => sends[c] = 0 /\ starts[c] <= 1
    BY <1>1 DEF Delivers
  <2>3. /\ sends'[c] <= 2 /\ starts'[c] <= 3
        /\ ~retry'[c] => sends'[c] <= 1 /\ starts'[c] <= 1
    BY <2>1, <2>2
  <2> QED BY <2>1, <2>3
<1>2. CASE AsksForHeader(c)
  <2>1. /\ pc'[c] \in AwaitsHeader /\ sends' = sends /\ retry' = retry
        /\ starts'[c] = starts[c] \/ starts'[c] = starts[c] + 1
    BY <1>2 DEF AsksForHeader, Goto
  <2>2. /\ sends[c] <= 1 /\ starts[c] <= 2
        /\ ~retry[c] => sends[c] = 0 /\ starts[c] = 0
    BY <1>2 DEF AsksForHeader
  <2>3. /\ sends'[c] <= 1 /\ sends'[c] <= 2 /\ starts'[c] <= 3
        /\ ~retry'[c] => sends'[c] = 0 /\ sends'[c] <= 1 /\ starts'[c] <= 1
    BY <2>1, <2>2
  <2> QED BY <2>1, <2>3
<1>3. CASE AsksForToken(c) \/ AsksAgain(c)
  <2>1. /\ pc'[c] \in {"forced", "failed", "authorizing"} /\ sends' = sends
        /\ starts'[c] = starts[c] \/ starts'[c] = starts[c] + 1
        /\ retry'[c] \/ kind'[c] \notin {"request", "upload"}
    BY <1>3 DEF AsksForToken, AsksAgain, Goto, MoveInv, Counts
  <2>2. sends[c] <= 1 /\ starts[c] <= 1 /\ (retry'[c] \/ starts[c] = 0)
    BY <1>3 DEF AsksForToken, AsksAgain, MoveInv, Counts
  <2>3. /\ sends'[c] <= 1 /\ sends'[c] <= 2 /\ starts'[c] <= 2 /\ starts'[c] <= 3
        /\ ~retry'[c] => starts'[c] <= 1
    BY <2>1, <2>2
  <2> QED BY <2>1, <2>3
<1>4. CASE WillReplay(c)
  BY <1>4 DEF WillReplay, Goto
<1>5. CASE EndsOrStops(c)
  BY <1>5 DEF EndsOrStops, Goto
<1>6. CASE FetchesIdToken(c)
  BY <1>6 DEF FetchesIdToken, Goto
<1>7. CASE SendsIdToken(c)
  <2>1. /\ pc'[c] = "id_sent" /\ starts' = starts /\ retry' = retry
        /\ sends'[c] = sends[c] + 1 /\ sends[c] = 0
    BY <1>7 DEF SendsIdToken, Goto
  <2>2. sends'[c] <= 1 /\ sends'[c] <= 2
    BY <2>1
  <2> QED BY <2>1, <2>2
<1> QED BY <1>1, <1>2, <1>3, <1>4, <1>5, <1>6, <1>7 DEF Turns

(* The other calls' effort stays what it is.                               *)
LEMMA OthersRest ==
  ASSUME MoveInv, NEW c \in Call, Turns(c), NEW e \in Call, e # c
  PROVE  /\ pc'[e] = pc[e] /\ kind'[e] = kind[e] /\ retry'[e] = retry[e]
         /\ sends'[e] = sends[e] /\ starts'[e] = starts[e]
<1>1. Once(c, sends)[e] = sends[e] /\ Once(c, starts)[e] = starts[e]
  BY DEF Once, MoveInv, Counts
<1> QED
  BY <1>1
  DEF Turns, Delivers, AsksForHeader, AsksForToken, AsksAgain, WillReplay,
      EndsOrStops, FetchesIdToken, SendsIdToken, Goto, MoveInv, Counts,
      FlightInv, Types, Flow

LEMMA EffortNext ==
  MoveInv /\ EffortInv /\ [DerivedNext]_derivedVars => EffortInv'
<1> SUFFICES ASSUME MoveInv, EffortInv, [DerivedNext]_derivedVars PROVE EffortInv'
  OBVIOUS
<1>1. ASSUME NEW c \in Call, Turns(c) PROVE EffortInv'
  <2> SUFFICES ASSUME NEW e \in Call, e # c PROVE Effort(e)'
    BY <1>1, TurnsEffort DEF EffortInv
  <2>1. Effort(e)
    BY DEF EffortInv
  <2> QED BY <1>1, <2>1, OthersRest DEF Effort
<1>2. CASE Stands
  BY <1>2 DEF Stands, EffortInv, Effort
<1> QED BY <1>1, <1>2, TurnSteps

(* A request reaches the API at most twice and starts at most three        *)
(* refreshes, whatever class the client is of.                             *)
THEOREM DerivedEffortBounded == DerivedSpec => []BoundedEffort
<1>1. DerivedInit => EffortInv
  <2> SUFFICES ASSUME DerivedInit, NEW c \in Call PROVE Effort(c)
    BY DEF EffortInv
  <2>1. sends[c] = 0 /\ starts[c] = 0 /\ pc[c] = "idle" /\ ~retry[c]
    BY DEF DerivedInit, Init
  <2>2. sends[c] <= 1 /\ starts[c] <= 1 /\ sends[c] <= 2 /\ starts[c] <= 3
    BY <2>1
  <2> QED BY <2>1, <2>2 DEF Effort, AwaitsHeader
<1>2. EffortInv => BoundedEffort
  BY DEF EffortInv, Effort, BoundedEffort
<1> QED
  BY <1>1, <1>2, EffortNext, MoveInvariant, PTL DEF DerivedSpec

-----------------------------------------------------------------------------
(* Tokens and their end.  expiry_date counts from the arrival of the       *)
(* answer, which is at most MaxLatency after the grant, and gtoken hands   *)
(* the expiry it computed on with the token.                               *)

Late(t, exp) == exp # 0 => exp <= t.deadline + Threshold

LiveInv ==
  /\ credentials.at # None => Late(credentials.at, credentials.exp)
  /\ gtoken.at # None => Late(gtoken.at, gtoken.exp)
  /\ \A d \in Call : got[d] # None /\ got[d].at # None => Late(got[d].at, got[d].exp)
  /\ \A d \in Call : post[d] # None /\ post[d].reply # None =>
       /\ now <= post[d].reply.since + MaxLatency
       /\ post[d].reply.token # None /\ post[d].reply.expires_in > 0
            => post[d].reply.since + post[d].reply.expires_in
                 <= post[d].reply.token.deadline

LEMMA LiveSettles ==
  ASSUME FlightInv, LiveInv, NEW c \in Call, NEW r, SettlesWith(c, r),
         r.at # None => Late(r.at, r.exp),
         gtoken'.at # None => Late(gtoken'.at, gtoken'.exp)
  PROVE  LiveInv'
<1>1. \A d \in Call : post'[d] = None \/ post'[d] = post[d]
  BY DEF SettlesWith, FlightInv, Types, Flow
<1>2. \A d \in Call : got'[d] = r \/ got'[d] = got[d]
  BY DEF SettlesWith
<1>3. now' = now /\ credentials' = credentials
  BY DEF SettlesWith
<1> QED BY <1>1, <1>2, <1>3 DEF LiveInv

LEMMA LiveOutcome ==
  ASSUME FlightInv, LiveInv, MaxLatency <= Threshold, NEW c \in Call,
         post[c] # None, post[c].reply # None, post[c].reply.token # None
  PROVE  Late(post[c].reply.token, Outcome(post[c].reply).exp)
<1> DEFINE reply == post[c].reply
<1> SUFFICES ASSUME reply.expires_in > 0
             PROVE  now + reply.expires_in <= reply.token.deadline + Threshold
  BY DEF Outcome, Late
<1>1. /\ now <= reply.since + MaxLatency
      /\ reply.since + reply.expires_in <= reply.token.deadline
  BY DEF LiveInv
<1>2. reply \in Reply
  BY DEF FlightInv, Types, Flow, Post
<1>3. /\ {now, reply.since, reply.expires_in} \subseteq Nat
      /\ reply.token.deadline \in Nat
  BY <1>2 DEF FlightInv, Types, Flow, Reply, Token
<1> HIDE DEF reply
<1> QED BY <1>1, <1>3, ConstantsOk DEF ConstantsOk

LEMMA LiveReplies ==
  ASSUME FlightInv, LiveInv, NEW c \in Call, Replies(c)
  PROVE  LiveInv'
<1> PICK reply \in Reply : /\ TokenEndpointAnswers(c, reply)
                           /\ Grants(c, reply) \/ Denies(reply)
  BY EndpointReplies
<1>1. UNCHANGED <<now, credentials, got, gtoken>>
  BY DEF TokenEndpointAnswers, callVars, Replies
<1>2. \A d \in Call : d # c => post'[d] = post[d]
  BY DEF TokenEndpointAnswers, FlightInv, Types, Flow
<1>3. post'[c].reply = reply
  BY DEF TokenEndpointAnswers, FlightInv, Types, Flow, Post
<1>4. reply.since = now
  BY DEF Grants, Denies
<1>5. now <= now + MaxLatency
  BY ConstantsOk DEF FlightInv, Types, Flow, ConstantsOk
<1>6. reply.token # None /\ reply.expires_in > 0
        => now + reply.expires_in <= reply.token.deadline
  <2>1. CASE Grants(c, reply)
    <3> PICK life \in Lifetimes :
          /\ reply.token = [rt |-> post[c].rt, serial |-> issued + 1,
                            deadline |-> now + life]
          /\ reply.expires_in = IF ReportsExpiry THEN life ELSE 0
      BY <2>1 DEF Grants
    <3> QED BY ConstantsOk DEF ConstantsOk, FlightInv, Types, Flow
  <2>2. CASE Denies(reply)
    BY <2>2 DEF Denies
  <2> QED BY <2>1, <2>2
<1> QED BY <1>1, <1>2, <1>3, <1>4, <1>5, <1>6 DEF LiveInv

LEMMA LiveStep ==
  ASSUME FlightInv, LiveInv, FlightStep, MaxLatency <= Threshold
  PROVE  LiveInv'
<1>1. CASE Quiet
  <2>1. UNCHANGED <<credentials, gtoken, got, post>>
    BY <1>1 DEF Quiet
  <2>2. CASE now' = now
    BY <2>1, <2>2 DEF LiveInv
  <2>3. CASE DerivedTick
    <3>1. ASSUME NEW d \in Call, post[d] # None, post[d].reply # None
          PROVE  now' <= post[d].reply.since + MaxLatency
      <4>1. post[d].reply.since \in Nat
        BY <3>1 DEF FlightInv, Types, Flow, Post, Reply
      <4>2. now < post[d].reply.since + MaxLatency /\ now' = now + 1
        BY <2>3, <3>1 DEF DerivedTick, Tick
      <4> QED BY <4>1, <4>2, ConstantsOk DEF FlightInv, Types, Flow, ConstantsOk
    <3> QED BY <2>1, <3>1 DEF LiveInv
  <2> QED BY <1>1, <2>2, <2>3 DEF Quiet
<1>2. ASSUME NEW c \in Call, GoesOn(c) PROVE LiveInv'
  <2>1. /\ UNCHANGED <<post, now, gtoken>>
        /\ \A d \in Call : got'[d] = None \/ got'[d] = got[d]
    BY <1>2 DEF GoesOn, FlightInv, Types, Flow
  <2>2. credentials'.at # None => Late(credentials'.at, credentials'.exp)
    BY <1>2 DEF GoesOn, Stores, Answered, Keeps, Revokes, NoCredentials, LiveInv
  <2> QED BY <2>1, <2>2 DEF LiveInv
<1>3. ASSUME NEW c \in Call, Joins(c) PROVE LiveInv'
  <2>1. /\ UNCHANGED <<credentials, now, gtoken>>
        /\ \A d \in Call : got'[d] = None \/ got'[d] = got[d]
    BY <1>3 DEF Joins, FlightInv, Types, Flow
  <2>2. \A d \in Call : post'[d] = post[d] \/ post'[d].reply = None
    BY <1>3
    DEF Joins, Asks, refreshToken, refreshTokenWithoutArgument, FlightInv, Types,
        Flow
  <2> QED BY <2>1, <2>2 DEF LiveInv
<1>4. ASSUME NEW c \in Call, SettlesRaw(c) PROVE LiveInv'
  <2>1. RawToken.at # None => Late(RawToken.at, RawToken.exp)
    BY DEF RawToken, LiveInv
  <2>2. gtoken' = gtoken /\ SettlesWith(c, RawToken)
    BY <1>4 DEF SettlesRaw
  <2> QED BY <2>1, <2>2, LiveSettles DEF LiveInv
<1>5. ASSUME NEW c \in Call, SettlesReply(c) PROVE LiveInv'
  <2> DEFINE r == Outcome(post[c].reply)
  <2>1. post[c] # None /\ post[c].reply # None /\ SettlesWith(c, r)
    BY <1>5 DEF SettlesReply
  <2>2. r.at = post[c].reply.token
    BY DEF Outcome
  <2>3. r.at # None => Late(r.at, r.exp)
    BY <2>1, <2>2, LiveOutcome
  <2>4. gtoken' \in {gtoken, NoRawToken, [at |-> r.at, exp |-> r.exp]}
    BY <1>5, <2>2 DEF SettlesReply
  <2>5. gtoken'.at # None => Late(gtoken'.at, gtoken'.exp)
    BY <2>3, <2>4 DEF NoRawToken, LiveInv
  <2> HIDE DEF r
  <2> QED BY <2>1, <2>3, <2>5, LiveSettles
<1> QED
  BY <1>1, <1>2, <1>3, <1>4, <1>5, LiveReplies DEF FlightStep

LEMMA LiveInvariant ==
  ASSUME MaxLatency <= Threshold,
         \A s \in Installed : s.at # None => Late(s.at, s.exp)
  PROVE  DerivedSpec => []LiveInv
<1>1. DerivedInit => LiveInv
  BY DEF DerivedInit, Init, LiveInv, Constructed, Expired, Undated, NoRawToken
<1>2. FlightInv /\ LiveInv /\ [DerivedNext]_derivedVars => LiveInv'
  BY FlightSteps, LiveStep
<1> QED BY <1>1, <1>2, FlightInvariant, PTL DEF DerivedSpec

(* A call that uses the client's access token without a refresh uses one   *)
(* that the endpoint still accepts, also when gtoken has held the token    *)
(* in between.  Without an API key, which leaves an old header in place.   *)
THEOREM DerivedCachedIsLive ==
  ASSUME TRUE \notin ApiKeys, MaxLatency <= Threshold,
         \A s \in Installed : s.at # None => Late(s.at, s.exp)
  PROVE  DerivedSpec => CachedTokenIsLive
<1> DEFINE NoKey == apiKey = FALSE
<1>1. DerivedInit => NoKey
  BY ConstantsOk DEF DerivedInit, Init, ConstantsOk
<1>2. FlightInv /\ NoKey /\ [DerivedNext]_derivedVars => NoKey'
  BY FlightSteps DEF FlightStep
<1>3. MoveInv /\ LiveInv /\ NoKey /\ [DerivedNext]_derivedVars =>
        [ \A c \in Call :
            /\ pc[c] \in {"idle", "replay"} /\ pc'[c] \in {"sent", "done"}
            /\ header'[c] # None /\ header'[c] = credentials.at
            /\ credentials.exp # 0
            => header'[c].deadline > now ]_vars
  <2> SUFFICES ASSUME MoveInv, LiveInv, ~apiKey, NEW c \in Call,
                      Stands \/ \E e \in Call : Turns(e),
                      pc[c] \in {"idle", "replay"}, pc'[c] \in {"sent", "done"},
                      header'[c] # None, header'[c] = credentials.at,
                      credentials.exp # 0
               PROVE  header'[c].deadline > now
    BY TurnSteps
  <2>1. Turns(c)
    BY OthersRest DEF Stands
  <2>2. Delivers(c)
    BY <2>1
    DEF Turns, AsksForHeader, AsksForToken, AsksAgain, WillReplay, EndsOrStops,
        FetchesIdToken, SendsIdToken, Goto, Begins, AwaitsHeader,
        MoveInv, FlightInv, Types, Flow
  <2>3. Usable
    BY <2>2 DEF Delivers, Begins, MoveInv, Counts
  <2>4. /\ ~(credentials.exp <= now + Threshold)
        /\ credentials.exp <= credentials.at.deadline + Threshold
    BY <2>3 DEF Usable, isTokenExpiring, LiveInv, Late
  <2>5. {now, credentials.exp, credentials.at.deadline} \subseteq Nat
    BY DEF MoveInv, FlightInv, Types, Flow, DerivedTypeOK, Credentials, Token
  <2>6. credentials.at.deadline > now
    BY <2>4, <2>5, ConstantsOk DEF ConstantsOk
  <2> QED BY <2>6
<1>4. ASSUME TRUE PROVE DerivedSpec => []NoKey
  BY <1>1, <1>2, FlightInvariant, PTL DEF DerivedSpec
<1> QED
  BY <1>3, <1>4, MoveInvariant, LiveInvariant, PTL
  DEF DerivedSpec, CachedTokenIsLive

-----------------------------------------------------------------------------
(* Each token is new.  A token that is pending, in an answer on its way,   *)
(* is in no other answer, and nobody holds it yet.                         *)

Pending(c, t) == /\ post[c] # None /\ post[c].reply # None
                 /\ post[c].reply.token = t /\ t # None
Holds(t) ==
  /\ t # None
  /\ \/ t = credentials.at \/ t = gtoken.at
     \/ \E d \in Call : got[d] # None /\ got[d].at = t

FreshInv ==
  /\ \A t \in Token : Holds(t) => t.serial <= issued
  /\ \A c \in Call, t \in Token : Pending(c, t) => t.serial <= issued /\ ~Holds(t)
  /\ \A c, d \in Call, t \in Token : Pending(c, t) /\ Pending(d, t) => c = d

(* A step that takes no answer from the endpoint brings nobody a token     *)
(* that nobody held.                                                       *)
LEMMA FreshKept ==
  ASSUME FlightInv, FreshInv, UNCHANGED issued,
         \A t \in Token : Holds(t)' => Holds(t),
         \A c \in Call, t \in Token : Pending(c, t)' => Pending(c, t)
  PROVE  FreshInv'
  BY DEF FreshInv

LEMMA FreshReply ==
  ASSUME FlightInv, FreshInv, NEW c \in Call, SettlesReply(c)
  PROVE  FreshInv'
<1>1. /\ post[c] # None /\ post[c].reply # None
      /\ SettlesWith(c, Outcome(post[c].reply))
      /\ \/ gtoken' \in {gtoken, NoRawToken}
         \/ gtoken'.at = post[c].reply.token
  BY DEF SettlesReply
<1>2. Outcome(post[c].reply).at = post[c].reply.token
  BY DEF Outcome
<1>3. \A t \in Token : Holds(t)' => Holds(t) \/ Pending(c, t)
  BY <1>1, <1>2 DEF SettlesWith, Holds, Pending, NoRawToken
<1>4. \A d \in Call, t \in Token : Pending(d, t)' => Pending(d, t) /\ d # c
  BY <1>1 DEF SettlesWith, Pending, FlightInv, Types, Flow
<1>5. issued' = issued
  BY <1>1 DEF SettlesWith
<1> QED BY <1>3, <1>4, <1>5 DEF FreshInv

LEMMA FreshReplies ==
  ASSUME FlightInv, FreshInv, NEW c \in Call, Replies(c)
  PROVE  FreshInv'
<1> PICK reply \in Reply : /\ TokenEndpointAnswers(c, reply)
                           /\ Grants(c, reply) \/ Denies(reply)
  BY EndpointReplies
<1>1. \A t \in Token : Holds(t)' <=> Holds(t)
  BY DEF Holds, TokenEndpointAnswers, callVars, Replies
<1>2. /\ \A d \in Call : d # c => post'[d] = post[d]
      /\ post'[c].reply = reply
  BY DEF TokenEndpointAnswers, FlightInv, Types, Flow, Post
<1>3. CASE Denies(reply)
  BY <1>1, <1>2, <1>3, FreshKept DEF Denies, Pending
<1>4. CASE Grants(c, reply)
  <2>1. /\ issued' = issued + 1 /\ issued \in Nat
        /\ reply.token.serial = issued + 1
    BY <1>4 DEF Grants, FlightInv, Types, Flow
  <2>2. \A d \in Call, t \in Token :
          Pending(d, t)' => \/ Pending(d, t) /\ d # c
                            \/ d = c /\ t.serial = issued + 1
    BY <1>2, <2>1 DEF Pending
  <2>3. \A t \in Token : t.serial \in Nat
    BY DEF Token
  <2>4. \A t \in Token :
          t.serial <= issued => t.serial # issued + 1 /\ t.serial <= issued'
    BY <2>1, <2>3
  <2>5. \A t \in Token : Holds(t) => t.serial <= issued
    BY DEF FreshInv
  <2>6. \A d \in Call, t \in Token : Pending(d, t) => t.serial <= issued
    BY DEF FreshInv
  <2>7. \A t \in Token : Holds(t)' => t.serial <= issued'
    BY <1>1, <2>4, <2>5
  <2>8. \A d \in Call, t \in Token :
          Pending(d, t)' => t.serial <= issued' /\ ~Holds(t)'
    BY <1>1, <2>1, <2>2, <2>4, <2>5, <2>6 DEF FreshInv
  <2>9. \A d, e \in Call, t \in Token : Pending(d, t)' /\ Pending(e, t)' => d = e
    BY <2>2, <2>4, <2>6 DEF FreshInv
  <2> QED BY <2>7, <2>8, <2>9 DEF FreshInv
<1> QED BY <1>3, <1>4

LEMMA FreshStep == FlightInv /\ FreshInv /\ FlightStep => FreshInv'
<1> SUFFICES ASSUME FlightInv, FreshInv, FlightStep PROVE FreshInv'
  OBVIOUS
<1>1. CASE Quiet
  BY <1>1, FreshKept DEF Quiet, Holds, Pending
<1>2. ASSUME NEW c \in Call, GoesOn(c) PROVE FreshInv'
  <2>1. /\ UNCHANGED <<post, issued, gtoken>>
        /\ \A d \in Call : got'[d] = None \/ got'[d] = got[d]
    BY <1>2 DEF GoesOn, FlightInv, Types, Flow
  <2>2. \/ credentials'.at \in {None, credentials.at}
        \/ got[c] # None /\ credentials'.at = got[c].at
    BY <1>2 DEF GoesOn, Stores, Answered, Keeps, Revokes, NoCredentials
  <2> QED BY <2>1, <2>2, FreshKept DEF Holds, Pending
<1>3. ASSUME NEW c \in Call, Joins(c) PROVE FreshInv'
  <2>1. /\ UNCHANGED <<credentials, issued, gtoken>>
        /\ \A d \in Call : got'[d] = None \/ got'[d] = got[d]
    BY <1>3 DEF Joins, FlightInv, Types, Flow
  <2>2. \A d \in Call : post'[d] = post[d] \/ post'[d].reply = None
    BY <1>3
    DEF Joins, Asks, refreshToken, refreshTokenWithoutArgument, FlightInv, Types,
        Flow
  <2> QED BY <2>1, <2>2, FreshKept DEF Holds, Pending
<1>4. ASSUME NEW c \in Call, SettlesRaw(c) PROVE FreshInv'
  <2>1. /\ UNCHANGED <<credentials, issued, gtoken>>
        /\ \A d \in Call : got'[d] = RawToken \/ got'[d] = got[d]
        /\ \A d \in Call : post'[d] = None \/ post'[d] = post[d]
    BY <1>4 DEF SettlesRaw, SettlesWith, FlightInv, Types, Flow
  <2> QED BY <2>1, FreshKept DEF Holds, Pending, RawToken
<1> QED
  BY <1>1, <1>2, <1>3, <1>4, FreshReply, FreshReplies DEF FlightStep

-----------------------------------------------------------------------------
(* What gtoken and the client hold.  The client asks for an ID token only  *)
(* with a target_audience, and only without one does gtoken keep a token;  *)
(* an answer comes from an endpoint only if one was asked; and what a call *)
(* is given to take is what gtoken holds.                                  *)

RawInv ==
  /\ \A c \in Call : pc[c] = "id_token" => target_audience
  /\ ~UsesRaw => gtoken.at = None
  /\ \A c \in Call : post[c] # None /\ post[c].reply # None => asks[c]
  /\ \A c \in Call : UsesRaw /\ Answered(c)
                       => got[c].at = gtoken.at /\ got[c].exp = gtoken.exp

(* When the endpoint's answers come, all refreshes in flight ask for one.  *)
LEMMA IdleAsks ==
  ASSUME FlightInv, RawInv, Idle
  PROVE  /\ \A c \in Call : post[c] # None => asks[c]
         /\ \A c \in Call : got[c] = None /\ ~Answered(c)
  BY DEF Idle, Ready, HasRawToken, RawInv, Answered

LEMMA RawStep == FlightInv /\ RawInv /\ FlightStep => RawInv'
<1> SUFFICES ASSUME FlightInv, RawInv, FlightStep PROVE RawInv'
  OBVIOUS
<1>0. /\ UNCHANGED <<target_audience, class>>
      /\ asks \in [Call -> BOOLEAN] /\ post \in [Call -> Post \union {None}]
      /\ got \in [Call -> Result \union {None}] /\ pc \in [Call -> Labels]
  BY DEF FlightStep, options, FlightInv, Types, DerivedTypeOK, Flow
<1> USE DEF UsesRaw
<1>1. CASE Quiet
  BY <1>0, <1>1 DEF Quiet, RawInv, Answered
<1>2. ASSUME NEW c \in Call, GoesOn(c) PROVE RawInv'
  <2>1. /\ UNCHANGED <<post, gtoken>> /\ SameFlights
        /\ \A d \in Call : got'[d] = None \/ got'[d] = got[d]
        /\ \A d \in Call : pc'[d] = "id_token" => pc[d] = "id_token"
    BY <1>0, <1>2 DEF GoesOn, Goto, Waits
  <2> QED BY <1>0, <2>1 DEF RawInv, Answered, SameFlights
<1>3. ASSUME NEW c \in Call, Joins(c) PROVE RawInv'
  <2>1. /\ gtoken' = gtoken
        /\ \A d \in Call : got'[d] = None \/ got'[d] = got[d]
        /\ \A d \in Call :
             pc'[d] = "id_token" => pc[d] = "id_token" \/ target_audience
    BY <1>0, <1>3 DEF Joins, Goto
  <2>2. \A d \in Call : post'[d] = post[d] \/ post'[d].reply = None
    BY <1>0, <1>3 DEF Joins, Asks, refreshToken, refreshTokenWithoutArgument
  <2>3. \A d \in Call : post[d] # None /\ post'[d] # None => asks'[d] = asks[d]
    BY <1>3, AsksKept DEF Joins
  <2> QED BY <1>0, <2>1, <2>2, <2>3 DEF RawInv, Answered
<1>4. ASSUME NEW c \in Call, SettlesRaw(c) PROVE RawInv'
  <2>1. /\ UNCHANGED <<gtoken, pc>>
        /\ \A d \in Call : got'[d] = RawToken \/ got'[d] = got[d]
        /\ \A d \in Call : \/ post'[d] = None
                           \/ post'[d] = post[d] /\ asks'[d] = asks[d]
    BY <1>0, <1>4 DEF SettlesRaw, SettlesWith
  <2> QED BY <1>0, <2>1 DEF RawInv, Answered, RawToken
<1>5. ASSUME NEW c \in Call, SettlesReply(c) PROVE RawInv'
  <2> DEFINE r == Outcome(post[c].reply)
  <2>1. /\ pc' = pc
        /\ \A d \in Call : got'[d] = r \/ got'[d] = None
        /\ \A d \in Call : \/ post'[d] = None
                           \/ post'[d] = post[d] /\ asks'[d] = asks[d]
    BY <1>0, <1>5, IdleAsks DEF SettlesReply, SettlesWith
  <2>2. ~UsesRaw => gtoken' = gtoken
    BY <1>5 DEF SettlesReply
  <2>3. UsesRaw /\ r.status = "ok" => r.at = gtoken'.at /\ r.exp = gtoken'.exp
    BY <1>5 DEF SettlesReply, Outcome
  <2> HIDE DEF r
  <2> QED BY <1>0, <2>1, <2>2, <2>3 DEF RawInv, Answered
<1>6. ASSUME NEW c \in Call, Replies(c) PROVE RawInv'
  <2>1. /\ UNCHANGED <<gtoken, asks, pc, got>>
        /\ \A d \in Call : post'[d] = None <=> post[d] = None
    BY <1>6, SamePosts DEF Replies
  <2>2. \A d \in Call : post[d] # None => asks[d]
    BY <1>6, IdleAsks DEF Replies
  <2> QED BY <1>0, <2>1, <2>2 DEF RawInv, Answered
<1> QED
  BY <1>1, <1>2, <1>3, <1>4, <1>5, <1>6 DEF FlightStep

-----------------------------------------------------------------------------
(* Expiring tokens are replaced.  Until the application revokes them, a    *)
(* token that a call is given to take is not expiring, and the client's    *)
(* token is gtoken's as soon as everyone has taken what it was given.      *)

Long == \A life \in Lifetimes : life > Threshold
Revoked == \E d \in Call : kind[d] = "revokeCredentials"
Kept(exp) == exp = 0 \/ exp > now + Threshold

KindInv == \A c \in Call : pc[c] = "idle" => kind[c] # "revokeCredentials"

TakenInv ==
  /\ \A c \in Call : Answered(c) /\ got[c].at # None => Kept(got[c].exp)
  /\ \A c \in Call : Answered(c) /\ got[c].at # None /\ got[c].at = credentials.at
       => Kept(credentials.exp)
AskedInv ==
  /\ \A c \in Call : post[c] # None /\ ~asks[c]
       => gtoken.at # None /\ Kept(gtoken.exp)
  /\ \A c \in Call : post[c] # None /\ post[c].reply # None
       => post[c].reply.expires_in = 0 \/ post[c].reply.expires_in > Threshold
SameInv ==
  gtoken.at # None => \/ /\ credentials.at = gtoken.at
                         /\ credentials.exp = gtoken.exp
                      \/ \E c \in Call : Answered(c)
KeptInv == TakenInv /\ AskedInv /\ SameInv

LEMMA RevokedStays ==
  ASSUME MoveInv, KindInv, Stands \/ \E e \in Call : Turns(e)
  PROVE  KindInv' /\ (Revoked => Revoked')
<1>1. CASE Stands
  BY <1>1 DEF Stands, KindInv, Revoked
<1>2. ASSUME NEW c \in Call, Turns(c)
      PROVE  KindInv' /\ (Revoked => Revoked')
  <2>1. pc'[c] # "idle"
    BY <1>2
    DEF Turns, Delivers, AsksForHeader, AsksForToken, AsksAgain, WillReplay,
        EndsOrStops, FetchesIdToken, SendsIdToken, Goto, AwaitsHeader,
        MoveInv, FlightInv, Types, Flow
  <2>2. \A e \in Call : e # c => pc'[e] = pc[e] /\ kind'[e] = kind[e]
    BY <1>2, OthersRest
  <2>3. pc[c] # "idle" => kind' = kind
    BY <1>2 DEF Turns
  <2> QED BY <2>1, <2>2, <2>3 DEF KindInv, Revoked
<1> QED BY <1>1, <1>2

LEMMA KeptQuiet ==
  ASSUME FlightInv, RawInv, KeptInv, Quiet
  PROVE  KeptInv'
<1>1. UNCHANGED <<post, got, credentials, gtoken, asks>>
  BY DEF Quiet
<1>2. CASE now' = now
  BY <1>1, <1>2 DEF KeptInv, TakenInv, AskedInv, SameInv, Kept, Answered
<1>3. CASE Idle
  BY <1>1, <1>3, IdleAsks DEF KeptInv, TakenInv, AskedInv, SameInv, Answered
<1> QED BY <1>2, <1>3 DEF Quiet, DerivedTick

LEMMA KeptGoesOn ==
  ASSUME FlightInv, RawInv, KeptInv, NEW c \in Call, GoesOn(c), ~Revokes(c)
  PROVE  KeptInv'
<1>1. /\ UNCHANGED <<post, now, gtoken>> /\ SameFlights
      /\ got' = [got EXCEPT ![c] = None]
      /\ Stores(c) \/ Keeps(c)
  BY DEF GoesOn
<1>2. /\ \A d \in Call : Answered(d)' => Answered(d) /\ got'[d] = got[d]
      /\ \A d \in Call : Answered(d) => Answered(d)' \/ d = c
  BY <1>1 DEF Answered, FlightInv, Types, Flow
<1>3. AskedInv'
  BY <1>1 DEF KeptInv, AskedInv, SameFlights, Kept
<1>4. CASE Stores(c)
  <2>1. TakenInv'
    BY <1>1, <1>2, <1>4 DEF Stores, KeptInv, TakenInv, Kept
  <2>2. SameInv'
    BY <1>1, <1>4 DEF Stores, SameInv, RawInv
  <2> QED BY <1>3, <2>1, <2>2 DEF KeptInv
<1>5. CASE Keeps(c)
  <2>1. TakenInv'
    BY <1>1, <1>2, <1>5 DEF Keeps, KeptInv, TakenInv, Kept
  <2>2. Answered(c) => gtoken.at = None
    BY <1>5 DEF Keeps, RawInv, UsesRaw
  <2>3. SameInv'
    BY <1>1, <1>2, <1>5, <2>2 DEF Keeps, KeptInv, SameInv
  <2> QED BY <1>3, <2>1, <2>3 DEF KeptInv
<1> QED BY <1>1, <1>4, <1>5

LEMMA KeptJoins ==
  ASSUME FlightInv, RawInv, KeptInv, NEW c \in Call, Joins(c)
  PROVE  KeptInv'
<1>1. /\ UNCHANGED <<credentials, now, gtoken>> /\ refreshTokenNoCache
      /\ got' = [got EXCEPT ![c] = None] /\ ~Answered(c)
  BY DEF Joins
<1>2. \A d \in Call : /\ Answered(d)' <=> Answered(d)
                      /\ Answered(d)' => got'[d] = got[d]
  BY <1>1 DEF Answered, FlightInv, Types, Flow
<1>3. \A d \in Call : post'[d] = post[d] \/ (post[d] = None /\ post'[d].reply = None)
  BY FreeCall
  DEF Joins, Asks, refreshToken, refreshTokenWithoutArgument, FlightInv, Types, Flow
<1>4. TakenInv' /\ SameInv'
  BY <1>1, <1>2 DEF KeptInv, TakenInv, SameInv, Kept
<1>5. ASSUME ~forceRefresh, HoldsRawToken
      PROVE  gtoken.at # None /\ Kept(gtoken.exp)
  <2>1. class = "JWT" /\ gtoken.at # None /\ ~isTokenExpiring
    BY <1>5 DEF forceRefresh, HoldsRawToken
  <2>2. Kept(credentials.exp)
    BY <2>1, ConstantsOk
    DEF isTokenExpiring, Kept, FlightInv, Types, Flow, DerivedTypeOK, Credentials,
        ConstantsOk
  <2>3. CASE credentials.exp = gtoken.exp
    BY <2>1, <2>2, <2>3
  <2>4. ASSUME NEW d \in Call, Answered(d) PROVE Kept(gtoken.exp)
    <3>1. got[d].at = gtoken.at /\ got[d].exp = gtoken.exp
      BY <2>1, <2>4 DEF RawInv
    <3> QED BY <2>1, <2>4, <3>1 DEF KeptInv, TakenInv
  <2> QED BY <2>1, <2>3, <2>4 DEF KeptInv, SameInv
<1>6. AskedInv'
  <2>1. ASSUME NEW d \in Call, post'[d] # None, ~asks'[d]
        PROVE  gtoken'.at # None /\ Kept(gtoken.exp)'
    <3>1. CASE post[d] = None
      <4>1. ~forceRefresh /\ HoldsRawToken
        BY <1>1, <2>1, <3>1 DEF refreshTokenNoCache
      <4> QED BY <1>1, <1>5, <4>1 DEF Kept
    <3>2. CASE post[d] # None
      BY <1>1, <2>1, <3>2, AsksKept DEF KeptInv, AskedInv, Kept
    <3> QED BY <3>1, <3>2
  <2>2. \A d \in Call : post'[d] # None /\ post'[d].reply # None
          => post'[d].reply.expires_in = 0 \/ post'[d].reply.expires_in > Threshold
    BY <1>3 DEF KeptInv, AskedInv
  <2> QED BY <1>1, <2>1, <2>2 DEF AskedInv, Kept
<1> QED BY <1>4, <1>6 DEF KeptInv

(* Who is answered when a refresh settles.                                 *)
LEMMA SettledAnswers ==
  ASSUME FlightInv, NEW c \in Call, NEW r, r # None, SettlesWith(c, r)
  PROVE  /\ \A d \in Call : got'[d] = r \/ got'[d] = got[d]
         /\ \A d \in Call : got[d] # None => got'[d] = got[d]
         /\ got'[c] = r
         /\ \A d \in Call : \/ post'[d] = None
                            \/ post'[d] = post[d] /\ asks'[d] = asks[d]
  BY CallsKnown DEF SettlesWith, FlightInv, Types, Flow, WaitInv

LEMMA KeptSettlesRaw ==
  ASSUME FlightInv, RawInv, KeptInv, NEW c \in Call, SettlesRaw(c)
  PROVE  KeptInv'
<1>1. /\ UNCHANGED <<credentials, now, gtoken>>
      /\ RawToken # None /\ SettlesWith(c, RawToken)
      /\ gtoken.at # None /\ Kept(gtoken.exp)
  BY AnswersGiven DEF SettlesRaw, SettlesWith, HasRawToken, KeptInv, AskedInv
<1>2. RawToken.at = gtoken.at /\ RawToken.exp = gtoken.exp /\ RawToken.status = "ok"
  BY DEF RawToken
<1>3. gtoken.at = credentials.at => Kept(credentials.exp)
  <2>1. UsesRaw
    BY <1>1 DEF RawInv
  <2> QED BY <1>1, <2>1 DEF KeptInv, SameInv, TakenInv, RawInv
<1>4. TakenInv'
  BY <1>1, <1>2, <1>3, SettledAnswers DEF KeptInv, TakenInv, Answered, Kept
<1>5. AskedInv'
  BY <1>1, SettledAnswers DEF KeptInv, AskedInv, Kept
<1>6. SameInv'
  BY <1>1, <1>2, SettledAnswers DEF SameInv, Answered
<1> QED BY <1>4, <1>5, <1>6 DEF KeptInv

LEMMA KeptSettlesReply ==
  ASSUME FlightInv, RawInv, FreshInv, KeptInv, NEW c \in Call, SettlesReply(c)
  PROVE  KeptInv'
<1> DEFINE r == Outcome(post[c].reply)
<1>1. /\ post[c] # None /\ post[c].reply # None /\ Idle
      /\ r # None /\ SettlesWith(c, r)
  BY AnswersGiven DEF SettlesReply
<1>2. UNCHANGED <<credentials, now>>
  BY <1>1 DEF SettlesWith
<1>3. post[c].reply \in Reply /\ r.at = post[c].reply.token
  BY <1>1 DEF Outcome, FlightInv, Types, Flow, Post
<1>4. Kept(r.exp)
  <2>1. /\ \/ post[c].reply.expires_in = 0
           \/ post[c].reply.expires_in > Threshold
        /\ post[c].reply.expires_in \in Nat
    BY <1>1, <1>3 DEF KeptInv, AskedInv, Reply
  <2> QED
    BY <2>1, ConstantsOk DEF Outcome, Kept, ConstantsOk, FlightInv, Types, Flow
<1>5. r.at # None => r.at # credentials.at
  <2>1. r.at # None => r.at \in Token /\ Pending(c, r.at)
    BY <1>1, <1>3 DEF Pending, Reply
  <2> QED BY <2>1 DEF FreshInv, Holds
<1>6. \/ gtoken'.at = None
      \/ gtoken' = gtoken /\ (r.status = "ok" => ~UsesRaw)
      \/ r.status = "ok"
  BY DEF SettlesReply, NoRawToken, Outcome
<1>7. \A d \in Call : got[d] = None /\ (post[d] # None => asks[d])
  BY <1>1, IdleAsks
<1>8. SameInv'
  <2>1. CASE gtoken'.at = None
    BY <2>1 DEF SameInv
  <2>2. CASE gtoken' = gtoken /\ (r.status = "ok" => ~UsesRaw)
    BY <1>2, <1>7, <2>2 DEF KeptInv, SameInv, Answered
  <2>3. CASE r.status = "ok"
    BY <1>1, <2>3, SettledAnswers DEF SameInv, Answered
  <2> QED BY <1>6, <2>1, <2>2, <2>3
<1> HIDE DEF r
<1>9. TakenInv'
  BY <1>1, <1>2, <1>4, <1>5, <1>7, SettledAnswers DEF TakenInv, Answered, Kept
<1>10. AskedInv'
  BY <1>1, <1>2, <1>7, SettledAnswers DEF KeptInv, AskedInv, Kept
<1> QED BY <1>8, <1>9, <1>10 DEF KeptInv

LEMMA KeptReplies ==
  ASSUME FlightInv, RawInv, KeptInv, Long, NEW c \in Call, Replies(c)
  PROVE  KeptInv'
<1> PICK reply \in Reply : /\ TokenEndpointAnswers(c, reply)
                           /\ Grants(c, reply) \/ Denies(reply)
  BY EndpointReplies
<1>1. /\ UNCHANGED <<gtoken, asks, got, credentials, now>>
      /\ \A d \in Call : post'[d] = None <=> post[d] = None
  BY SamePosts DEF Replies
<1>2. TakenInv' /\ SameInv'
  BY <1>1 DEF KeptInv, TakenInv, SameInv, Answered, Kept
<1>3. \A d \in Call : post[d] # None => asks[d]
  BY IdleAsks DEF Replies
<1>4. /\ \A d \in Call : d # c => post'[d] = post[d]
      /\ post'[c].reply = reply
  BY DEF TokenEndpointAnswers, FlightInv, Types, Flow, Post
<1>5. reply.expires_in = 0 \/ reply.expires_in > Threshold
  BY DEF Grants, Denies, Long
<1> QED BY <1>1, <1>2, <1>3, <1>4, <1>5 DEF KeptInv, AskedInv

LEMMA KeptStep ==
  ASSUME FlightInv, RawInv, FreshInv, KeptInv, FlightStep, Long,
         \A c \in Call : ~Revokes(c)
  PROVE  KeptInv'
  BY KeptQuiet, KeptGoesOn, KeptJoins, KeptSettlesRaw, KeptSettlesReply, KeptReplies
  DEF FlightStep

ReplaceInv ==
  KindInv /\ RawInv /\ FreshInv /\ (Long /\ ~Revoked => KeptInv)

LEMMA ReplaceNext ==
  MoveInv /\ ReplaceInv /\ [DerivedNext]_derivedVars => ReplaceInv'
<1> SUFFICES ASSUME MoveInv, ReplaceInv, [DerivedNext]_derivedVars
             PROVE  ReplaceInv'
  OBVIOUS
<1>1. FlightInv /\ FlightStep
  BY FlightSteps DEF MoveInv
<1>2. KindInv' /\ (Revoked => Revoked')
  BY TurnSteps, RevokedStays DEF ReplaceInv
<1>3. RawInv' /\ FreshInv'
  BY <1>1, RawStep, FreshStep DEF ReplaceInv
<1>4. ASSUME Long, ~Revoked' PROVE KeptInv'
  <2>1. \A c \in Call : ~Revokes(c)
    BY <1>4 DEF Revokes, Revoked
  <2> QED BY <1>1, <1>2, <1>4, <2>1, KeptStep DEF ReplaceInv
<1>5. Long' = Long
  BY DEF Long
<1> QED BY <1>2, <1>3, <1>4, <1>5 DEF ReplaceInv

LEMMA ReplaceInvariant ==
  ASSUME \A s \in Installed : s.at # None => s.at.serial = 0
  PROVE  DerivedSpec => []ReplaceInv
<1>1. DerivedInit => ReplaceInv
  <2> SUFFICES ASSUME DerivedInit PROVE ReplaceInv
    OBVIOUS
  <2>1. /\ pc = [c \in Call |-> "idle"] /\ kind = [c \in Call |-> "request"]
        /\ post = [c \in Call |-> None] /\ got = [c \in Call |-> None]
        /\ gtoken.at = None /\ issued = 0
    BY DEF DerivedInit, Init, NoRawToken
  <2>2. KindInv /\ RawInv
    BY <2>1 DEF KindInv, RawInv, Answered
  <2>3. credentials.at # None => credentials.at.serial = 0
    BY DEF DerivedInit, Constructed, Expired, Undated
  <2>4. FreshInv
    BY <2>1, <2>3 DEF FreshInv, Holds, Pending
  <2>5. KeptInv
    BY <2>1 DEF KeptInv, TakenInv, AskedInv, SameInv, Answered
  <2> QED BY <2>2, <2>4, <2>5 DEF ReplaceInv
<1> QED BY <1>1, ReplaceNext, MoveInvariant, PTL DEF DerivedSpec

(* A JWT client never stores again the token it found expiring, although   *)
(* gtoken has a cache of its own that would still give it; and neither     *)
(* does any other of the derived clients.                                  *)
THEOREM ExpiringIsReplaced ==
  ASSUME \A s \in Installed : s.at # None => s.at.serial = 0
  PROVE  DerivedSpec => ExpiringTokenIsReplaced
<1>1. MoveInv /\ ReplaceInv /\ [DerivedNext]_derivedVars =>
        [ \A c \in Call :
            /\ \A life \in Lifetimes : life > Threshold
            /\ \A d \in Call : kind[d] # "revokeCredentials"
            /\ pc[c] \in Waiting \union {"authorizing"} /\ pc'[c] # pc[c]
            /\ got[c].status = "ok" /\ got[c].at # None /\ isTokenExpiring
            => credentials'.at # credentials.at ]_derivedVars
  <2> SUFFICES ASSUME MoveInv, ReplaceInv, FlightStep, NEW c \in Call,
                      Long, ~Revoked,
                      pc[c] \in Waiting \union {"authorizing"}, pc'[c] # pc[c],
                      got[c].status = "ok", got[c].at # None, isTokenExpiring
               PROVE  credentials'.at # credentials.at
    BY FlightSteps DEF MoveInv, Long, Revoked
  <2>1. GoesOn(c) \/ Joins(c)
    BY SamePosts
    DEF FlightStep, Quiet, GoesOn, Joins, SettlesRaw, SettlesReply, SettlesWith,
        Goto, MoveInv, FlightInv, Types, Flow
  <2>2. Answered(c)
    BY <2>1 DEF GoesOn, Joins, Free, Answered, Waits
  <2>3. Stores(c)
    BY <2>1, <2>2 DEF GoesOn, Joins, Keeps, Revokes
  <2>4. got[c].at = credentials.at => Kept(credentials.exp)
    BY <2>2 DEF ReplaceInv, KeptInv, TakenInv
  <2>5. ~Kept(credentials.exp)
    BY ConstantsOk
    DEF isTokenExpiring, Kept, ConstantsOk, MoveInv, FlightInv, Types, Flow,
        DerivedTypeOK, Credentials
  <2> QED BY <2>3, <2>4, <2>5 DEF Stores
<1> QED
  BY <1>1, ReplaceInvariant, MoveInvariant, PTL
  DEF DerivedSpec, ExpiringTokenIsReplaced
=============================================================================
