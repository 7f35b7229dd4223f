------------------------ MODULE DerivedClientsProofs ------------------------
(***************************************************************************)
(* Theorems about DerivedClients, for every set of calls and of URLs, all  *)
(* lifetimes and whatever setCredentials has installed: the types of what  *)
(* the derived clients add, and the properties of self-signed JWTs, of the *)
(* placeholder refresh token and of cached ID tokens.                      *)
(***************************************************************************)
EXTENDS DerivedClients, TLAPS

USE DEF Requests, Waiting, Settled

Labels == {"idle", "sent", "replay", "revoking", "authorizing", "id_token",
           "fetching", "id_sent"} \union Waiting \union Settled

(* DerivedTypeOK and the types it rests on: of the clock, of the POSTs and *)
(* of what they settle with, and where each call stands.                   *)
Flow ==
  /\ now \in Nat /\ now >= 1 /\ issued \in Nat
  /\ post \in [Call -> Post \union {None}]
  /\ got \in [Call -> Result \union {None}]
  /\ pc \in [Call -> Labels]

Types == DerivedTypeOK /\ Flow

LEMMA ConstantsTyped ==
  /\ Placeholder \in RefreshToken /\ Unshared \in RefreshToken
  /\ Expired \in Credentials /\ Undated \in Credentials
  /\ Installed \subseteq Credentials
<1>1. Placeholder \in RefreshToken /\ Unshared \in RefreshToken
  BY DerivedConstantsOk DEF DerivedConstantsOk
<1> QED
  BY <1>1, DerivedConstantsOk, ConstantsOk
  DEF DerivedConstantsOk, ConstantsOk, Expired, Undated, Credentials

LEMMA TypesInit == DerivedInit => Types
<1> SUFFICES ASSUME DerivedInit PROVE Types
  OBVIOUS
<1>1. credentials \in Credentials
  BY ConstantsTyped DEF DerivedInit, Constructed
<1>2. /\ class \in Classes /\ scopes \in {"user", "default", "none"}
      /\ target_audience \in BOOLEAN /\ key \in BOOLEAN
  BY DEF DerivedInit
<1> QED
  BY <1>1, <1>2
  DEF DerivedInit, Init, Types, DerivedTypeOK, Flow, Labels, NoRawToken, IdCredentials

-----------------------------------------------------------------------------
(* The pieces that the actions share.                                      *)

LEMMA PostsTyped ==
  ASSUME Types, NEW c \in Call,
         \/ \E rt \in RefreshToken : refreshToken(c, rt)
         \/ refreshTokenWithoutArgument(c)
         \/ UNCHANGED refreshVars
  PROVE  post' \in [Call -> Post \union {None}]
<1>1. ASSUME NEW rt \in RefreshToken, post' = [post EXCEPT ![c] = [rt |-> rt, reply |-> None]]
      PROVE  post' \in [Call -> Post \union {None}]
  BY <1>1 DEF Types, Flow, Post
<1> QED
  BY <1>1, ConstantsTyped
  DEF refreshToken, refreshTokenWithoutArgument, refreshVars, Types, Flow

LEMMA PlacesTyped ==
  ASSUME Types, NEW c \in Call, NEW label \in Labels, Goto(c, label)
  PROVE  pc' \in [Call -> Labels]
  BY DEF Types, Flow, Goto

LEMMA DeliverTyped ==
  ASSUME Types, NEW c \in Call, NEW k, NEW token, Deliver(c, k, token) \/ Fail(c)
  PROVE  pc' \in [Call -> Labels]
  BY DEF Types, Flow, Goto, Deliver, Fail, Labels

LEMMA ForcedTyped ==
  ASSUME Types, NEW c \in Call, refreshAccessTokenAsync(c)
  PROVE  post' \in [Call -> Post \union {None}] /\ pc' \in [Call -> Labels]
<1>1. credentials.rt # None => credentials.rt \in RefreshToken
  BY DEF Types, DerivedTypeOK, Credentials
<1>2. CASE Goto(c, "failed") /\ UNCHANGED refreshVars
  BY <1>2, PostsTyped, PlacesTyped DEF Labels
<1>3. CASE credentials.rt # None /\ Goto(c, "forced") /\ refreshToken(c, credentials.rt)
  BY <1>1, <1>3, PostsTyped, PlacesTyped DEF Labels
<1> QED BY <1>2, <1>3 DEF refreshAccessTokenAsync

LEMMA CatchTyped ==
  ASSUME Types, NEW c \in Call, NEW status, NEW streamed, Catch(c, status, streamed)
  PROVE  post' \in [Call -> Post \union {None}] /\ pc' \in [Call -> Labels]
<1>1. CASE refreshAccessTokenAsync(c)
  BY <1>1, ForcedTyped
<1>2. CASE \E label \in {"unauthorized", "failed"} :
             Goto(c, label) /\ UNCHANGED refreshVars
  BY <1>2, PostsTyped, PlacesTyped DEF Labels
<1> QED BY <1>1, <1>2 DEF Catch

LEMMA BaseMetadataTyped ==
  ASSUME Types, NEW c \in Call, NEW k, baseRequestMetadataAsync(c, k)
  PROVE  post' \in [Call -> Post \union {None}] /\ pc' \in [Call -> Labels]
<1>1. credentials.rt # None => credentials.rt \in RefreshToken
  BY DEF Types, DerivedTypeOK, Credentials
<1>2. CASE Goto(c, "metadata") /\ refreshTokenWithoutArgument(c)
  BY <1>2, PostsTyped, PlacesTyped DEF Labels
<1>3. CASE credentials.rt # None /\ Goto(c, "metadata") /\ refreshToken(c, credentials.rt)
  BY <1>1, <1>3, PostsTyped, PlacesTyped DEF Labels
<1>4. CASE /\ Fail(c) \/ \E token : Deliver(c, k, token)
           /\ UNCHANGED refreshVars
  BY <1>4, PostsTyped, DeliverTyped
<1> QED
  BY <1>2, <1>3, <1>4 DEF baseRequestMetadataAsync, getRequestMetadataAsync

(* The self-signed JWT that a call is given, from the cache or new.        *)
Signs(c, u, b) ==
  /\ b \in Bearer
  /\ bearer' = [bearer EXCEPT ![c] = b]
  /\ \/ access' = JWTAccess /\ b \in cachedToken(JWTAccess, u)
     \/ /\ b = [url |-> u, exp |-> now + SignedLifetime]
        /\ access' = [JWTAccess EXCEPT !.cache[u] = b]

LEMMA AccessTyped ==
  ASSUME Types
  PROVE  JWTAccess \in Access
  BY DEF Types, DerivedTypeOK, JWTAccess, Access

LEMMA HeadersSigned ==
  ASSUME Types, NEW c \in Call, NEW k, NEW u \in Url, getRequestHeaders(c, k, u)
  PROVE  /\ access' \in Access
         /\ \/ (\E b : Signs(c, u, b)) /\ Deliver(c, k, None)
            \/ access' = JWTAccess /\ UNCHANGED bearer /\ Fail(c)
<1> DEFINE a == JWTAccess
           signed == [url |-> u, exp |-> now + SignedLifetime]
<1>1. a \in Access
  BY AccessTyped
<1>2. signed \in Bearer
  BY DerivedConstantsOk DEF DerivedConstantsOk, Types, Flow, Bearer
<1>3. \A b \in cachedToken(a, u) : b \in Bearer
  BY <1>1 DEF cachedToken, Access
<1>4. [a EXCEPT !.cache[u] = signed] \in Access
  BY <1>1, <1>2 DEF Access
<1>5. CASE \E b \in cachedToken(a, u) :
             /\ bearer' = [bearer EXCEPT ![c] = b]
             /\ access' = a
             /\ Deliver(c, k, None)
  BY <1>1, <1>3, <1>5 DEF Signs
<1>6. CASE /\ bearer' = [bearer EXCEPT ![c] = signed]
           /\ access' = [a EXCEPT !.cache[u] = signed]
           /\ Deliver(c, k, None)
  BY <1>2, <1>4, <1>6 DEF Signs
<1>7. CASE access' = a /\ Fail(c) /\ UNCHANGED bearer
  BY <1>1, <1>7
<1> QED BY <1>5, <1>6, <1>7 DEF getRequestHeaders

(* The metadata of a request: one of the pieces above.                     *)
LEMMA MetadataTyped ==
  ASSUME Types, NEW c \in Call, NEW k, NEW u \in Url \union {None},
         derivedRequestMetadataAsync(c, k, u)
  PROVE  /\ post' \in [Call -> Post \union {None}] /\ pc' \in [Call -> Labels]
         /\ access' \in Access \union {None}
         /\ bearer' \in [Call -> Bearer \union {None}]
<1> USE DEF Types, DerivedTypeOK
<1>1. CASE Goto(c, "id_token") /\ refreshTokenWithoutArgument(c)
           /\ UNCHANGED <<access, bearer>>
  BY <1>1, PostsTyped, PlacesTyped DEF Labels
<1>2. CASE SelfSigned(u) /\ getRequestHeaders(c, k, u) /\ UNCHANGED refreshVars
  <2>1. u \in Url
    BY <1>2 DEF SelfSigned
  <2>2. post' \in [Call -> Post \union {None}]
    BY <1>2, PostsTyped
  <2>3. access' \in Access /\ \/ (\E b : Signs(c, u, b)) /\ Deliver(c, k, None)
                              \/ UNCHANGED bearer /\ Fail(c)
    BY <1>2, <2>1, HeadersSigned
  <2>4. bearer' \in [Call -> Bearer \union {None}]
    BY <2>3 DEF Signs
  <2> QED BY <2>2, <2>3, <2>4, DeliverTyped
<1>3. CASE baseRequestMetadataAsync(c, k) /\ UNCHANGED <<access, bearer>>
  BY <1>3, BaseMetadataTyped
<1>4. CASE Deliver(c, k, None) /\ UNCHANGED <<refreshVars, access, bearer>>
  BY <1>4, PostsTyped, DeliverTyped
<1> QED BY <1>1, <1>2, <1>3, <1>4 DEF derivedRequestMetadataAsync

LEMMA ForceTyped ==
  ASSUME Types, refreshTokenNoCache
  PROVE  asks' \in [Call -> BOOLEAN]
  BY DEF Types, DerivedTypeOK, refreshTokenNoCache, forceRefresh, isTokenExpiring

LEMMA ResultStored ==
  ASSUME Types, NEW c \in Call, got[c] # None
  PROVE  /\ Refreshed(got[c]) \in Credentials
         /\ AuthorizedCredentials(got[c]) \in Credentials
<1>1. got[c] \in Result
  BY DEF Types, Flow
<1> QED
  BY <1>1, ConstantsTyped
  DEF Types, DerivedTypeOK, Refreshed, AuthorizedCredentials, Result, Credentials

-----------------------------------------------------------------------------
(* Each action keeps the types.                                            *)

LEMMA RequestTypes ==
  ASSUME Types, NEW c \in Call, UNCHANGED <<options, idCredentials>>,
         derivedRequestAsync(c) \/ DerivedReplay(c)
  PROVE  Types'
<1> USE DEF options
<1>1. CASE derivedRequestAsync(c)
  <2> PICK k \in Requests \union {"getRequestHeaders"}, u \in Url \union {None} :
        /\ Begin(c, k)
        /\ url' = [url EXCEPT ![c] = u]
        /\ derivedRequestMetadataAsync(c, k, u)
        /\ refreshTokenNoCache
        /\ UNCHANGED <<credentials, key, gtoken>>
    BY <1>1 DEF derivedRequestAsync
  <2>1. url' \in [Call -> Url \union {None}]
    BY DEF Types, DerivedTypeOK
  <2> QED
    BY <2>1, MetadataTyped, ForceTyped DEF Types, DerivedTypeOK, Flow, Begin
<1>2. CASE DerivedReplay(c)
  <2>1. url[c] \in Url \union {None} /\ refreshTokenNoCache
        /\ derivedRequestMetadataAsync(c, kind[c], url[c])
    BY <1>2 DEF DerivedReplay, Types, DerivedTypeOK
  <2> QED
    BY <1>2, <2>1, MetadataTyped, ForceTyped
    DEF Types, DerivedTypeOK, Flow, DerivedReplay
<1> QED BY <1>1, <1>2

LEMMA CallTypes ==
  ASSUME Types, NEW c \in Call, UNCHANGED <<options, idCredentials>>,
         derivedRefreshAccessToken(c) \/ authorizeAsync(c) \/ BaseCall(c)
  PROVE  Types'
<1> USE DEF options
<1>1. CASE derivedRefreshAccessToken(c)
  <2>1. post' \in [Call -> Post \union {None}] /\ pc' \in [Call -> Labels]
    <3>1. CASE Goto(c, "forced") /\ refreshTokenWithoutArgument(c)
      BY <3>1, PostsTyped, PlacesTyped DEF Labels
    <3>2. CASE refreshAccessToken(c)
      BY <3>2, ForcedTyped DEF refreshAccessToken
    <3> QED BY <1>1, <3>1, <3>2 DEF derivedRefreshAccessToken
  <2>2. UNCHANGED <<now, issued, got, credentials>>
    BY <1>1 DEF derivedRefreshAccessToken, refreshAccessToken, Begin
  <2> QED
    BY <1>1, <2>1, <2>2, ForceTyped
    DEF derivedRefreshAccessToken, Types, DerivedTypeOK, Flow
<1>2. CASE authorizeAsync(c)
  <2>1. post' \in [Call -> Post \union {None}] /\ pc' \in [Call -> Labels]
    BY <1>2, PostsTyped, PlacesTyped DEF authorizeAsync, Labels
  <2> QED
    BY <1>2, <2>1, ForceTyped
    DEF authorizeAsync, StartMore, Types, DerivedTypeOK, Flow
<1>3. CASE BaseCall(c)
  <2>1. post' \in [Call -> Post \union {None}] /\ pc' \in [Call -> Labels]
    <3>1. CASE getAccessTokenAsync(c)
      BY <3>1, ForcedTyped, DeliverTyped, PostsTyped DEF getAccessTokenAsync
    <3>2. CASE revokeCredentialsAsync(c)
      <4>1. UNCHANGED refreshVars
            /\ \E label \in {"revoking", "failed"} : Goto(c, label)
        BY <3>2 DEF revokeCredentialsAsync
      <4> QED BY <4>1, PostsTyped, PlacesTyped DEF Labels
    <3> QED BY <1>3, <3>1, <3>2 DEF BaseCall
  <2>2. credentials' \in Credentials /\ UNCHANGED <<now, issued, got>>
    BY <1>3
    DEF BaseCall, getAccessTokenAsync, revokeCredentialsAsync, Begin, Types,
        DerivedTypeOK, NoCredentials, Credentials
  <2> QED
    BY <1>3, <2>1, <2>2, ForceTyped DEF BaseCall, Types, DerivedTypeOK, Flow
<1> QED BY <1>1, <1>2, <1>3

LEMMA GotTyped ==
  ASSUME Types, NEW c \in Call, NEW label, NEW status, Resume(c, label, status)
  PROVE  /\ got' \in [Call -> Result \union {None}] /\ got[c] # None
         /\ UNCHANGED <<now, issued>>
  BY DEF Types, Flow, Resume

LEMMA ContinuationTypes ==
  ASSUME Types, NEW c \in Call, UNCHANGED <<options, idCredentials>>,
         \/ Authorized(c) \/ AuthorizeRefused(c) \/ IdTokenReceived(c)
         \/ IdTokenRefused(c) \/ BaseContinuation(c)
  PROVE  Types'
<1> USE DEF options
<1>1. CASE Authorized(c)
  <2>1. credentials' \in Credentials /\ post' = post
    BY <1>1, GotTyped, ResultStored DEF Authorized, refreshVars
  <2> QED
    BY <1>1, <2>1, GotTyped, PlacesTyped
    DEF Authorized, Types, DerivedTypeOK, Flow, Labels
<1>2. CASE AuthorizeRefused(c)
  BY <1>2, GotTyped, DeliverTyped
  DEF AuthorizeRefused, Types, DerivedTypeOK, Flow, refreshVars, jwtVars
<1>3. CASE IdTokenReceived(c)
  BY <1>3, GotTyped, DeliverTyped
  DEF IdTokenReceived, Types, DerivedTypeOK, Flow, refreshVars, jwtVars
<1>4. CASE IdTokenRefused(c)
  <2>1. post' \in [Call -> Post \union {None}] /\ pc' \in [Call -> Labels]
    BY <1>4, CatchTyped, DeliverTyped, PostsTyped DEF IdTokenRefused
  <2> QED
    BY <1>4, <2>1, GotTyped, ForceTyped
    DEF IdTokenRefused, Types, DerivedTypeOK, Flow
<1>5. CASE BaseContinuation(c)
  <2>1. got' \in [Call -> Result \union {None}] /\ UNCHANGED <<now, issued>>
    BY <1>5, GotTyped
    DEF BaseContinuation, MetadataRefreshed, MetadataRefused, ForcedRefreshed,
        ForcedRefused
  <2>2. /\ post' \in [Call -> Post \union {None}] /\ pc' \in [Call -> Labels]
        /\ credentials' \in Credentials
    <3> USE DEF Types, DerivedTypeOK
    <3>1. CASE MetadataRefreshed(c)
      BY <3>1, GotTyped, ResultStored, DeliverTyped, PostsTyped DEF MetadataRefreshed
    <3>2. CASE MetadataRefused(c)
      BY <3>2, CatchTyped, DeliverTyped, PostsTyped DEF MetadataRefused
    <3>3. CASE ForcedRefreshed(c)
      <4>1. \E label \in {"replay", "failed", "done"} : Goto(c, label)
        BY <3>3 DEF ForcedRefreshed
      <4> QED
        BY <3>3, <4>1, GotTyped, ResultStored, PlacesTyped, PostsTyped
        DEF ForcedRefreshed, Labels
    <3>4. CASE ForcedRefused(c)
      BY <3>4, DeliverTyped, PostsTyped DEF ForcedRefused
    <3> QED BY <1>5, <3>1, <3>2, <3>3, <3>4 DEF BaseContinuation
  <2> QED
    BY <1>5, <2>1, <2>2, ForceTyped DEF BaseContinuation, Types, DerivedTypeOK, Flow
<1> QED BY <1>1, <1>2, <1>3, <1>4, <1>5

(* A refresh settles with an answer, GoogleToken's or the endpoint's.      *)
LEMMA SettledTyped ==
  ASSUME Types, NEW c \in Call, NEW r \in Result,
         got' = [w \in Call |-> IF awaiting[w] = c THEN r ELSE got[w]],
         post' = [post EXCEPT ![c] = None], UNCHANGED <<now, issued, pc>>
  PROVE  Flow'
  BY DEF Types, Flow

LEMMA OutcomeTyped ==
  ASSUME Types, NEW reply \in Reply
  PROVE  Outcome(reply) \in Result
  BY DEF Types, Flow, Outcome, Reply, Result

LEMMA RepliedTyped ==
  ASSUME Types, NEW c \in Call, NEW reply \in Reply,
         TokenEndpointAnswers(c, reply), issued' \in Nat
  PROVE  Flow'
  BY DEF Types, Flow, TokenEndpointAnswers, Post, callVars

LEMMA AnswerTypes ==
  ASSUME Types, NEW c \in Call, UNCHANGED <<options, idCredentials>>,
         \/ RawTokenGiven(c) \/ DerivedRefreshSettles(c)
         \/ TokenSourceAnswers(c) \/ BaseAnswer(c)
  PROVE  Types'
<1> USE DEF options
<1>1. CASE RawTokenGiven(c)
  <2>1. RawToken \in Result
    BY DEF Types, DerivedTypeOK, RawToken, Result
  <2>2. Flow'
    BY <1>1, <2>1, SettledTyped DEF RawTokenGiven
  <2> QED BY <1>1, <2>2 DEF RawTokenGiven, Types, DerivedTypeOK
<1>2. CASE DerivedRefreshSettles(c)
  <2>1. post[c].reply \in Reply
    BY <1>2 DEF DerivedRefreshSettles, RefreshSettles, Types, Flow, Post
  <2>2. Outcome(post[c].reply) \in Result
    BY <2>1, OutcomeTyped
  <2>3. Flow'
    BY <1>2, <2>2, SettledTyped DEF DerivedRefreshSettles, RefreshSettles
  <2>4. /\ [at |-> post[c].reply.token, exp |-> Outcome(post[c].reply).exp]
             \in [at : Token \union {None}, exp : Nat]
        /\ NoRawToken \in [at : Token \union {None}, exp : Nat]
        /\ gtoken \in [at : Token \union {None}, exp : Nat]
    BY <2>1, <2>2 DEF Reply, Result, NoRawToken, Types, DerivedTypeOK
  <2>5. gtoken' \in [at : Token \union {None}, exp : Nat]
    BY <1>2, <2>4 DEF DerivedRefreshSettles
  <2> QED
    BY <1>2, <2>3, <2>5, ForceTyped
    DEF DerivedRefreshSettles, RefreshSettles, Types, DerivedTypeOK
<1>3. CASE TokenSourceAnswers(c)
  <2>1. Flow' /\ UNCHANGED credentials
    <3> USE DEF Types, Flow, Reply, Post
    <3>1. CASE TokenEndpointGrants(c)
      <4> PICK life \in Lifetimes :
            /\ post[c] # None
            /\ issued' = issued + 1
            /\ TokenEndpointAnswers(c,
                 [status |-> "ok",
                  token |-> [rt |-> post[c].rt, serial |-> issued + 1,
                             deadline |-> now + life],
                  expires_in |-> IF ReportsExpiry THEN life ELSE 0,
                  since |-> now])
        BY <3>1 DEF TokenEndpointGrants
      <4>1. [rt |-> post[c].rt, serial |-> issued + 1, deadline |-> now + life] \in Token
        BY ConstantsOk DEF ConstantsOk, Token
      <4>2. [status |-> "ok",
             token |-> [rt |-> post[c].rt, serial |-> issued + 1,
                        deadline |-> now + life],
             expires_in |-> IF ReportsExpiry THEN life ELSE 0,
             since |-> now] \in Reply
        BY <4>1, ConstantsOk DEF ConstantsOk
      <4>3. issued' \in Nat
        OBVIOUS
      <4>4. Flow'
        BY <4>2, <4>3, RepliedTyped
      <4> QED BY <4>4 DEF TokenEndpointAnswers
    <3>2. CASE TokenEndpointOmitsToken(c)
      BY <3>2, RepliedTyped DEF TokenEndpointOmitsToken, TokenEndpointAnswers
    <3>3. CASE TokenEndpointRefuses(c)
      BY <3>3, RepliedTyped DEF TokenEndpointRefuses, TokenEndpointAnswers
    <3> QED BY <1>3, <3>1, <3>2, <3>3 DEF TokenSourceAnswers
  <2> QED
    BY <1>3, <2>1 DEF TokenSourceAnswers, jwtVars, Types, DerivedTypeOK
<1>4. CASE BaseAnswer(c)
  <2>1. post' \in [Call -> Post \union {None}] /\ pc' \in [Call -> Labels]
    <3>1. CASE ApiAnswers(c)
      BY <3>1, CatchTyped, PlacesTyped, PostsTyped DEF ApiAnswers, Labels
    <3>2. CASE RevokeAnswers(c)
      BY <3>2, PlacesTyped, PostsTyped DEF RevokeAnswers, Labels
    <3> QED BY <1>4, <3>1, <3>2 DEF BaseAnswer
  <2> QED
    BY <1>4, <2>1, ForceTyped
    DEF BaseAnswer, ApiAnswers, RevokeAnswers, Types, DerivedTypeOK, Flow
<1> QED BY <1>1, <1>2, <1>3, <1>4

LEMMA IdTokenClientTypes ==
  ASSUME Types, NEW c \in Call, IdTokenClientStep(c), UNCHANGED options
  PROVE  Types'
<1> USE DEF options, Types, DerivedTypeOK, Flow
<1>1. CASE idTokenRequest(c)
  <2>1. pc' \in [Call -> Labels]
    BY <1>1, PlacesTyped DEF idTokenRequest, SendIdToken, Labels
  <2>2. bearer' \in [Call -> Bearer \union {None}]
    BY <1>1 DEF idTokenRequest, SendIdToken, IdCredentials
  <2> QED BY <1>1, <2>1, <2>2 DEF idTokenRequest, StartMore, refreshVars
<1>2. CASE IdTokenFetched(c)
  <2> PICK token \in fetchIdToken, readable \in BOOLEAN :
        /\ idCredentials' = [id_token |-> token,
                             expiry_date |-> IF readable THEN token.exp ELSE 0]
        /\ SendIdToken(c, token)
    BY <1>2 DEF IdTokenFetched
  <2>1. token \in Bearer
    <3> DEFINE Fetched == {[url |-> None, exp |-> now + life - age] :
                             life \in Lifetimes, age \in 0..MaxLatency}
    <3>0. token \in Fetched /\ token.exp >= 0
      BY DEF fetchIdToken
    <3>1. PICK life \in Lifetimes, age \in 0..MaxLatency :
            token = [url |-> None, exp |-> now + life - age]
      BY <3>0
    <3>2. token.exp >= 0
      BY <3>0
    <3>3. life \in Nat /\ age \in Int /\ now \in Nat
      BY ConstantsOk DEF TypeOK
    <3>4. now + life - age \in Nat
      BY <3>1, <3>2, <3>3
    <3> QED BY <3>1, <3>4 DEF Bearer
  <2>2. idCredentials' \in IdCredentials /\ bearer' \in [Call -> Bearer \union {None}]
    BY <2>1 DEF IdCredentials, SendIdToken, Bearer
  <2>3. pc' \in [Call -> Labels]
    BY PlacesTyped DEF SendIdToken, Labels
  <2> QED BY <1>2, <2>2, <2>3 DEF IdTokenFetched, refreshVars
<1>3. CASE IdTokenNotFetched(c)
  BY <1>3, DeliverTyped DEF IdTokenNotFetched, refreshVars, jwtVars
<1>4. CASE IdApiAnswers(c)
  <2>1. pc' \in [Call -> Labels]
    BY <1>4, PlacesTyped DEF IdApiAnswers, Labels
  <2> QED BY <1>4, <2>1 DEF IdApiAnswers, refreshVars, jwtVars
<1> QED BY <1>1, <1>2, <1>3, <1>4 DEF IdTokenClientStep

LEMMA TypesNext == Types /\ [DerivedNext]_derivedVars => Types'
<1> SUFFICES ASSUME Types, [DerivedNext]_derivedVars PROVE Types'
  OBVIOUS
<1>1. ASSUME NEW c \in Call, ClientStep(c), UNCHANGED <<options, idCredentials>>
      PROVE  Types'
  BY <1>1, RequestTypes, CallTypes, ContinuationTypes, AnswerTypes DEF ClientStep
<1>2. CASE DerivedTick /\ UNCHANGED <<options, idCredentials>>
  BY <1>2
  DEF DerivedTick, Tick, refreshVars, callVars, jwtVars, options, Types,
      DerivedTypeOK, Flow
<1>3. CASE UNCHANGED derivedVars
  BY <1>3
  DEF derivedVars, vars, refreshVars, callVars, jwtVars, options, Types,
      DerivedTypeOK, Flow
<1> QED BY <1>1, <1>2, <1>3, IdTokenClientTypes DEF DerivedNext

(* What the derived clients add keeps its types, for any calls and URLs.   *)
THEOREM DerivedTypeCorrect == DerivedSpec => []DerivedTypeOK
<1>1. Types => DerivedTypeOK
  BY DEF Types
<1> QED
  BY <1>1, TypesInit, TypesNext, PTL DEF DerivedSpec

-----------------------------------------------------------------------------
(* How a step moves the calls.                                             *)

Outside == Settled \union {"id_sent", "fetching"}

(* A step of an OAuth2Client moves its own call only, and neither one that *)
(* is over nor one of an IdTokenClient.                                    *)
Goes(c) == \E label \in Labels \ {"idle", "id_sent", "fetching"} : Goto(c, label)
Moves(c) == UNCHANGED pc \/ (pc[c] \notin Outside /\ Goes(c))

LEMMA DeliverMoves ==
  ASSUME NEW c \in Call, NEW k, NEW token,
         Deliver(c, k, token) \/ Fail(c)
  PROVE  Goes(c)
<1>1. \E label \in {"sent", "done", "failed"} : Goto(c, label)
  BY DEF Deliver, Fail
<1> QED BY <1>1 DEF Goes, Labels

LEMMA CatchMoves ==
  ASSUME NEW c \in Call, NEW status, NEW streamed,
         Catch(c, status, streamed) \/ refreshAccessTokenAsync(c)
  PROVE  Goes(c)
<1>1. \E label \in {"unauthorized", "forced", "failed"} : Goto(c, label)
  BY DEF Catch, refreshAccessTokenAsync
<1> QED BY <1>1 DEF Goes, Labels

LEMMA MetadataMoves ==
  ASSUME NEW c \in Call, NEW k, NEW u,
         derivedRequestMetadataAsync(c, k, u)
  PROVE  Goes(c)
<1>1. CASE \E label \in {"metadata", "id_token"} : Goto(c, label)
  BY <1>1 DEF Goes, Labels
<1>2. CASE (\E token : Deliver(c, k, token)) \/ Fail(c)
  BY <1>2, DeliverMoves
<1> QED
  BY <1>1, <1>2
  DEF derivedRequestMetadataAsync, getRequestHeaders, baseRequestMetadataAsync,
      getRequestMetadataAsync

LEMMA ClientMoves ==
  ASSUME NEW c \in Call, ClientStep(c)
  PROVE  Moves(c)
<1>1. CASE derivedRequestAsync(c)
  BY <1>1, MetadataMoves DEF derivedRequestAsync, Begin, Moves, Outside
<1>2. CASE DerivedReplay(c)
  BY <1>2, MetadataMoves DEF DerivedReplay, Moves, Outside
<1>3. CASE derivedRefreshAccessToken(c)
  <2>1. CASE Goto(c, "forced") /\ pc[c] = "idle"
    BY <2>1 DEF Moves, Goes, Labels, Outside
  <2> QED
    BY <1>3, <2>1, CatchMoves
    DEF derivedRefreshAccessToken, refreshAccessToken, Begin, Moves, Outside
<1>4. CASE authorizeAsync(c)
  BY <1>4 DEF authorizeAsync, StartMore, Moves, Goes, Labels, Outside
<1>5. CASE Authorized(c) \/ AuthorizeRefused(c)
  BY <1>5 DEF Authorized, AuthorizeRefused, Resume, Fail, Moves, Goes, Labels, Outside
<1>6. CASE IdTokenReceived(c) \/ IdTokenRefused(c)
  BY <1>6, DeliverMoves, CatchMoves
  DEF IdTokenReceived, IdTokenRefused, Resume, Moves, Outside
<1>7. CASE RawTokenGiven(c) \/ DerivedRefreshSettles(c) \/ TokenSourceAnswers(c)
  BY <1>7
  DEF RawTokenGiven, DerivedRefreshSettles, RefreshSettles, TokenSourceAnswers,
      TokenEndpointGrants, TokenEndpointOmitsToken, TokenEndpointRefuses,
      TokenEndpointAnswers, callVars, Moves
<1>8. CASE BaseCall(c)
  <2>1. CASE \E label \in {"revoking", "failed"} : Goto(c, label) /\ pc[c] = "idle"
    BY <2>1 DEF Moves, Goes, Labels, Outside
  <2> QED
    BY <1>8, <2>1, DeliverMoves, CatchMoves
    DEF BaseCall, getAccessTokenAsync, revokeCredentialsAsync, Begin, Moves, Outside
<1>9. CASE BaseContinuation(c)
  <2>1. CASE ForcedRefreshed(c)
    <3>1. \E label \in {"replay", "failed", "done"} : Goto(c, label)
      BY <2>1 DEF ForcedRefreshed
    <3> QED BY <2>1, <3>1 DEF ForcedRefreshed, Resume, Moves, Goes, Labels, Outside
  <2> QED
    BY <1>9, <2>1, DeliverMoves, CatchMoves
    DEF BaseContinuation, MetadataRefreshed, MetadataRefused, ForcedRefused,
        Resume, Moves, Outside
<1>10. CASE BaseAnswer(c)
  <2>1. CASE \E label \in {"done", "failed"} : Goto(c, label) /\ pc[c] = "revoking"
    BY <2>1 DEF Moves, Goes, Labels, Outside
  <2>2. CASE Goto(c, "done") /\ pc[c] = "sent"
    BY <2>2 DEF Moves, Goes, Labels, Outside
  <2> QED
    BY <1>10, <2>1, <2>2, CatchMoves
    DEF BaseAnswer, ApiAnswers, RevokeAnswers, Moves, Outside
<1> QED
  BY <1>1, <1>2, <1>3, <1>4, <1>5, <1>6, <1>7, <1>8, <1>9, <1>10 DEF ClientStep

-----------------------------------------------------------------------------
(* The ID tokens of an IdTokenClient.                                      *)

(* What the client remembers of its token is when it expires, or nothing.  *)
IdDated ==
  idCredentials.id_token # None /\ idCredentials.expiry_date # 0
    => idCredentials.expiry_date = idCredentials.id_token.exp

LEMMA IdDatedNext ==
  ASSUME Types, IdDated, [DerivedNext]_derivedVars
  PROVE  IdDated'
<1>1. CASE UNCHANGED idCredentials
  BY <1>1 DEF IdDated
<1>2. ASSUME NEW c \in Call, IdTokenClientStep(c)
      PROVE  IdDated'
  <2>1. CASE IdTokenFetched(c)
    BY <2>1 DEF IdTokenFetched, IdDated
  <2>2. CASE UNCHANGED idCredentials
    BY <2>2 DEF IdDated
  <2> QED
    BY <1>2, <2>1, <2>2
    DEF IdTokenClientStep, idTokenRequest, StartMore, IdTokenNotFetched, IdApiAnswers
<1> QED BY <1>1, <1>2 DEF DerivedNext, derivedVars

(* A cached ID token is only sent while it has not expired, for any number *)
(* of overlapping fetches (IdTokenClient.getRequestMetadataAsync).         *)
THEOREM IdTokensAreInTime == DerivedSpec => IdTokenInTime
<1>1. DerivedInit => IdDated
  BY DEF DerivedInit, IdDated
<1>2. Types /\ IdDated /\ [DerivedNext]_derivedVars
      => [\A c \in Call : pc[c] = "idle" /\ pc'[c] = "id_sent"
                            => bearer'[c].exp >= now]_derivedVars
  <2> SUFFICES ASSUME Types, IdDated, DerivedNext, NEW c \in Call,
                      pc[c] = "idle", pc'[c] = "id_sent"
               PROVE  bearer'[c].exp >= now
    OBVIOUS
  <2>1. ASSUME NEW d \in Call, IdTokenClientStep(d)
        PROVE  bearer'[c].exp >= now
    <3>1. d = c /\ idTokenRequest(c)
      BY <2>1
      DEF IdTokenClientStep, IdTokenFetched, SendIdToken, IdTokenNotFetched, Fail,
          IdApiAnswers, idTokenRequest, Goto, Types, Flow
    <3> QED
      <4>1. bearer'[c] = idCredentials.id_token /\ ~IdTokenExpired
            /\ idCredentials.id_token # None
        BY <3>1 DEF idTokenRequest, SendIdToken, Goto, Types, Flow, DerivedTypeOK
      <4>2. idCredentials \in IdCredentials /\ now \in Nat /\ now >= 1
        BY DEF Types, Flow, DerivedTypeOK
      <4> QED BY <4>1, <4>2 DEF IdDated, IdTokenExpired, IdCredentials
  <2>2. ASSUME NEW d \in Call, ClientStep(d)
        PROVE  FALSE
    BY <2>2, ClientMoves DEF Moves, Goes, Goto, Labels, Types, Flow
  <2>3. CASE DerivedTick
    BY <2>3 DEF DerivedTick, Tick, callVars
  <2> QED BY <2>1, <2>2, <2>3 DEF DerivedNext
<1> QED
  BY <1>1, <1>2, TypesInit, TypesNext, IdDatedNext, PTL DEF DerivedSpec, IdTokenInTime

-----------------------------------------------------------------------------
(* The placeholder.                                                        *)

Called == kind \in [Call -> Kinds \union {"authorize", "idTokenRequest"}]

(* A step that changes the refresh token stores the placeholder, or it is  *)
(* the application that revokes the credentials.                           *)
LEMMA CredentialsKept ==
  ASSUME Types, NEW c \in Call, ClientStep(c)
  PROVE  \/ credentials'.rt \in {credentials.rt, Placeholder}
         \/ pc[c] = "idle" /\ revokeCredentialsAsync(c)
<1>1. CASE derivedRequestAsync(c) \/ DerivedReplay(c) \/ derivedRefreshAccessToken(c)
  BY <1>1 DEF derivedRequestAsync, DerivedReplay, derivedRefreshAccessToken,
              refreshAccessToken
<1>2. CASE \/ authorizeAsync(c) \/ AuthorizeRefused(c) \/ IdTokenReceived(c)
           \/ IdTokenRefused(c)
  BY <1>2 DEF authorizeAsync, StartMore, AuthorizeRefused, IdTokenReceived,
              IdTokenRefused
<1>3. CASE Authorized(c)
  BY <1>3 DEF Authorized, AuthorizedCredentials
<1>4. CASE RawTokenGiven(c) \/ DerivedRefreshSettles(c) \/ TokenSourceAnswers(c)
  BY <1>4
  DEF RawTokenGiven, DerivedRefreshSettles, RefreshSettles, TokenSourceAnswers,
      TokenEndpointGrants, TokenEndpointOmitsToken, TokenEndpointRefuses,
      TokenEndpointAnswers
<1>5. CASE BaseCall(c)
  BY <1>5 DEF BaseCall, getAccessTokenAsync, revokeCredentialsAsync, Begin
<1>6. CASE BaseContinuation(c)
  <2>1. Refreshed(got[c]).rt = credentials.rt
    BY DEF Refreshed
  <2>2. credentials' = credentials \/ credentials' = Refreshed(got[c])
    BY <1>6 DEF BaseContinuation, MetadataRefreshed, MetadataRefused,
                ForcedRefreshed, ForcedRefused
  <2> QED BY <2>1, <2>2
<1>7. CASE BaseAnswer(c)
  BY <1>7 DEF BaseAnswer, ApiAnswers, RevokeAnswers
<1> QED
  BY <1>1, <1>2, <1>3, <1>4, <1>5, <1>6, <1>7 DEF ClientStep

LEMMA CalledNext ==
  ASSUME Called, [DerivedNext]_derivedVars
  PROVE  Called'
<1>1. ASSUME NEW c \in Call, NEW k \in Kinds \union {"authorize", "idTokenRequest"},
             kind' = [kind EXCEPT ![c] = k]
      PROVE  Called'
  BY <1>1 DEF Called
<1>2. CASE UNCHANGED kind
  BY <1>2 DEF Called
<1>3. ASSUME NEW c \in Call, NEW k, Begin(c, k)
      PROVE  Called'
  BY <1>1, <1>3, ConstantsOk DEF Begin, ConstantsOk
<1>4. ASSUME NEW c \in Call, NEW k, StartMore(c, k)
      PROVE  Called'
  BY <1>1, <1>4, DerivedConstantsOk DEF StartMore, DerivedConstantsOk
<1>5. ASSUME NEW c \in Call, ClientStep(c)
      PROVE  Called'
  <2>1. CASE derivedRequestAsync(c) \/ derivedRefreshAccessToken(c) \/ BaseCall(c)
    BY <1>3, <2>1
    DEF derivedRequestAsync, derivedRefreshAccessToken, refreshAccessToken,
        BaseCall, getAccessTokenAsync, revokeCredentialsAsync
  <2>2. CASE authorizeAsync(c)
    BY <1>4, <2>2 DEF authorizeAsync
  <2>3. CASE \/ DerivedReplay(c) \/ Authorized(c) \/ AuthorizeRefused(c)
             \/ IdTokenReceived(c) \/ IdTokenRefused(c) \/ BaseContinuation(c)
    BY <1>2, <2>3
    DEF DerivedReplay, Authorized, AuthorizeRefused, IdTokenReceived,
        IdTokenRefused, BaseContinuation, MetadataRefreshed, MetadataRefused,
        ForcedRefreshed, ForcedRefused, Resume
  <2>4. CASE \/ RawTokenGiven(c) \/ DerivedRefreshSettles(c)
             \/ TokenSourceAnswers(c) \/ BaseAnswer(c)
    BY <1>2, <2>4
    DEF RawTokenGiven, DerivedRefreshSettles, RefreshSettles, TokenSourceAnswers,
        TokenEndpointGrants, TokenEndpointOmitsToken, TokenEndpointRefuses,
        TokenEndpointAnswers, BaseAnswer, ApiAnswers, RevokeAnswers, callVars
  <2> QED BY <1>5, <2>1, <2>2, <2>3, <2>4 DEF ClientStep
<1>6. ASSUME NEW c \in Call, IdTokenClientStep(c)
      PROVE  Called'
  <2>1. CASE idTokenRequest(c)
    BY <1>4, <2>1 DEF idTokenRequest
  <2>2. CASE IdTokenFetched(c) \/ IdTokenNotFetched(c) \/ IdApiAnswers(c)
    BY <1>2, <2>2 DEF IdTokenFetched, IdTokenNotFetched, IdApiAnswers
  <2> QED BY <1>6, <2>1, <2>2 DEF IdTokenClientStep
<1>7. CASE DerivedTick \/ UNCHANGED derivedVars
  BY <1>2, <1>7 DEF DerivedTick, Tick, derivedVars, vars, callVars
<1> QED BY <1>5, <1>6, <1>7 DEF DerivedNext

(* However refreshes and authorize() interleave, the client keeps its key  *)
(* to the shared refreshes until the application revokes.                  *)
THEOREM PlaceholderStays == DerivedSpec => PlaceholderKept
<1>1. DerivedInit => Called
  <2>1. "request" \in Kinds
    BY DEF Kinds
  <2>2. DerivedInit => kind = [c \in Call |-> "request"]
    BY DEF DerivedInit, Init
  <2> QED BY <2>1, <2>2 DEF Called
<1>2. Types /\ Called /\ [DerivedNext]_derivedVars
      => [credentials.rt = Placeholder /\ credentials'.rt # Placeholder
            => \E c \in Call : pc[c] = "idle" /\ kind'[c] = "revokeCredentials"
                               /\ pc'[c] # "idle"]_derivedVars
  <2> SUFFICES ASSUME Types, Called, DerivedNext,
                      credentials.rt = Placeholder, credentials'.rt # Placeholder
               PROVE  \E c \in Call : /\ pc[c] = "idle"
                                      /\ kind'[c] = "revokeCredentials"
                                      /\ pc'[c] # "idle"
    OBVIOUS
  <2>1. PICK c \in Call : ClientStep(c) \/ IdTokenClientStep(c)
    BY DEF DerivedNext, DerivedTick, Tick
  <2>2. ~IdTokenClientStep(c)
    BY DEF IdTokenClientStep, idTokenRequest, StartMore, IdTokenFetched,
           IdTokenNotFetched, IdApiAnswers
  <2>3. pc[c] = "idle" /\ revokeCredentialsAsync(c)
    BY <2>1, <2>2, CredentialsKept
  <2> QED
    BY <2>3 DEF revokeCredentialsAsync, Begin, Goto, Called, Types, Flow
<1> QED
  BY <1>1, <1>2, TypesInit, TypesNext, CalledNext, PTL DEF DerivedSpec, PlaceholderKept

-----------------------------------------------------------------------------
(* Self-signed JWTs.                                                       *)

(* A header that a call holds is one it signed itself, for its URL, and    *)
(* the cache of JWTAccess keeps each under the URL it was signed for.      *)
Signed ==
  /\ \A c \in Call : pc[c] = "idle" => bearer[c] = None
  /\ \A c \in Call : bearer[c] # None /\ pc[c] \notin Outside
                       => SelfSigned(url[c]) /\ ~target_audience
  /\ \A u \in Url : access # None /\ access.cache[u] # None
                      => access.cache[u].url = u

LEMMA SignedInit == DerivedInit => Signed
  BY DEF DerivedInit, Init, Signed

(* A step that signs nothing.                                              *)
LEMMA SignedMoves ==
  ASSUME Types, Signed, NEW c \in Call, Moves(c),
         UNCHANGED <<options, apiKey, url, bearer, access>>
  PROVE  Signed'
<1>1. ASSUME NEW d \in Call
      PROVE  /\ pc'[d] = "idle" => pc[d] = "idle"
             /\ pc'[d] \notin Outside => pc[d] \notin Outside
  BY <1>1 DEF Moves, Goes, Goto, Labels, Types, Flow
<1>2. \A u : SelfSigned(u)' = SelfSigned(u)
  BY DEF SelfSigned, options
<1>3. \A d \in Call : SelfSigned(url[d])' = SelfSigned(url[d])
  BY DEF SelfSigned, options
<1>4. UNCHANGED target_audience
  BY DEF options
<1> QED BY <1>1, <1>3, <1>4 DEF Signed

(* What getRequestMetadataAsync of a call leaves the call with.            *)
FitsRequest(c) ==
  bearer'[c] # None => bearer'[c].url = url'[c] /\ bearer'[c].exp > now + Threshold

LEMMA CachedFits ==
  ASSUME Types, Signed, NEW c \in Call, NEW u \in Url, NEW b, Signs(c, u, b),
         SignedLifetime > Threshold
  PROVE  /\ b # None /\ b.url = u /\ b.exp > now + Threshold
         /\ \A x \in Url : access'.cache[x] # None => access'.cache[x].url = x
<1> DEFINE a == JWTAccess
<1>1. a \in Access /\ \A x \in Url : a.cache[x] # None => a.cache[x].url = x
  BY AccessTyped DEF Signed, JWTAccess
<1>2. CASE access' = a /\ b \in cachedToken(a, u)
  BY <1>1, <1>2 DEF cachedToken
<1>3. CASE /\ b = [url |-> u, exp |-> now + SignedLifetime]
           /\ access' = [a EXCEPT !.cache[u] = b]
  <2>1. b.exp > now + Threshold
    BY <1>3, ConstantsOk, DerivedConstantsOk
    DEF ConstantsOk, DerivedConstantsOk, Types, Flow
  <2>2. b # None
    BY DerivedConstantsOk DEF DerivedConstantsOk, Signs
  <2>3. \A x \in Url : access'.cache[x] = IF x = u THEN b ELSE a.cache[x]
    BY <1>1, <1>3 DEF Access
  <2> QED BY <1>1, <1>3, <2>1, <2>2, <2>3
<1> QED BY <1>2, <1>3 DEF Signs

LEMMA MetadataSigns ==
  ASSUME Types, Signed, NEW c \in Call, NEW k, NEW u \in Url \union {None},
         derivedRequestMetadataAsync(c, k, u),
         url' = [url EXCEPT ![c] = u], UNCHANGED <<options, apiKey>>,
         pc[c] = "idle" \/ (pc[c] = "replay" /\ u = url[c]),
         SignedLifetime > Threshold
  PROVE  Signed' /\ (pc'[c] # "failed" => FitsRequest(c))
<1> USE DEF options
<1>1. Goes(c)
  BY MetadataMoves
<1>2. url'[c] = u /\ \A d \in Call \ {c} : url'[d] = url[d]
  BY DEF Types, DerivedTypeOK
<1>3. pc'[c] # "idle" /\ \A d \in Call \ {c} : pc'[d] = pc[d]
  BY <1>1 DEF Goes, Goto, Labels, Types, Flow
<1>4. \A d \in Call \ {c} : SelfSigned(url[d])' = SelfSigned(url[d])
  BY <1>2 DEF SelfSigned
<1>5. SelfSigned(url[c])' = SelfSigned(u)
  BY <1>2 DEF SelfSigned
<1>6. CASE SelfSigned(u) /\ ~target_audience /\ getRequestHeaders(c, k, u)
  <2>1. u \in Url
    BY <1>6 DEF SelfSigned
  <2>2. \/ (\E b : Signs(c, u, b)) /\ Deliver(c, k, None)
        \/ access' = JWTAccess /\ UNCHANGED bearer /\ Fail(c)
    BY <1>6, <2>1, HeadersSigned
  <2>3. CASE \E b : Signs(c, u, b)
    <3>1. PICK b : Signs(c, u, b)
      BY <2>3
    <3>2. bearer'[c] = b /\ \A d \in Call \ {c} : bearer'[d] = bearer[d]
      BY <3>1 DEF Signs, Types, DerivedTypeOK
    <3>3. /\ b # None /\ b.url = u /\ b.exp > now + Threshold
          /\ \A x \in Url : access'.cache[x] # None => access'.cache[x].url = x
      BY <2>1, <3>1, CachedFits
    <3> QED
      BY <1>2, <1>3, <1>4, <1>5, <1>6, <3>2, <3>3 DEF Signed, FitsRequest
  <2>4. CASE access' = JWTAccess /\ UNCHANGED bearer /\ Fail(c)
    <3>1. pc'[c] = "failed"
      BY <2>4 DEF Fail, Goto, Types, Flow
    <3>2. \A x \in Url : access'.cache[x] # None => access'.cache[x].url = x
      BY <2>4 DEF Signed, JWTAccess
    <3> QED
      BY <1>2, <1>3, <1>4, <2>4, <3>1, <3>2 DEF Signed, Outside
  <2> QED BY <2>2, <2>3, <2>4
<1>7. CASE ~(SelfSigned(u) /\ ~target_audience)
  <2>1. UNCHANGED <<access, bearer>>
    BY <1>7 DEF derivedRequestMetadataAsync
  <2>2. bearer[c] = None
    BY <1>7 DEF Signed, Outside
  <2> QED
    BY <1>2, <1>3, <1>4, <2>1, <2>2 DEF Signed, FitsRequest
<1>8. SelfSigned(u) /\ ~target_audience => getRequestHeaders(c, k, u)
  BY DEF derivedRequestMetadataAsync
<1> QED BY <1>6, <1>7, <1>8

(* The steps that sign, and those that do not.                             *)
LEMMA ClientSigns ==
  ASSUME Types, Signed, NEW c \in Call, ClientStep(c), UNCHANGED options,
         SignedLifetime > Threshold
  PROVE  /\ Signed'
         /\ pc[c] \in {"idle", "replay"} /\ pc'[c] \in {"sent", "done"}
            => FitsRequest(c)
<1>1. CASE derivedRequestAsync(c)
  <2> PICK k \in Requests \union {"getRequestHeaders"}, u \in Url \union {None} :
        /\ Begin(c, k)
        /\ url' = [url EXCEPT ![c] = u]
        /\ derivedRequestMetadataAsync(c, k, u)
    BY <1>1 DEF derivedRequestAsync
  <2> QED BY MetadataSigns DEF Begin
<1>2. CASE DerivedReplay(c)
  <2>1. url[c] \in Url \union {None} /\ url' = [url EXCEPT ![c] = url[c]]
    BY <1>2 DEF DerivedReplay, Types, DerivedTypeOK
  <2>2. derivedRequestMetadataAsync(c, kind[c], url[c]) /\ pc[c] = "replay"
        /\ UNCHANGED apiKey
    BY <1>2 DEF DerivedReplay
  <2> QED BY <2>1, <2>2, MetadataSigns
<1>3. ASSUME ~derivedRequestAsync(c), ~DerivedReplay(c)
      PROVE  /\ UNCHANGED <<apiKey, url, bearer, access>>
             /\ pc[c] = "replay" => pc'[c] = "replay"
  <2>1. CASE \/ derivedRefreshAccessToken(c) \/ authorizeAsync(c) \/ BaseCall(c)
    BY <2>1
    DEF derivedRefreshAccessToken, refreshAccessToken, authorizeAsync, BaseCall,
        getAccessTokenAsync, revokeCredentialsAsync, Begin, StartMore
  <2>2. CASE \/ Authorized(c) \/ AuthorizeRefused(c) \/ IdTokenReceived(c)
             \/ IdTokenRefused(c) \/ BaseContinuation(c)
    BY <2>2
    DEF Authorized, AuthorizeRefused, IdTokenReceived, IdTokenRefused,
        BaseContinuation, MetadataRefreshed, MetadataRefused, ForcedRefreshed,
        ForcedRefused, Resume, jwtVars
  <2>3. CASE \/ RawTokenGiven(c) \/ DerivedRefreshSettles(c)
             \/ TokenSourceAnswers(c) \/ BaseAnswer(c)
    BY <2>3
    DEF RawTokenGiven, DerivedRefreshSettles, RefreshSettles, TokenSourceAnswers,
        TokenEndpointGrants, TokenEndpointOmitsToken, TokenEndpointRefuses,
        TokenEndpointAnswers, BaseAnswer, ApiAnswers, RevokeAnswers, callVars,
        jwtVars
  <2> QED BY <1>3, <2>1, <2>2, <2>3 DEF ClientStep
<1>4. CASE ~derivedRequestAsync(c) /\ ~DerivedReplay(c)
  <2>1. Signed'
    BY <1>3, <1>4, ClientMoves, SignedMoves
  <2>2. pc[c] = "idle" => bearer'[c] = None
    BY <1>3, <1>4 DEF Signed
  <2> QED BY <1>3, <1>4, <2>1, <2>2 DEF FitsRequest
<1> QED BY <1>1, <1>2, <1>4

LEMMA IdTokenClientSigned ==
  ASSUME Types, Signed, NEW c \in Call, IdTokenClientStep(c), UNCHANGED options
  PROVE  Signed' /\ \A d \in Call : pc'[d] \in {"sent", "done"}
                                      => pc[d] \notin {"idle", "replay"}
<1>1. UNCHANGED <<access, url, apiKey>>
  BY DEF IdTokenClientStep, idTokenRequest, StartMore, IdTokenFetched,
         IdTokenNotFetched, IdApiAnswers, jwtVars
<1>2. /\ pc'[c] \in Outside
      /\ pc[c] = "idle" => pc'[c] \notin {"sent", "done"}
      /\ pc[c] # "replay"
      /\ bearer'[c] # None => pc'[c] \in Outside
      /\ \A d \in Call \ {c} : pc'[d] = pc[d] /\ bearer'[d] = bearer[d]
  <2>1. CASE idTokenRequest(c)
    BY <2>1 DEF idTokenRequest, StartMore, SendIdToken, Goto, Outside, Types, Flow,
                DerivedTypeOK
  <2>2. CASE IdTokenFetched(c)
    BY <2>2 DEF IdTokenFetched, SendIdToken, Goto, Outside, Types, Flow,
                DerivedTypeOK
  <2>3. CASE IdTokenNotFetched(c) \/ IdApiAnswers(c)
    BY <2>3 DEF IdTokenNotFetched, IdApiAnswers, Fail, Goto, jwtVars, Outside,
                Types, Flow
  <2> QED BY <2>1, <2>2, <2>3 DEF IdTokenClientStep
<1>3. \A d \in Call : SelfSigned(url[d])' = SelfSigned(url[d])
  BY <1>1 DEF SelfSigned, options
<1> QED
  BY <1>1, <1>2, <1>3 DEF Signed, Outside, options

LEMMA SignedNext ==
  ASSUME Types, Signed, [DerivedNext]_derivedVars, SignedLifetime > Threshold
  PROVE  Signed'
<1>1. CASE DerivedTick /\ UNCHANGED options
  BY <1>1 DEF DerivedTick, Tick, callVars, jwtVars, options, Signed, SelfSigned
<1>2. CASE UNCHANGED derivedVars
  BY <1>2 DEF derivedVars, vars, callVars, jwtVars, options, Signed, SelfSigned
<1> QED
  BY <1>1, <1>2, ClientSigns, IdTokenClientSigned DEF DerivedNext

(* Whatever the calls and replays before it put into the cache, a request  *)
(* gets a header that was signed for its own URL and outlives the eager    *)
(* threshold.  Assumed: a self-signed JWT lives longer than the threshold. *)
THEOREM SelfSignedFits ==
  ASSUME SignedLifetime > Threshold
  PROVE  DerivedSpec => SelfSignedFitsItsRequest
<1>1. Types /\ Signed /\ [DerivedNext]_derivedVars
      => [\A c \in Call :
            /\ pc[c] \in {"idle", "replay"} /\ pc'[c] \in {"sent", "done"}
            /\ bearer'[c] # None
            => /\ bearer'[c].url = url'[c]
               /\ bearer'[c].exp > now + Threshold]_derivedVars
  <2> SUFFICES ASSUME Types, Signed, DerivedNext, NEW c \in Call,
                      pc[c] \in {"idle", "replay"}, pc'[c] \in {"sent", "done"},
                      bearer'[c] # None
               PROVE  /\ bearer'[c].url = url'[c]
                      /\ bearer'[c].exp > now + Threshold
    OBVIOUS
  <2>1. ASSUME NEW d \in Call, ClientStep(d), UNCHANGED options
        PROVE  FitsRequest(c)
    <3>1. d = c
      BY <2>1, ClientMoves DEF Moves, Goes, Goto, Types, Flow
    <3> QED BY <2>1, <3>1, ClientSigns
  <2>2. ASSUME NEW d \in Call, IdTokenClientStep(d), UNCHANGED options
        PROVE  FALSE
    BY <2>2, IdTokenClientSigned
  <2>3. CASE DerivedTick
    BY <2>3 DEF DerivedTick, Tick, callVars
  <2> QED BY <2>1, <2>2, <2>3 DEF DerivedNext, FitsRequest
<1>2. Types /\ Signed /\ [DerivedNext]_derivedVars => Signed'
  BY SignedNext
<1> QED
  BY <1>1, <1>2, TypesInit, TypesNext, SignedInit, PTL
  DEF DerivedSpec, SelfSignedFitsItsRequest
=============================================================================
