--------------------------- MODULE DerivedClients ---------------------------
(***************************************************************************)
(* The clients derived from OAuth2Client: what JWT (src/auth/jwtclient.ts, *)
(* with the JWTAccess and the GoogleToken it makes), Compute               *)
(* (computeclient.ts) and UserRefreshClient (refreshclient.ts) change in   *)
(* the token life cycle of OAuth2Client, and an IdTokenClient              *)
(* (idtokenclient.ts) that has one of them as its provider of ID tokens.   *)
(*                                                                         *)
(* Their refreshTokenNoCache ignores its argument.  credentials'           *)
(* refresh_token, for JWT and Compute an expired placeholder, is only the  *)
(* key of the map of refreshes in flight.  A refresh without it is not in  *)
(* the map, and is filed here under a second "refresh token", Unshared.    *)
(*                                                                         *)
(* GoogleToken is a library with a cache of its own, between the client    *)
(* and the token endpoint: getToken gives the token it holds while that    *)
(* has not expired, unless it is told forceRefresh.  It is external, like  *)
(* the metadata server that Compute asks.  The application may have called *)
(* setCredentials before the calls begin; that it may do so among them is  *)
(* OAuth2Client's business.                                                *)
(***************************************************************************)
EXTENDS OAuth2Client

CONSTANTS
  Placeholder,            \* 'jwt-placeholder', 'compute-placeholder', or
                          \* the user's refresh token
  Unshared,               \* the missing argument of refreshToken()
  Url,                    \* the URLs requests go to
  SignedLifetime,         \* of a self-signed JWT: one hour
  Installed,              \* what setCredentials may have installed
  MoreMethods             \* a subset of {"authorize", "idTokenRequest"}

VARIABLES
  class,                  \* of the client, one of Classes
  scopes,                 \* are there user scopes, default scopes or none?
  target_audience,        \* is additionalClaims.target_audience set?
  key,                    \* is this.key set?  There is a keyFile otherwise
  access,                 \* this.access: the key it has and its cache
  gtoken,                 \* the token this.gtoken holds
  asks,                   \* does the refresh c started ask an endpoint?
  url,                    \* where each call goes, or None
  bearer,                 \* the self-signed JWT or ID token a call is given
  idCredentials           \* this.credentials of the IdTokenClient

options == <<class, scopes, target_audience>>
jwtVars == <<key, access, gtoken, asks, url, bearer>>
derivedVars == <<vars, options, jwtVars, idCredentials>>

Classes == {"JWT", "Compute", "UserRefreshClient"}

(* What the constructors leave in this.credentials.                        *)
Expired == [at |-> None, rt |-> Placeholder, exp |-> 1]
Undated == [at |-> None, rt |-> Placeholder, exp |-> 0]
Constructed == IF class = "UserRefreshClient" THEN Undated ELSE Expired

(* A self-signed JWT has the URL it was signed for; an ID token has none.  *)
Bearer == [url : Url \union {None}, exp : Nat]
Access == [key : BOOLEAN, cache : [Url -> Bearer \union {None}]]

(* expiry_date is 0 when the ID token's payload does not tell.             *)
IdCredentials == [id_token : Bearer \union {None}, expiry_date : Nat]

NoRawToken == [at |-> None, exp |-> 0]

ASSUME DerivedConstantsOk ==
  /\ RefreshToken = {Placeholder, Unshared} /\ Placeholder # Unshared
  /\ Placeholder \notin Call
  /\ Stashed = {Expired, Undated} \union Installed
  /\ \A s \in Installed : s.rt \in {Placeholder, None}
  /\ SignedLifetime \in Nat
  /\ MoreMethods \subseteq {"authorize", "idTokenRequest"}
  /\ None \notin Url \union Bearer \union Access

DerivedInit ==
  /\ Init
  /\ class \in Classes
  /\ credentials \in {Constructed} \union Installed
  /\ scopes \in IF class = "JWT" THEN {"user", "default", "none"} ELSE {"user"}
  /\ target_audience \in IF class = "JWT" THEN BOOLEAN ELSE {FALSE}
  /\ key \in IF class = "JWT" THEN BOOLEAN ELSE {FALSE}
  /\ access = None
  /\ gtoken = NoRawToken
  /\ asks = [c \in Call |-> FALSE]
  /\ url = [c \in Call |-> None]
  /\ bearer = [c \in Call |-> None]
  /\ idCredentials = [id_token |-> None, expiry_date |-> 0]

-----------------------------------------------------------------------------
(* JWTAccess: headers signed by the client itself.                         *)

(* Variant: the cache is not keyed by the URL.                             *)
cachedForAnyUrl(a, u) ==
  {b \in {a.cache[x] : x \in Url} \ {None} : b.exp > now + Threshold}
cachedToken(a, u) ==
  {b \in {a.cache[u]} \ {None} : b.exp > now + Threshold}

(* this.access is made when it is first needed and keeps the key that the  *)
(* client had then; signing fails without one.                             *)
JWTAccess == IF access # None THEN access
             ELSE [key |-> key, cache |-> [u \in Url |-> None]]

getRequestHeaders(c, k, u) ==
  LET a == JWTAccess
      signed == [url |-> u, exp |-> now + SignedLifetime]
  IN \/ \E b \in cachedToken(a, u) :
          /\ bearer' = [bearer EXCEPT ![c] = b]
          /\ access' = a
          /\ Deliver(c, k, None)
     \/ /\ cachedToken(a, u) = {} /\ a.key
        /\ bearer' = [bearer EXCEPT ![c] = signed]
        /\ access' = [a EXCEPT !.cache[u] = signed]
        /\ Deliver(c, k, None)
     \/ /\ cachedToken(a, u) = {} /\ ~a.key
        /\ access' = a
        /\ Fail(c)
        /\ UNCHANGED bearer

-----------------------------------------------------------------------------
(* The refreshes of a JWT client.                                          *)

(* Variant: gtoken is never told to fetch a new token.                     *)
neverForced == FALSE

forceRefresh == class = "JWT" /\ isTokenExpiring

(* GoogleToken holds a token that has not expired.                         *)
HoldsRawToken == class = "JWT" /\ gtoken.at # None /\ gtoken.exp > now

(* createGToken and getToken, for the refresh that a step starts: whether  *)
(* an endpoint is asked is decided at once.                                *)
refreshTokenNoCache ==
  asks' = [c \in Call |-> IF post'[c] = None THEN FALSE
                          ELSE IF post[c] = None
                          THEN forceRefresh \/ ~HoldsRawToken
                          ELSE asks[c]]

(* refreshToken without a refresh token: OAuth2Client's would fail, these  *)
(* clients' do not need it.                                                *)
refreshTokenWithoutArgument(c) ==
  /\ awaiting' = [awaiting EXCEPT ![c] = c]
  /\ post' = [post EXCEPT ![c] = [rt |-> Unshared, reply |-> None]]
  /\ starts' = [starts EXCEPT ![c] = @ + 1]
  /\ UNCHANGED <<refreshTokenPromises, header, sends>>

(* Whether the call bypasses the access token.                             *)
SelfSigned(u) == class = "JWT" /\ ~apiKey /\ scopes # "user" /\ u # None

(* The base's getRequestMetadataAsync, when the credentials hold an        *)
(* expiring access token and no refresh token any more.                    *)
LacksPlaceholder ==
  ~Usable /\ ~apiKey /\ credentials.at # None /\ credentials.rt = None

baseRequestMetadataAsync(c, k) ==
  IF LacksPlaceholder
  THEN Goto(c, "metadata") /\ refreshTokenWithoutArgument(c)
  ELSE getRequestMetadataAsync(c, k)

(* getRequestMetadataAsync: JWT's, which for some calls is its base's.     *)
derivedRequestMetadataAsync(c, k, u) ==
  \/ /\ SelfSigned(u) /\ target_audience
     /\ Goto(c, "id_token")
     /\ refreshTokenWithoutArgument(c)
     /\ UNCHANGED <<access, bearer>>
  \/ /\ SelfSigned(u) /\ ~target_audience
     /\ getRequestHeaders(c, k, u)
     /\ UNCHANGED refreshVars
  \/ /\ ~SelfSigned(u) /\ (scopes # "none" \/ apiKey)
     /\ baseRequestMetadataAsync(c, k)
     /\ UNCHANGED <<access, bearer>>
  \/ /\ ~SelfSigned(u) /\ scopes = "none" /\ ~apiKey
     /\ Deliver(c, k, None)
     /\ UNCHANGED <<refreshVars, access, bearer>>

-----------------------------------------------------------------------------
(* The application's calls, and what follows a refresh.                    *)

(* A request has a URL; getRequestHeaders may have none.                   *)
derivedRequestAsync(c) ==
  \E k \in Requests \union {"getRequestHeaders"}, u \in Url \union {None} :
    /\ k \in Requests => u # None
    /\ Begin(c, k)
    /\ url' = [url EXCEPT ![c] = u]
    /\ derivedRequestMetadataAsync(c, k, u)
    /\ refreshTokenNoCache
    /\ UNCHANGED <<credentials, key, gtoken>>

DerivedReplay(c) ==
  /\ pc[c] = "replay"
  /\ derivedRequestMetadataAsync(c, kind[c], url[c])
  /\ refreshTokenNoCache
  /\ UNCHANGED <<apiKey, now, issued, credentials, swaps, kind, got, retry,
                 key, gtoken, url>>

derivedRefreshAccessToken(c) ==
  /\ IF credentials.rt = None
     THEN /\ Begin(c, "refreshAccessToken")
          /\ Goto(c, "forced")
          /\ refreshTokenWithoutArgument(c)
          /\ UNCHANGED credentials
     ELSE refreshAccessToken(c)
  /\ refreshTokenNoCache
  /\ UNCHANGED <<key, access, gtoken, url, bearer>>

StartMore(c, k) ==
  /\ pc[c] = "idle"
  /\ k \in MoreMethods
  /\ kind' = [kind EXCEPT ![c] = k]
  /\ UNCHANGED <<apiKey, now, issued, credentials, swaps, got, retry,
                 key, access, gtoken, url>>

authorizeAsync(c) ==
  /\ class = "JWT"
  /\ StartMore(c, "authorize")
  /\ Goto(c, "authorizing")
  /\ refreshTokenWithoutArgument(c)
  /\ refreshTokenNoCache
  /\ UNCHANGED bearer

(* Variants: the result is stored as it came; the placeholder is not put   *)
(* back.                                                                   *)
AuthorizedAsReceived(r) == r
AuthorizedWithoutPlaceholder(r) == [at |-> r.at, rt |-> None, exp |-> r.exp]

AuthorizedCredentials(r) == [at |-> r.at, rt |-> Placeholder, exp |-> r.exp]

(* authorizeAsync goes on: it also takes over the key that gtoken read.    *)
Authorized(c) ==
  /\ Resume(c, "authorizing", {"ok"})
  /\ credentials' = AuthorizedCredentials(got[c])
  /\ key' = TRUE
  /\ header' = [header EXCEPT ![c] = got[c].at]
  /\ Goto(c, "done")
  /\ UNCHANGED <<retry, sends, refreshVars, access, gtoken, asks, url, bearer>>

AuthorizeRefused(c) ==
  /\ Resume(c, "authorizing", {"auth", "error"})
  /\ Fail(c)
  /\ UNCHANGED <<credentials, retry, refreshVars, jwtVars>>

(* getRequestMetadataAsync goes on with tokens.id_token, and stores        *)
(* nothing.                                                                *)
IdTokenReceived(c) ==
  /\ Resume(c, "id_token", {"ok"})
  /\ Deliver(c, kind[c], got[c].at)
  /\ UNCHANGED <<credentials, retry, refreshVars, jwtVars>>

IdTokenRefused(c) ==
  /\ Resume(c, "id_token", {"auth", "error"})
  /\ IF kind[c] \in Requests
     THEN Catch(c, got[c].status, FALSE)
     ELSE Fail(c) /\ UNCHANGED <<retry, refreshVars>>
  /\ refreshTokenNoCache
  /\ UNCHANGED <<credentials, key, access, gtoken, url, bearer>>

-----------------------------------------------------------------------------
(* GoogleToken and the token endpoint.                                     *)

(* getToken gives the token it holds at once, so that nothing else comes   *)
(* before it.                                                              *)
HasRawToken(c) == post[c] # None /\ post[c].reply = None /\ ~asks[c]

Idle == ~Ready /\ \A c \in Call : ~HasRawToken(c)

(* Variant: the expiry is counted from the time the cached answer is used. *)
RawTokenAsNew ==
  [status |-> "ok", at |-> gtoken.at,
   exp |-> now + (CHOOSE life \in Lifetimes : TRUE)]

RawToken == [status |-> "ok", at |-> gtoken.at, exp |-> gtoken.exp]

RawTokenGiven(c) ==
  /\ HasRawToken(c)
  /\ got' = [w \in Call |-> IF awaiting[w] = c THEN RawToken ELSE got[w]]
  /\ awaiting' = [w \in Call |-> IF awaiting[w] = c THEN None ELSE awaiting[w]]
  /\ refreshTokenPromises' = PromisesAfter(c)
  /\ post' = [post EXCEPT ![c] = None]
  /\ asks' = [asks EXCEPT ![c] = FALSE]
  /\ UNCHANGED <<apiKey, now, issued, credentials, swaps, starts, pc, kind,
                 retry, header, sends, key, access, gtoken, url, bearer>>

(* gtoken keeps what it received before the client goes on.  An error may  *)
(* make it forget its token.                                               *)
DerivedRefreshSettles(c) ==
  /\ Idle
  /\ RefreshSettles(c)
  /\ gtoken' \in IF class = "JWT" /\ ~target_audience
                 THEN IF post[c].reply.status = "ok"
                      THEN {[at |-> post[c].reply.token,
                             exp |-> Outcome(post[c].reply).exp]}
                      ELSE {gtoken, NoRawToken}
                 ELSE {gtoken}
  /\ refreshTokenNoCache
  /\ UNCHANGED <<key, access, url, bearer>>

(* With a target_audience the endpoint grants an ID token, and only that.  *)
TokenSourceAnswers(c) ==
  /\ Idle
  /\ \/ TokenEndpointGrants(c) /\ (target_audience => pc[c] = "id_token")
     \/ TokenEndpointOmitsToken(c)
     \/ TokenEndpointRefuses(c)
  /\ UNCHANGED jwtVars

-----------------------------------------------------------------------------
(* The IdTokenClient.                                                      *)

(* Variant: a token without expiry is taken for one that does not expire.  *)
IdTokenKnownExpired ==
  idCredentials.expiry_date # 0 /\ idCredentials.expiry_date < now

IdTokenExpired == idCredentials.expiry_date < now

SendIdToken(c, token) ==
  /\ Goto(c, "id_sent")
  /\ bearer' = [bearer EXCEPT ![c] = token]
  /\ sends' = [sends EXCEPT ![c] = @ + 1]

idTokenRequest(c) ==
  /\ class # "UserRefreshClient"
  /\ StartMore(c, "idTokenRequest")
  /\ IF idCredentials.id_token = None \/ IdTokenExpired
     THEN Goto(c, "fetching") /\ UNCHANGED <<sends, bearer>>
     ELSE SendIdToken(c, idCredentials.id_token)
  /\ UNCHANGED <<refreshVars, header, asks, idCredentials>>

(* fetchIdToken of either provider asks anew; the token is as old as the   *)
(* answer.                                                                 *)
fetchIdToken ==
  {b \in {[url |-> None, exp |-> now + life - age] :
            life \in Lifetimes, age \in 0..MaxLatency} : b.exp >= 0}

IdTokenFetched(c) ==
  /\ Idle
  /\ pc[c] = "fetching"
  /\ \E token \in fetchIdToken, readable \in BOOLEAN :
       /\ idCredentials' = [id_token |-> token,
                            expiry_date |-> IF readable THEN token.exp ELSE 0]
       /\ SendIdToken(c, token)
  /\ UNCHANGED <<apiKey, now, issued, credentials, swaps, refreshVars, kind, got,
                 retry, header, key, access, gtoken, asks, url>>

(* The provider fails or has no token, or the payload is not JSON.         *)
IdTokenNotFetched(c) ==
  /\ Idle
  /\ pc[c] = "fetching"
  /\ Fail(c)
  /\ UNCHANGED <<apiKey, now, issued, credentials, swaps, refreshVars, kind, got,
                 retry, jwtVars, idCredentials>>

(* The IdTokenClient holds no access token, so that nothing is replayed.   *)
IdApiAnswers(c) ==
  /\ Idle
  /\ pc[c] = "id_sent"
  /\ \E end \in Settled : Goto(c, end)
  /\ UNCHANGED <<apiKey, now, issued, credentials, swaps, refreshVars, kind, got,
                 retry, header, sends, jwtVars, idCredentials>>

-----------------------------------------------------------------------------

(* The steps that are the same as in OAuth2Client.                         *)
BaseCall(c) ==
  /\ \/ getAccessTokenAsync(c)
     \/ revokeCredentialsAsync(c)
  /\ refreshTokenNoCache
  /\ UNCHANGED <<key, access, gtoken, url, bearer>>

BaseContinuation(c) ==
  /\ \/ MetadataRefreshed(c)
     \/ MetadataRefused(c)
     \/ ForcedRefreshed(c)
     \/ ForcedRefused(c)
  /\ refreshTokenNoCache
  /\ UNCHANGED <<key, access, gtoken, url, bearer>>

BaseAnswer(c) ==
  /\ Idle
  /\ ApiAnswers(c) \/ RevokeAnswers(c)
  /\ refreshTokenNoCache
  /\ UNCHANGED <<key, access, gtoken, url, bearer>>

DerivedTick == Idle /\ Tick /\ UNCHANGED jwtVars

ClientStep(c) ==
  \/ derivedRequestAsync(c)
  \/ derivedRefreshAccessToken(c)
  \/ DerivedReplay(c)
  \/ authorizeAsync(c)
  \/ Authorized(c)
  \/ AuthorizeRefused(c)
  \/ IdTokenReceived(c)
  \/ IdTokenRefused(c)
  \/ RawTokenGiven(c)
  \/ DerivedRefreshSettles(c)
  \/ TokenSourceAnswers(c)
  \/ BaseCall(c)
  \/ BaseContinuation(c)
  \/ BaseAnswer(c)

IdTokenClientStep(c) ==
  \/ idTokenRequest(c)
  \/ IdTokenFetched(c)
  \/ IdTokenNotFetched(c)
  \/ IdApiAnswers(c)

DerivedNext ==
  \/ \E c \in Call : ClientStep(c) /\ UNCHANGED <<options, idCredentials>>
  \/ \E c \in Call : IdTokenClientStep(c) /\ UNCHANGED options
  \/ DerivedTick /\ UNCHANGED <<options, idCredentials>>

DerivedSpec == DerivedInit /\ [][DerivedNext]_derivedVars

-----------------------------------------------------------------------------
(* Type correctness, of what the derived clients add.                      *)
DerivedTypeOK ==
  /\ credentials \in Credentials
  /\ class \in Classes
  /\ scopes \in {"user", "default", "none"}
  /\ target_audience \in BOOLEAN
  /\ key \in BOOLEAN
  /\ access \in Access \union {None}
  /\ gtoken \in [at : Token \union {None}, exp : Nat]
  /\ asks \in [Call -> BOOLEAN]
  /\ url \in [Call -> Url \union {None}]
  /\ bearer \in [Call -> Bearer \union {None}]
  /\ idCredentials \in IdCredentials

(* A self-signed header that a call is given was signed for the call's own *)
(* URL and is good for longer than the eager threshold, whichever calls    *)
(* and replays filled the cache of JWTAccess before.                       *)
SelfSignedFitsItsRequest ==
  [][ \A c \in Call :
        /\ pc[c] \in {"idle", "replay"} /\ pc'[c] \in {"sent", "done"}
        /\ bearer'[c] # None
        => /\ bearer'[c].url = url'[c]
           /\ bearer'[c].exp > now + Threshold ]_derivedVars

(* A JWT client never stores again the token it found expiring: although   *)
(* gtoken would still give it, the client forces a refresh then.  Stated   *)
(* for grants that live longer than the threshold, and of a client that    *)
(* was not revoked: revokeCredentials makes it forget when its token       *)
(* expires, and gtoken gives the revoked token again.                      *)
ExpiringTokenIsReplaced ==
  [][ \A c \in Call :
        /\ \A life \in Lifetimes : life > Threshold
        /\ \A d \in Call : kind[d] # "revokeCredentials"
        /\ pc[c] \in Waiting \union {"authorizing"} /\ pc'[c] # pc[c]
        /\ got[c].status = "ok" /\ got[c].at # None /\ isTokenExpiring
        => credentials'.at # credentials.at ]_derivedVars

(* The client keeps its key to the shared refreshes: no refresh and no     *)
(* authorize() loses the placeholder, only revokeCredentials does.         *)
PlaceholderKept ==
  [][ credentials.rt = Placeholder /\ credentials'.rt # Placeholder
        => \E c \in Call : pc[c] = "idle" /\ kind'[c] = "revokeCredentials"
                           /\ pc'[c] # "idle" ]_derivedVars

(* An IdTokenClient that sends a cached ID token sends one that has not    *)
(* expired, also when two fetches overlap or the expiry is unreadable.     *)
IdTokenInTime ==
  [][ \A c \in Call :
        pc[c] = "idle" /\ pc'[c] = "id_sent" => bearer'[c].exp >= now ]_derivedVars

(* The refreshes that go through the map and those beside it, which        *)
(* authorize() and calls without a refresh token start, give their callers *)
(* what SharedRefresh promises: the first are shared, each of the others   *)
(* is its starter's own, and no caller is left waiting.                    *)
FlightKey(f, rt) == IF rt = Unshared THEN f ELSE rt

DerivedShared == INSTANCE SharedRefresh WITH
  Caller <- Call,
  Key <- RefreshToken \union Call,
  fetching <- {FlightKey(f, post[f].rt) : f \in {g \in Call : post[g] # None}},
  asked <- [c \in Call |-> IF awaiting[c] = None \/ post[awaiting[c]] = None
                           THEN None
                        ELSE FlightKey(awaiting[c], post[awaiting[c]].rt)],
  answer <- got
DerivedSharedSpec == DerivedShared!Spec
=============================================================================
