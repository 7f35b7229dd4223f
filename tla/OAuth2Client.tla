---------------------------- MODULE OAuth2Client ----------------------------
(***************************************************************************)
(* The token life cycle of OAuth2Client (src/auth/oauth2client.ts): the    *)
(* credentials object, the map of refreshes in flight that concurrent      *)
(* calls share, the header each call is given, the single replay after a   *)
(* 401 or 403, and revocation.                                             *)
(*                                                                         *)
(* The event loop.  A step of a call runs from one await to the next with  *)
(* nothing in between.  A promise that settles makes the calls that await  *)
(* it ready; all of them resume before the next I/O event or clock tick    *)
(* (the microtask queue is drained first).  A new call, or the             *)
(* application's setCredentials, may still come between two of them: a     *)
(* 'tokens' listener or another continuation may make it.                  *)
(*                                                                         *)
(* The token endpoint and the API are external.  They answer in any order  *)
(* and with any status; an access token is identified with what the        *)
(* endpoint knows of it: the refresh token it was granted for, a serial    *)
(* number that orders the grants, and the time it expires.                 *)
(***************************************************************************)
EXTENDS Integers, FiniteSets

CONSTANTS
  Call,                   \* the method calls the application makes, each once
  Methods,                \* the methods it calls, a subset of Kinds
  RefreshToken,           \* one refresh token for each account
  Stashed,                \* the credentials the application may install
  Threshold,              \* eagerRefreshThresholdMillis
  ForceRefreshOnFailure,  \* forceRefreshOnFailure
  ApiKeys,                \* whether apiKey may be set: a subset of BOOLEAN
  Lifetimes,              \* the lifetimes the token endpoint grants
  ReportsExpiry,          \* does a grant carry expires_in?
  MaxLatency,             \* bound on the age of an answer when it arrives
  MaxNow,                 \* bound on the clock
  MaxSwaps,               \* bound on the number of calls of setCredentials
  SwapsOverlap,           \* does the application replace the credentials
                          \* while a call awaits a refresh?
  None                    \* an absent value

VARIABLES
  apiKey,                 \* is this.apiKey set?
  now,                    \* the clock: Date.now() and the endpoint's alike
  issued,                 \* how many access tokens were granted
  credentials,            \* this.credentials
  swaps,                  \* how often setCredentials was called
  refreshTokenPromises,   \* for each refresh token, the call that started
                          \* the refresh the map holds, or None
  post,                   \* post[c]: the POST to the token endpoint that c
                          \* started and that has not settled, or None
  pc,                     \* where each call stands
  kind,                   \* which method each call is of
  awaiting,               \* the call that started the refresh c awaits
  got,                    \* what that refresh settled with, once it has
  retry,                  \* requestAsync's second argument
  header,                 \* the access token in opts.headers.Authorization
  sends,                  \* how often the call reached the API
  starts                  \* how many refreshes the call started

refreshVars == <<refreshTokenPromises, post, awaiting, starts>>
callVars == <<pc, kind, got, retry, header, sends>>
vars == <<apiKey, now, issued, credentials, swaps, refreshVars, callVars>>

Requests == {"request", "upload"}      \* an upload's body is a stream
Kinds == Requests \union {"getRequestHeaders", "getAccessToken",
                          "refreshAccessToken", "revokeCredentials"}

Waiting == {"metadata", "forced"}      \* awaiting this.refreshToken(...)
Settled == {"done", "unauthorized", "failed"}

Token == [rt : RefreshToken, serial : Nat, deadline : Nat]

(* exp = 0 when there is no expiry_date: the code tests it for truth.      *)
Credentials == [at : Token \union {None}, rt : RefreshToken \union {None},
                exp : Nat]
NoCredentials == [at |-> None, rt |-> None, exp |-> 0]

(* An answer of the token endpoint on its way: expires_in is 0 if absent.  *)
Reply == [status : {"ok", "auth", "error"}, token : Token \union {None},
          expires_in : Nat, since : Nat]
Post == [rt : RefreshToken, reply : Reply \union {None}]

(* What awaiting refreshToken gives: the tokens, or the error's status.    *)
Result == [status : {"ok", "auth", "error"}, at : Token \union {None},
           exp : Nat]

ASSUME ConstantsOk ==
  /\ Methods \subseteq Kinds
  /\ Stashed \subseteq Credentials
  /\ {Threshold, MaxLatency, MaxNow, MaxSwaps} \subseteq Nat
  /\ Lifetimes \subseteq Nat
  /\ {ForceRefreshOnFailure, ReportsExpiry, SwapsOverlap} \subseteq BOOLEAN
  /\ ApiKeys \subseteq BOOLEAN
  /\ None \notin Token \union RefreshToken \union Call
                 \union Reply \union Post \union Result

-----------------------------------------------------------------------------

Init ==
  /\ apiKey \in ApiKeys
  /\ now = 1
  /\ issued = 0
  /\ credentials \in Stashed
  /\ swaps = 0
  /\ refreshTokenPromises = [r \in RefreshToken |-> None]
  /\ post = [c \in Call |-> None]
  /\ pc = [c \in Call |-> "idle"]
  /\ kind = [c \in Call |-> "request"]
  /\ awaiting = [c \in Call |-> None]
  /\ got = [c \in Call |-> None]
  /\ retry = [c \in Call |-> FALSE]
  /\ header = [c \in Call |-> None]
  /\ sends = [c \in Call |-> 0]
  /\ starts = [c \in Call |-> 0]

(* Some call can run without any further I/O.                              *)
Ready == \E c \in Call : got[c] # None \/ pc[c] = "replay"

(* Variant: the eager threshold is forgotten.                              *)
isTokenExpired == credentials.exp # 0 /\ credentials.exp <= now

isTokenExpiring ==
  credentials.exp # 0 /\ credentials.exp <= now + Threshold

Usable == credentials.at # None /\ ~isTokenExpiring

(* Variants: the response is stored as it came, without a refresh token,   *)
(* or not at all.                                                          *)
RefreshedAsReceived(r) == r
RefreshedWithoutRefreshToken(r) == [at |-> r.at, rt |-> None, exp |-> r.exp]
RefreshedNotStored(r) == credentials

(* The credentials after a refresh: the refresh token is this.credentials' *)
(* at the time the waiter resumes, whatever it was when the refresh began. *)
Refreshed(r) == [at |-> r.at, rt |-> credentials.rt, exp |-> r.exp]

Goto(c, label) == pc' = [pc EXCEPT ![c] = label]

-----------------------------------------------------------------------------
(* Pieces that the methods share.                                          *)

(* Variant: concurrent calls do not share a refresh.                       *)
refreshTokenUnshared(c, rt) ==
  /\ awaiting' = [awaiting EXCEPT ![c] = c]
  /\ refreshTokenPromises' = [refreshTokenPromises EXCEPT ![rt] = c]
  /\ post' = [post EXCEPT ![c] = [rt |-> rt, reply |-> None]]
  /\ starts' = [starts EXCEPT ![c] = @ + 1]

(* refreshToken: join the refresh in flight for rt, or start one and put   *)
(* it in the map.                                                          *)
refreshToken(c, rt) ==
  IF refreshTokenPromises[rt] # None
  THEN /\ awaiting' = [awaiting EXCEPT ![c] = refreshTokenPromises[rt]]
       /\ UNCHANGED <<refreshTokenPromises, post, starts>>
  ELSE /\ awaiting' = [awaiting EXCEPT ![c] = c]
       /\ refreshTokenPromises' = [refreshTokenPromises EXCEPT ![rt] = c]
       /\ post' = [post EXCEPT ![c] = [rt |-> rt, reply |-> None]]
       /\ starts' = [starts EXCEPT ![c] = @ + 1]

(* The header is ready: a request puts it into opts.headers and sends, the *)
(* other callers of getRequestMetadataAsync get it returned.               *)
Deliver(c, k, token) ==
  /\ header' = [header EXCEPT ![c] = token]
  /\ IF k \in Requests
     THEN Goto(c, "sent") /\ sends' = [sends EXCEPT ![c] = @ + 1]
     ELSE Goto(c, "done") /\ UNCHANGED sends

Fail(c) == Goto(c, "failed") /\ UNCHANGED <<header, sends>>

(* The part of getRequestMetadataAsync before its await.  With an API key  *)
(* it returns no Authorization, and the one left in opts.headers by an     *)
(* earlier try stays.                                                      *)
getRequestMetadataAsync(c, k) ==
  \/ /\ Usable
     /\ Deliver(c, k, credentials.at)
     /\ UNCHANGED refreshVars
  \/ /\ ~Usable /\ apiKey
     /\ Deliver(c, k, header[c])
     /\ UNCHANGED refreshVars
  \/ /\ ~Usable /\ ~apiKey /\ credentials.rt = None
     /\ Fail(c)
     /\ UNCHANGED refreshVars
  \/ /\ ~Usable /\ ~apiKey /\ credentials.rt # None
     /\ Goto(c, "metadata")
     /\ refreshToken(c, credentials.rt)
     /\ UNCHANGED <<header, sends>>

(* refreshAccessTokenAsync before its await.                               *)
refreshAccessTokenAsync(c) ==
  /\ IF credentials.rt = None
     THEN Goto(c, "failed") /\ UNCHANGED refreshVars
     ELSE Goto(c, "forced") /\ refreshToken(c, credentials.rt)
  /\ UNCHANGED <<header, sends>>

mayRequireRefresh ==
  /\ credentials.at # None
  /\ credentials.rt # None
  /\ credentials.exp = 0 \/ ForceRefreshOnFailure

(* Variant: the replay is not told that it is one.                         *)
CatchAgain(c, status, streamed) ==
  IF status = "auth" /\ ~streamed /\ mayRequireRefresh
  THEN refreshAccessTokenAsync(c) /\ UNCHANGED retry
  ELSE /\ Goto(c, IF status = "auth" THEN "unauthorized" ELSE "failed")
       /\ UNCHANGED <<retry, header, sends, refreshVars>>

(* The catch clause of requestAsync, for an error with that status.  The   *)
(* error is the API's, or the token endpoint's: a refresh whose POST is    *)
(* answered 401 or 403 takes the same way.                                 *)
Catch(c, status, streamed) ==
  IF ~retry[c] /\ status = "auth" /\ ~streamed /\ mayRequireRefresh
  THEN /\ retry' = [retry EXCEPT ![c] = TRUE]
       /\ refreshAccessTokenAsync(c)
  ELSE /\ Goto(c, IF status = "auth" THEN "unauthorized" ELSE "failed")
       /\ UNCHANGED <<retry, header, sends, refreshVars>>

-----------------------------------------------------------------------------
(* The application.                                                        *)

(* When the application replaces or revokes the credentials.               *)
MaySwap == SwapsOverlap \/ \A c \in Call : pc[c] \notin Waiting \union {"replay"}

(* Variant: fields that the new credentials lack are kept.                 *)
setCredentialsMerging(new) ==
  /\ MaySwap /\ swaps < MaxSwaps
  /\ swaps' = swaps + 1
  /\ credentials' = IF new.at # None THEN new
                    ELSE [new EXCEPT !.at = credentials.at, !.exp = credentials.exp]
  /\ UNCHANGED <<apiKey, now, issued, refreshVars, callVars>>

setCredentials(new) ==
  /\ MaySwap /\ swaps < MaxSwaps
  /\ swaps' = swaps + 1
  /\ credentials' = new
  /\ UNCHANGED <<apiKey, now, issued, refreshVars, callVars>>

Begin(c, k) ==
  /\ pc[c] = "idle"
  /\ k \in Methods
  /\ kind' = [kind EXCEPT ![c] = k]
  /\ UNCHANGED <<apiKey, now, issued, swaps, got, retry>>

(* request and getRequestHeaders, up to the first await.                   *)
requestAsync(c) ==
  \E k \in Requests \union {"getRequestHeaders"} :
    /\ Begin(c, k)
    /\ getRequestMetadataAsync(c, k)
    /\ UNCHANGED credentials

getAccessTokenAsync(c) ==
  /\ Begin(c, "getAccessToken")
  /\ IF Usable
     THEN Deliver(c, "getAccessToken", credentials.at) /\ UNCHANGED refreshVars
     ELSE refreshAccessTokenAsync(c)
  /\ UNCHANGED credentials

refreshAccessToken(c) ==
  /\ Begin(c, "refreshAccessToken")
  /\ refreshAccessTokenAsync(c)
  /\ UNCHANGED credentials

(* The credentials are cleared before the token is revoked at the server.  *)
revokeCredentialsAsync(c) ==
  /\ MaySwap
  /\ Begin(c, "revokeCredentials")
  /\ credentials' = NoCredentials
  /\ Goto(c, IF credentials.at # None THEN "revoking" ELSE "failed")
  /\ UNCHANGED <<header, sends, refreshVars>>

-----------------------------------------------------------------------------
(* A call whose refresh has settled resumes.                               *)

Resume(c, label, status) ==
  /\ pc[c] = label
  /\ got[c] # None
  /\ got[c].status \in status
  /\ got' = [got EXCEPT ![c] = None]
  /\ UNCHANGED <<apiKey, now, issued, swaps, kind>>

MetadataRefreshed(c) ==
  /\ Resume(c, "metadata", {"ok"})
  /\ credentials' = Refreshed(got[c])
  /\ Deliver(c, kind[c], got[c].at)
  /\ UNCHANGED <<retry, refreshVars>>

MetadataRefused(c) ==
  /\ Resume(c, "metadata", {"auth", "error"})
  /\ IF kind[c] \in Requests
     THEN Catch(c, got[c].status, FALSE)
     ELSE Fail(c) /\ UNCHANGED <<retry, refreshVars>>
  /\ UNCHANGED credentials

(* refreshAccessTokenAsync stores the tokens; requestAsync calls itself    *)
(* one microtask later.  getAccessTokenAsync throws if there is no token.  *)
ForcedRefreshed(c) ==
  /\ Resume(c, "forced", {"ok"})
  /\ credentials' = Refreshed(got[c])
  /\ IF kind[c] \in Requests
     THEN Goto(c, "replay") /\ UNCHANGED header
     ELSE /\ Goto(c, IF kind[c] = "getAccessToken" /\ got[c].at = None
                     THEN "failed" ELSE "done")
          /\ header' = [header EXCEPT ![c] = got[c].at]
  /\ UNCHANGED <<retry, sends, refreshVars>>

ForcedRefused(c) ==
  /\ Resume(c, "forced", {"auth", "error"})
  /\ Fail(c)
  /\ UNCHANGED <<credentials, retry, refreshVars>>

Replay(c) ==
  /\ pc[c] = "replay"
  /\ getRequestMetadataAsync(c, kind[c])
  /\ UNCHANGED <<apiKey, now, issued, credentials, swaps, kind, got, retry>>

-----------------------------------------------------------------------------
(* Answers, and time.  They come only when no call is ready.               *)

(* What the refresh settles with: expiry_date counts from the time the     *)
(* answer arrives.                                                         *)
Outcome(reply) ==
  [status |-> reply.status, at |-> reply.token,
   exp |-> IF reply.expires_in > 0 THEN now + reply.expires_in ELSE 0]

(* Variant: the entry is deleted only when the refresh succeeds.           *)
PromisesAfterSuccess(c) ==
  [refreshTokenPromises EXCEPT
     ![post[c].rt] = IF post[c].reply.status = "ok" THEN None ELSE @]

(* The map entry goes, on either path.                                     *)
PromisesAfter(c) == [refreshTokenPromises EXCEPT ![post[c].rt] = None]

(* The promise of the refresh c started settles, and every call that       *)
(* awaits it becomes ready.                                                *)
RefreshSettles(c) ==
  /\ ~Ready
  /\ post[c] # None /\ post[c].reply # None
  /\ got' = [w \in Call |-> IF awaiting[w] = c THEN Outcome(post[c].reply)
                                              ELSE got[w]]
  /\ awaiting' = [w \in Call |-> IF awaiting[w] = c THEN None ELSE awaiting[w]]
  /\ refreshTokenPromises' = PromisesAfter(c)
  /\ post' = [post EXCEPT ![c] = None]
  /\ UNCHANGED <<apiKey, now, issued, credentials, swaps, starts,
                 pc, kind, retry, header, sends>>

(* The token endpoint answers: with a grant, without an access token, or   *)
(* with an error, which is a 401 or 403 ("auth") or any other.             *)
TokenEndpointAnswers(c, reply) ==
  /\ ~Ready
  /\ post[c] # None /\ post[c].reply = None
  /\ post' = [post EXCEPT ![c].reply = reply]
  /\ UNCHANGED <<apiKey, now, credentials, swaps, refreshTokenPromises, awaiting,
                 starts, callVars>>

TokenEndpointGrants(c) ==
  \E life \in Lifetimes :
    /\ post[c] # None
    /\ issued' = issued + 1
    /\ TokenEndpointAnswers(c,
         [status |-> "ok",
          token |-> [rt |-> post[c].rt, serial |-> issued + 1,
                     deadline |-> now + life],
          expires_in |-> IF ReportsExpiry THEN life ELSE 0,
          since |-> now])

TokenEndpointOmitsToken(c) ==
  /\ TokenEndpointAnswers(c, [status |-> "ok", token |-> None,
                              expires_in |-> 0, since |-> now])
  /\ UNCHANGED issued

TokenEndpointRefuses(c) ==
  \E status \in {"auth", "error"} :
    /\ TokenEndpointAnswers(c, [status |-> status, token |-> None,
                                expires_in |-> 0, since |-> now])
    /\ UNCHANGED issued

ApiAnswers(c) ==
  /\ ~Ready
  /\ pc[c] = "sent"
  /\ \/ Goto(c, "done") /\ UNCHANGED <<retry, header, sends, refreshVars>>
     \/ \E status \in {"auth", "error"} :
          Catch(c, status, kind[c] = "upload")
  /\ UNCHANGED <<apiKey, now, issued, credentials, swaps, kind, got>>

RevokeAnswers(c) ==
  /\ ~Ready
  /\ pc[c] = "revoking"
  /\ \E end \in {"done", "failed"} : Goto(c, end)
  /\ UNCHANGED <<apiKey, now, issued, credentials, swaps, refreshVars,
                 kind, got, retry, header, sends>>

(* An answer arrives before it is older than MaxLatency.                   *)
Tick ==
  /\ ~Ready
  /\ now < MaxNow
  /\ \A c \in Call : post[c] # None /\ post[c].reply # None
                       => now < post[c].reply.since + MaxLatency
  /\ now' = now + 1
  /\ UNCHANGED <<apiKey, issued, credentials, swaps, refreshVars, callVars>>

-----------------------------------------------------------------------------

Application ==
  \/ \E new \in Stashed : setCredentials(new)
  \/ \E c \in Call : \/ requestAsync(c)
                     \/ getAccessTokenAsync(c)
                     \/ refreshAccessToken(c)
                     \/ revokeCredentialsAsync(c)

Continuation(c) ==
  \/ MetadataRefreshed(c)
  \/ MetadataRefused(c)
  \/ ForcedRefreshed(c)
  \/ ForcedRefused(c)
  \/ Replay(c)

Answer(c) ==
  \/ RefreshSettles(c)
  \/ TokenEndpointGrants(c)
  \/ TokenEndpointOmitsToken(c)
  \/ TokenEndpointRefuses(c)
  \/ ApiAnswers(c)
  \/ RevokeAnswers(c)

Next ==
  \/ Application
  \/ \E c \in Call : Continuation(c) \/ Answer(c)
  \/ Tick

Spec == Init /\ [][Next]_vars

(* The runtime runs what is ready, and a POST or a request is answered     *)
(* (gaxios settles its promise with a response or an error).  Nothing is   *)
(* assumed of the application, and the clock may stop.                     *)
Fairness == \A c \in Call : /\ WF_vars(Continuation(c))
                            /\ WF_vars(Answer(c))
FairSpec == Spec /\ Fairness

-----------------------------------------------------------------------------
(* Type correctness: each variable keeps its shape, in particular the      *)
(* credentials stay a triple of access token, refresh token and expiry.    *)
TypeOK ==
  /\ apiKey \in BOOLEAN /\ now \in Nat /\ issued \in Nat /\ swaps \in Nat
  /\ credentials \in Credentials
  /\ refreshTokenPromises \in [RefreshToken -> Call \union {None}]
  /\ post \in [Call -> Post \union {None}]
  /\ pc \in [Call -> {"idle", "sent", "replay", "revoking"}
                      \union Waiting \union Settled]
  /\ kind \in [Call -> Kinds]
  /\ awaiting \in [Call -> Call \union {None}]
  /\ got \in [Call -> Result \union {None}]
  /\ retry \in [Call -> BOOLEAN]
  /\ header \in [Call -> Token \union {None}]
  /\ sends \in [Call -> Nat] /\ starts \in [Call -> Nat]

(* At most one POST is in flight for a refresh token, however many calls   *)
(* find the access token expired at the same time (the comment in          *)
(* refreshToken: "return the same promise").                               *)
SingleFlight ==
  \A c, d \in Call :
    post[c] # None /\ post[d] # None /\ post[c].rt = post[d].rt => c = d

(* The map holds a promise exactly as long as its POST is in flight: no    *)
(* settled promise is left in it to be handed to a later caller, on the    *)
(* error path either.                                                      *)
PromisesMatchPosts ==
  \A r \in RefreshToken, c \in Call :
    refreshTokenPromises[r] = c <=> post[c] # None /\ post[c].rt = r

(* No call waits for nothing: one that awaits a refresh that has not       *)
(* settled awaits one whose POST is in flight.                             *)
NoOrphanWaiter ==
  \A c \in Call :
    pc[c] \in Waiting /\ got[c] = None
      => awaiting[c] # None /\ post[awaiting[c]] # None

(* The invariant behind the three: the call that started a refresh awaits  *)
(* it itself, a call awaits only POSTs in flight and holds no answer while *)
(* it does, and only a call that awaits a refresh is given an answer.      *)
StarterAwaits == \A c \in Call : post[c] # None => awaiting[c] = c
AwaitersWait ==
  \A c \in Call : awaiting[c] # None
    => pc[c] \in Waiting /\ got[c] = None /\ post[awaiting[c]] # None
WaitersAwait ==
  \A c \in Call : /\ pc[c] \in Waiting /\ got[c] = None => awaiting[c] # None
                  /\ got[c] # None => pc[c] \in Waiting
RefreshInv ==
  /\ PromisesMatchPosts
  /\ StarterAwaits
  /\ AwaitersWait
  /\ WaitersAwait

(* Refreshes never take the client back to an older grant of the same      *)
(* account: with several calls refreshing, joining and resuming in any     *)
(* order, no late waiter stores tokens over newer ones.                    *)
TokensNeverGoBack ==
  [][ LET old == credentials.at  new == credentials'.at IN
      swaps' = swaps /\ old # None /\ new # None /\ old.rt = new.rt
        => new.serial >= old.serial ]_vars

(* Only the application changes the refresh token: no refresh drops it or  *)
(* brings back the one it was made with, even when the application         *)
(* installed other credentials or revoked them in the meantime.            *)
RefreshTokenIsTheApplications ==
  [][ credentials'.rt = credentials.rt \/ swaps' # swaps
      \/ \E c \in Call : pc[c] = "idle" /\ revokeCredentialsAsync(c) ]_vars

(* A request is bounded: it reaches the API at most twice and starts at    *)
(* most three refreshes, whatever the API and the token endpoint answer.   *)
BoundedEffort == \A c \in Call : sends[c] <= 2 /\ starts[c] <= 3

(* A call that uses the cached access token without a refresh uses one     *)
(* that the endpoint still accepts, if its expiry is recorded: the eager   *)
(* threshold makes up for the latency by which expiry_date is late.        *)
CachedTokenIsLive ==
  [][ \A c \in Call :
        /\ pc[c] \in {"idle", "replay"} /\ pc'[c] \in {"sent", "done"}
        /\ header'[c] # None /\ header'[c] = credentials.at
        /\ credentials.exp # 0
        => header'[c].deadline > now ]_vars

(* Without an API key, a request that was sent and is replayed after a 401 *)
(* or 403 carries another access token than the one that was turned down.  *)
ReplayUsesANewToken ==
  [][ \A c \in Call :
        /\ pc[c] = "replay" /\ pc'[c] = "sent" /\ sends[c] = 1 /\ ~apiKey
        => header'[c] # header[c] ]_vars

(* The access token the client holds was granted for the refresh token it  *)
(* holds beside it.                                                        *)
TokensBelongTogether ==
  credentials.at # None => credentials.at.rt = credentials.rt

(* Once cleared, the credentials stay empty until the application calls    *)
(* setCredentials ("Revokes access token and clears the credentials        *)
(* object").                                                               *)
ClearedStaysCleared ==
  [][ credentials = NoCredentials /\ swaps' = swaps
        => credentials' = NoCredentials ]_vars

(* "If credentials have a refresh_token, in cases of HTTP 401 and 403      *)
(* responses, it automatically asks for a new access token and replays     *)
(* the unsuccessful request": stated of the case requestAsync's comment    *)
(* singles out, a request sent with an access token that was stashed       *)
(* without its expiry_date.  It does not end with the 401 or 403 of its    *)
(* first try while the client holds a refresh token.                       *)
StashedTokenIsReplayed ==
  [][ \A c \in Call :
        /\ pc[c] = "sent" /\ pc'[c] = "unauthorized"
        /\ kind[c] = "request" /\ ~retry[c]
        /\ \E s \in Stashed : s.at = header[c] /\ s.exp = 0
        => credentials.rt = None ]_vars

(* Every call settles, whatever the others do and whoever started the      *)
(* refresh it waits for.                                                   *)
EveryCallSettles ==
  \A c \in Call : pc[c] # "idle" ~> pc[c] \in Settled

(* The map of promises gives its callers what SharedRefresh promises.      *)
Shared == INSTANCE SharedRefresh WITH
  Caller <- Call,
  Key <- RefreshToken,
  fetching <- {post[f].rt : f \in {g \in Call : post[g] # None}},
  asked <- [c \in Call |-> IF awaiting[c] = None \/ post[awaiting[c]] = None
                           THEN None ELSE post[awaiting[c]].rt],
  answer <- got
SharedSpec == Shared!Spec
=============================================================================
