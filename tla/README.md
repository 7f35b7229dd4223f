# A TLA+ development of google-auth-library-nodejs

This directory models the authentication library under `src/src/`: how its
clients obtain, share, cache, replay and give up credentials when an application
makes several calls at once and when token endpoints, files and metadata servers
answer late, out of order or not at all. TLC checks the models on small
instances. TLAPS proves the most important properties for every value of the
constants.

Contents: [1 the system](#1-the-system), [2 modules](#2-the-modules-and-the-code),
[3 event loop](#3-the-event-loop), [4 runs](#4-the-runs), [5 proofs](#5-the-proofs),
[6 what disagrees](#6-where-code-and-documentation-disagree),
[7 abstractions](#7-what-is-left-out-and-why), [8 plan](#8-plan).

## 1 The system

Paths are relative to `src/src/auth/` unless they say otherwise. Everything runs
in one JavaScript thread, so there are no data races in the sense of memory.
What interleaves are the *continuations* of concurrent calls. A method that
`await`s may find every field of `this` changed when it goes on.

| component | state it keeps | operations | it interacts with |
| --- | --- | --- | --- |
| `OAuth2Client`, token life cycle (`oauth2client.ts`, `authclient.ts`) | `credentials`; `refreshTokenPromises`, a map from refresh token to the promise of the refresh in flight; `apiKey`, `forceRefreshOnFailure`, `eagerRefreshThresholdMillis` | `request`, `getRequestHeaders`, `getAccessToken`, `refreshAccessToken`, `setCredentials`, `revokeCredentials` | token endpoint, revocation endpoint, APIs; base class of `JWT`, `Compute`, `UserRefreshClient`, `IdTokenClient` |
| `OAuth2Client`, ID tokens (`oauth2client.ts`, `loginticket.ts`) | `certificateCache`, `certificateExpiry`, `certificateCacheFormat` | `verifyIdToken`, `getFederatedSignonCerts`, `getIapPublicKeys`, `verifySignedJwtWithCertsAsync` | the two endpoints of public keys |
| `OAuth2Client`, consent flow | none of its own; `generateAuthUrl` writes into the options object it is given | `generateAuthUrl`, `getToken`, `generateCodeVerifier`, `getTokenInfo` | the user's browser, token endpoint |
| `GoogleAuth` (`googleauth.ts`) | `cachedCredential`, `jsonContent`, `checkIsGCE`, `_cachedProjectId`, `_getDefaultProjectIdPromise` | `getClient`, `getProjectId`, `getApplicationDefault`, `getCredentials`, `sign`, `getIdTokenClient`, `getEnv`, and `request`, `getAccessToken`, `getRequestHeaders`, `authorizeRequest`, which delegate to the client | files, environment variables, `gcloud`, metadata server, IAM's `signBlob`; makes all the clients |
| `BaseExternalAccountClient` (`baseexternalclient.ts`, `externalclient.ts`) | `cachedAccessToken`, `credentials`, `projectId` | `request`, `getRequestHeaders`, `getAccessToken`, `getProjectId`, `setCredentials` | STS endpoint, IAM credentials endpoint, resource manager |
| subject tokens (`awsclient.ts`, `awsrequestsigner.ts`, `identitypoolclient.ts`) | `region`, `awsRequestSigner` | `retrieveSubjectToken` | AWS metadata server, files, URLs |
| STS and client authentication (`stscredentials.ts`, `oauth2common.ts`) | none | `exchangeToken`, `applyClientAuthenticationOptions`, `getErrorFromOAuthErrorResponse` | STS endpoint |
| `JWT` (`jwtclient.ts`) | `gtoken` with a cache of its own, placeholder credentials, `access` | the refresh of a service account, self-signed headers, `fetchIdToken` | `gtoken`, `JWTAccess` |
| `JWTAccess` (`jwtaccess.ts`) | an LRU cache of signed headers by URL | `getRequestHeaders` | none |
| `Compute`, `UserRefreshClient`, `IdTokenClient` | as `OAuth2Client`; `_refreshToken`; the ID token in `credentials` | another way to fetch a token | metadata server, token endpoint, an `IdTokenProvider` |
| `envDetect.ts` | one memoised promise | `getEnv`, `clear` | metadata server |
| `DefaultTransporter` (`../transporters.ts`, `../options.ts`) | none of its own; `configure` writes into the options object it is given | `request`: configures, validates, sends, rewrites errors | gaxios |
| crypto, `credentials.ts`, `messages.ts`, `iam.ts`, `index.ts` | none | pure functions, types, exports | none |

What is hard to get right, and what makes each component correct:

* **The shared refresh.** Many calls find the access token expired at once. At
  most one exchange per refresh token may run. Every call that joins it must be
  answered, by that exchange and no other. A failed exchange must not stay in the
  map. All waiters store the answer they got, one after the other, into
  `this.credentials`, which meanwhile the application may have replaced or
  revoked, so no late waiter may undo a newer refresh and none may lose or bring
  back a refresh token.
* **The replay.** A 401 or 403, whether it is the API's or the token endpoint's,
  starts one forced refresh and one replay, which goes through the whole method
  again. It must end, and the replay must not send the token that was just
  turned down.
* **Time.** `expiry_date` counts from the arrival of the answer and the server
  counts from the grant. A token that is used without a refresh must still be
  live.
* **The search for default credentials.** `getClient` ends by awaiting the
  project id, and looking for the project id may itself get a client. Calls and
  detection write the same fields. Required are one project id for all callers,
  clients from the source that comes first in the documented order, JSON that
  belongs to the client it is cached beside, and no circle of waits.
* **The chain of an external account.** Up to six requests, none of them shared
  between calls, and each may fail. No intermediate token may be cached or sent,
  and no AWS request may be signed for another region than the one it goes to.
* **The certificate cache.** Fetches are not shared, so an older answer may
  arrive after a newer one and replace it. Withdrawn keys must be refused in
  bounded time, and genuine tokens must not be refused although what is cached is
  stale.
* **Caches below a refresh.** A service account's refresh goes through `gtoken`,
  which gives again the token it holds unless it is told otherwise, and self-signed
  headers and ID tokens have caches with rules of their own. An expiring token must
  really be replaced, its expiry must stay its own, and a signed header must fit
  the request it is sent with.
* **Requests put together in pieces.** The token an AWS workload exchanges is a
  request for AWS, signed over several `await`s with keys and a time that change
  meanwhile, and extended after it was signed. AWS must accept it and the STS
  endpoint must find the client named once. `generateAuthUrl` and the transporter
  write into their callers' objects, which are used again: a code must be
  redeemable with what its URL said, and a request must name the library once.
  Errors are rebuilt twice on their way, and the status must survive, because the
  retry of an external account depends on it.
* **The memoised environment.** Everybody who asks between two `clear()`s must get
  one answer, though the metadata server may give a different one each time.

`PROJECT.json` lists each hazard with the line where it bites and the properties
that are about it. Hazards that no property covers say why.

## 2 The modules and the code

| module | what it is |
| --- | --- |
| `OAuth2Client` | the token life cycle |
| `SharedRefresh` | abstract: what `refreshToken` promises its callers |
| `MemoisedPromise` | abstract: what a promise kept in a variable means for those who ask for it |
| `EnvDetect` | the detection of the compute environment |
| `GoogleAuth` | extends `EnvDetect`: the search for credentials and project id, and what is built on it (`sign`, ID token clients, delegated requests, `getEnv`) |
| `ExternalAccountClient` | `BaseExternalAccountClient` with its AWS, file and URL sources of subject tokens |
| `IdTokenVerification` | the certificate cache and the checks of an ID token |
| `DerivedClients` | extends `OAuth2Client`: what `JWT` (with `JWTAccess`), `Compute` and `UserRefreshClient` change, and an `IdTokenClient` over one of them |
| `AwsRequestSigner` | pure: the signature of a request to AWS, and what AWS checks |
| `OAuthRequests` | pure: the transporter's `configure`, `validate` and `processError`, client authentication, OAuth errors |
| `TokenRequests` | composes the two: AWS token exchanges, the consent flow, and requests whose options are used again |
| `MC...` | the values TLC needs: credentials, environments, configurations, jobs, symmetry |
| `...Proofs` | the theorems, one module for each state machine: `OAuth2ClientProofs` (with `SharedRefresh`), `GoogleAuthProofs` (with `EnvDetect`), `ExternalAccountProofs`, `IdTokenVerificationProofs`, `DerivedClientsProofs` and `DerivedRefreshProofs`, `TokenRequestsProofs` (with the two pure modules) |

Definitions keep the names of the code where they translate one function.
Everything that `tlc` fires is an action of one step from an `await` to the next.
`map` in `PROJECT.json` names the lines of each definition. An operator whose
comment begins with "Variant" is a plausible defect of the definition after it.
It is not part of any specification, and serves to show that a property would
notice the defect.

**`OAuth2Client`.** `credentials` is a triple of access token, refresh token and
expiry (0 for none, as the code tests it for truth). An access token is
identified with what the endpoint knows of it: the refresh token it was granted
for, a serial number and the time it dies. `refreshTokenPromises` maps a refresh
token to the call that started its refresh. `post[c]` is the POST that call has in
flight, `awaiting[c]` whose refresh a call awaits, `got[c]` what it was answered.
`requestAsync`, `getAccessTokenAsync`, `refreshAccessToken` and
`revokeCredentialsAsync` are the methods up to their first `await`;
`MetadataRefreshed`, `MetadataRefused`, `ForcedRefreshed`, `ForcedRefused` and
`Replay` are their continuations; `RefreshSettles` is the promise in the map, which
deletes its entry on both paths, and the remaining actions are the endpoint, the
API and the clock. `SharedSpec` states that the client implements `SharedRefresh`
under the mapping: the keys of the POSTs in flight, the key each caller waits
for, the answers not yet taken.

**`GoogleAuth`.** The actors are the calls and, for each call, the detection of
the project id it may start. `env` holds what the constructor's options, the
environment variables, the file system, `gcloud` and the metadata server say. Only
a file's kind matters (three kinds of JSON, a key that is not JSON, missing).
`getClient`, `getApplicationDefaultAsync`, `getProjectIdAsync` and `getFileProjectId`
are actions of what each does before its first I/O; `FileRead`,
`IsAvailable`, `GcloudEnds`, `MetadataProject` and so on are what follows an answer.
`ClientReady` is what each method does with the client it asked for. `sign` signs
with the key of a service account's JSON or goes on to the project id and the
account (`SignWith`, `getCredentialsToSign`, `RequestSignature`); `signed[c]` keeps the
account it names and the client that carries the request. The methods that hand one
request to the client are one method, `"request"`.

**`EnvDetect`.** `envPromise` is the call whose detection is kept, `detection[c]` what
the detection that `c` started awaits or ended with, `joined[c]` the detection `c` was
given and how often `clear` had been called then. `GoogleAuth` adds one conjunct to its
actions (`GetEnv`, `EnvStep`, `Clear`): nothing else changes.

**`MemoisedPromise`** is implemented twice. `EnvMemoised` maps `getEnv` to it, with one
epoch between a `clear` and the next, and `ProjectMemoised` maps `getProjectId`, whose
promise is never forgotten, so that there is one epoch. In both an end is kept, a
failure too, and a caller is told the end of the epoch it asked in.
`getApplicationDefault` also gives its caller the project id; it counts as asking when it is told.

**`ExternalAccountClient`.** `pc` says which request of the chain a call waits for;
`refreshing` says whether the chain runs inside `getAccessToken` or is the forced
one; `signing` holds the two regions an AWS request is made with.
`retrieveSubjectToken`, `SetRegion` and `SignRequest` are `AwsClient`'s; `StsAnswered`,
`Store` and `Continue` are `refreshAccessTokenAsync`'s.

**`IdTokenVerification`.** A set of certificates is identified with the time the
endpoint answered, and Google's rotation of keys is a schedule (`SigningKey`,
`Published`). A token is the time it was signed and the set of checks it fails.
`Order` is the order in which `verifySignedJwtWithCertsAsync` makes its checks.

**`DerivedClients`.** The classes override `refreshTokenNoCache` and, for `JWT`,
`getRequestMetadataAsync`; everything else is `OAuth2Client`'s, and its actions are
used as they are (`BaseCall`, `BaseContinuation`, `BaseAnswer`) or with the overridden
part replaced (`derivedRequestAsync`, `DerivedReplay`). `refreshTokenNoCache` fixes
`asks[c]` in the step that starts a refresh: whether it asks an endpoint. A `JWT`'s does
not if `forceRefresh` is not set and `gtoken` holds a token that has not expired
(`HoldsRawToken`); `gtoken`'s is then given before anything else happens (`HasRawToken`,
`Idle`). `getToken` decides that when it is called: a request that is on its way is not
answered by a token that `gtoken` receives meanwhile. All three classes ignore the refresh token they are passed, so a refresh
without one succeeds where `OAuth2Client`'s fails (`LacksPlaceholder`,
`derivedRefreshAccessToken`); it is not shared, as `authorize`'s and those for ID
tokens are not. `getRequestHeaders` is `JWTAccess`'s; `bearer[c]` is the self-signed JWT
or ID token a call is given. `DerivedSharedSpec` states that the refreshes in the map and
those beside it implement `SharedRefresh`: the keys are the refresh token, for the first,
and the caller, for each of the others (`FlightKey`).

**`AwsRequestSigner`** has no state. A header is named by a key, which JavaScript
tells apart by case and AWS does not; a hash or an HMAC is the record of what goes
into it, so that two are equal only if their inputs are. `getRequestOptions` is the
request as it is sent. `Accepts` is AWS: it finds the key that is named, computes the
signature from what it received, and compares scope, date and host.

**`OAuthRequests`** has no state either: a product list is a sequence, a body a map from
parameters to values, an error the response it carries.

**`TokenRequests`.** A call does one of three jobs. `retrieveSubjectToken`,
`getAwsRoleName`, `getAwsSecurityCredentials` and `exchangeToken` are `AwsClient`'s and
`StsCredentials`', with the keys and the role of the instance changing under them
(`NewKeys`) and the digests of the signature between reading the clock and sending.
`generateCodeVerifierAsync`, `generateAuthUrl`, `getTokenAsync` are the consent flow, and
`code[c]` is what the server remembers with the code. `request` sends an options object
again and again, and the application sets headers of its own between (`SetHeaders`).
`Refused` takes a response through `processError` and the translation of an OAuth error.

The models do not share other state in the code either: `GoogleAuth` creates the
clients but keeps none of their fields, ID token verification uses no credentials, and
the STS exchange keeps nothing. They meet in actions with every outcome of the other
part: `GoogleAuth`'s `ExternalProject` stands for `getProjectId` of
`ExternalAccountClient`, its `ClientAnswers` for the request of any client, and
`ExternalAccountClient`'s `StsGrants` and `RefreshRequestFails` for the end of an exchange
that `TokenRequests` shows request by request.

## 3 The event loop

* A step runs from one `await` to the next. Nothing interrupts it.
* One I/O event settles one promise. All calls that await it become ready, and
  all ready continuations run before the next I/O event or clock tick (the
  microtask queue is drained). This is the guard `~Ready` on answers and ticks.
* The application may make a new call, or call `setCredentials`, between two
  continuations, because a continuation of its own or a `tokens` listener may do
  so. In `GoogleAuth`, what the detection does synchronously inside
  `getProjectIdAsync` is a step that nothing may precede (`Starting`).
* Answers come in any order across calls, with any outcome. A token or a set of
  certificates has an age of at most `MaxLatency` when it arrives.
* The clock is external and may move at any time when nothing is ready.

`ExternalAccountClient` needs no `Ready`: no call awaits another, so each answer
resumes exactly one call and the step includes its continuations.

**Fairness.** Safety needs none. `FairSpec` adds weak fairness of each call's
continuation (the runtime runs what is ready), of the answer to each request
(gaxios settles its promise with a response or an error, and sockets time out), of
reads of files, and of the end of the `gcloud` process. Nothing is assumed of the
application, and nothing of the clock. Disjuncts of one weakly fair action may be
chosen freely: a request may fail for ever, and no outcome is promised.

## 4 The runs

Each run sets `CHECK_DEADLOCK FALSE`: each call is made once, so the system stops
when all have settled. That they all do settle is the liveness properties' business.

| run | instance | what it shows |
| --- | --- | --- |
| `core_sharing` | 3 calls of 3 methods, 2 accounts, `setCredentials` and `revokeCredentials` at any time, tokens that are expiring when they arrive | `SingleFlight`, `NoOrphanWaiter`; `TokensNeverGoBack`; `RefreshTokenIsTheApplications` |
| `core_quiet` | 2 calls of any of the 6 methods, 2 accounts, API key or not, 3 ticks; credentials are replaced only while no call awaits a refresh | `TypeOK`; `BoundedEffort`: a request reaches the API at most twice and starts at most three refreshes (both are reached); `TokensBelongTogether`, `CachedTokenIsLive`, `ReplayUsesANewToken` |
| `core_liveness` | 2 calls, 2 accounts, under `FairSpec` | `EveryCallSettles`; `SharedSpec`, the refinement of `SharedRefresh` |
| `auth_search` | in 26 environments, any 3 calls of `getClient`, `getProjectId`, `getApplicationDefault` and `getCredentials`, or `sign` beside another `sign` or one of 4 methods, with their detections; on 6 machines, 3 calls of `getEnv`, or 2 and a request, with one `clear`; under `FairSpec` | `TypeOK`, `PrecedenceKept`, `UncontestedJsonMatches`, `SignsForItsClient`, `EveryCallSettles`; `EnvMemoised`, `ProjectMemoised`, the refinements of `MemoisedPromise` |
| `external` | 2 calls, 6 configurations, 2 regions, 3 ticks, one `setCredentials` | `TypeOK`, `SignedForItsRegion`, `CredentialsAreCached`, `OnlyImpersonatedTokens`, `BoundedEffort`, `CachedTokenIsLive` |
| `id_tokens` | 3 calls, 5 kinds of job, max-age none, 0 or 1, 4 ticks | `TypeOK`, `WithdrawnKeysExpire`, `GenuineTokensAccepted`, `ClaimsAreReadVerified` |
| `derived` | 2 calls of 7 methods; a `JWT` client with each kind of scopes, with or without target audience and key, a `Compute` and a `UserRefreshClient`, as constructed or with an access token from elsewhere; 2 URLs, 3 ticks | `DerivedTypeOK`, `BoundedEffort`, `SelfSignedFitsItsRequest`, `CachedTokenIsLive`, `ExpiringTokenIsReplaced`, `PlaceholderKept`, `IdTokenInTime`; `DerivedSharedSpec`, the refinement of `SharedRefresh` |
| `exchange` | 2 calls: exchanges with each kind of AWS keys and each client authentication, beside a replacement of the keys or the role and 2 ticks, which cross midnight; two consents of one client, or of two clients over one or two options objects, with and without PKCE; two requests with one object, each sent twice | `ExchangesCanBeGranted`, `RefusalsKeepTheirStatus`, `CodesAreRedeemable`, `IdentifiedOnce` |
| `stashed_replay`, `revoked_clear`, `auth_mismatch`, `auth_options` | the smallest instances | each is violated: see section 6 |

Why the properties that are conditional are so:

* `TokensBelongTogether` (the access token was granted for the refresh token
  beside it) and `ReplayUsesANewToken` fail if the application replaces the
  credentials while a refresh is in flight, because the refresh stores its access
  token beside the new refresh token. Nothing in the repository says what
  should happen then, so `SwapsOverlap = FALSE` in that run excludes it. What *is*
  kept even then, the refresh token itself, is `RefreshTokenIsTheApplications` in
  `core_sharing`.
* `ReplayUsesANewToken` is stated without an API key: with one, the replay may
  send the header of the first try (a hazard listed without a property).
* `CachedTokenIsLive` assumes `MaxLatency <= Threshold`: the library's default
  threshold is five minutes. It speaks only of tokens whose expiry is known.
* `UncontestedJsonMatches` holds in the *uncontested* environments, where no
  `GOOGLE_APPLICATION_CREDENTIALS` competes with options of the constructor, and
  `getApplicationDefault`, which looks at neither option, is not called beside them.
  Outside it fails, and `auth_mismatch` shows one such case.
* `PrecedenceKept` says more in the uncontested environments (every client is of the
  configured source) than outside. `getClient` returns whatever client is cached, so with
  competing sources it may return what `getApplicationDefault` or the detection has found.
  Yet it is then of the source that one of the two orders puts first, or of the key file
  (`Candidates`), never of one that has another before it in both: a well-known
  file or the metadata server beside the variable, for instance.
* `ExpiringTokenIsReplaced` is stated for grants that outlive the threshold: of a
  shorter one even a new token is expiring. It leaves out clients that were revoked.
  `revokeCredentials` clears the credentials, and with them the expiry, and leaves `gtoken`
  its token, so a later `authorize` is given the revoked token again, and a refresh that
  was in flight may store it over itself when it has begun to expire. That takes four
  calls, more than the run has; an attempt at a proof without the condition showed it.
* Of a `JWT` client, `ReplayUsesANewToken` and `TokensNeverGoBack` do not hold: a
  replay of a token that is not expiring gets `gtoken`'s again, and `authorize` is
  not shared. `PROJECT.json` lists both as hazards; the first depends on `gtoken`,
  which is not in this repository.
* `SignsForItsClient` has the same condition, and leaves out a key file that is not
  JSON: the client made of it does not know its key before it is authorized, so
  `sign` takes the way of a client without a key and names the account of the machine.
* `RefusalsKeepTheirStatus` leaves out an STS error whose body is JSON's `null`, which is
  read before it is checked and throws a `TypeError` instead.
* `CodesAreRedeemable` covers shared options objects. `generateAuthUrl` writes its defaults
  into the object, so the URL's client or redirect URI may differ from those of `getToken`,
  but only if another call with the same object wanted that other value. The PKCE verifier
  fits in every case.
* In `exchange` the client's credentials may also go into the body of the request.
  `BaseExternalAccountClient` only uses the header; `StsCredentials` takes both.
* `GenuineTokensAccepted` assumes of Google that keys are published at least a
  max-age and a latency before they sign, and stay published while their tokens
  live (`KeysOutliveTokens`).

**Bounds.** `MaxNow` bounds the clock, `MaxLatency` the age of answers, `MaxSwaps` the
calls of `setCredentials`, `MaxClears` those of `clear`, `MaxKeys` the replacements of AWS
keys, `MaxSends` how often a request is sent again; the calls bound everything else. Two calls suffice for a
starter and a joiner of a refresh, three for a starter, a late joiner and a
call that comes after the refresh has settled, or for two overlapping fetches and a
call that uses what they left. Two accounts suffice for "another refresh token".
The clock covers a grant, its expiry and one more refresh (lifetime 2, threshold 1,
3 ticks; in `derived` lifetime 3 and 3 ticks, so that `gtoken` may give again a token
that is no longer new), or a rotation of keys and the end of a max-age. In `exchange` a day lasts two ticks, so
that a signature begun at the end of a day is sent on the next, and one replacement of
the keys suffices because a call reads them once. In `core_sharing` and
`core_liveness` the clock stands still, because what they check does not depend on
it. Symmetry of the calls is used in the runs without liveness.

## 5 The proofs

All theorems are checked by `tlapm` with Z3, Zenon and LS4. They rest on the named
assumptions about constants, which TLC evaluates in the runs: the types of the
constants (`ConstantsOk`, `DerivedConstantsOk`, `MachinesOk`, `ScenariosOk`, `SetupsOk`),
that an absent value is no value (`NoneIsNew`, `NoneIsNoOutcome`), and of Google's
rotation of keys `KeysOutliveTokens`. A theorem with hypotheses of its own states them
after ASSUME. The instances of the runs satisfy them all.

All the safety properties of the passing runs are theorems, and so are the refinements.

**`OAuth2ClientProofs`.**

* *Refreshes.* `SingleFlight` and `NoOrphanWaiter` are not inductive: that two POSTs for
  one refresh token cannot start follows only from the map holding a promise exactly
  while its POST is in flight. The inductive invariant is `RefreshInv`, in four parts:
  the map and the POSTs agree (`PromisesMatchPosts`), the starter of a refresh awaits it
  (`StarterAwaits`), who awaits, awaits a POST in flight and has no answer
  (`AwaitersWait`), and who stands at an `await` awaits something, and only they are
  answered (`WaitersAwait`). `AtMostOneFlight` and `NoWaiterLost` follow.
* *Refinement.* `ImplementsSharedRefresh` shows that Init and every step map to
  `SharedRefresh` or a stutter, using the invariant for `End`: the sharers of a key are
  exactly those who await its POST.
* *Effort.* `EffortBounded` needs `EffortInv`, which says for each place of a call how
  often it may have sent and started there: before the replay flag is set once each,
  in a forced refresh after at most two starts, and so on.
* *Tokens on their way.* The remaining properties are about tokens that a POST brings
  (`Pending`) or a call has been answered (`Obtained`). `TokenSteps` reduces every action
  to one of a few steps on them. `TokensAreOfTheAccount` adds that all of them belong to
  the refresh token that is held; it assumes `~SwapsOverlap`. `NeverBack` assumes only that
  stashed tokens are older than any grant (serial 0). Its invariant `AgeInv` says that
  what a call was answered is no older than what is stored for the same account, that all
  calls that are ready hold the same answer, and that nothing of that account is pending
  meanwhile, which is where `SingleFlight` and the microtask queue come in.
* *Headers.* `ReplayIsNew` adds `FreshInv`: a pending token is in no header, and a call
  that awaits its forced refresh, or is about to replay, holds another token in its
  header than what it was or will be answered.
* *Time.* `CachedIsLive` adds `LiveInv`: an expiry that is stored or about to be is late by
  at most the threshold, provided `MaxLatency <= Threshold` and that the stashed
  credentials are not later than that themselves. It assumes `~SwapsOverlap`. Without an API key
  that is not needed, as `CachedIsLiveWithoutKey` shows, because only with one may a replayed
  request go out with the header of its first try, which may be a token that the
  application has put back and that has ended (TLC finds that with two swaps and 5 ticks).

**`GoogleAuthProofs`.**

* *Memoised promises.* `MemoisesEnvironment` and `MemoisesProjectId` show the two refinements
  of `MemoisedPromise`, step by step. The first uses `EnvInv` (below), so that a detection
  that ends is the only one of its epoch; the second uses `ProjectInv` (a detection
  only ends while nothing is known) and that a `getProjectId` waits for nothing but the
  project id, so that it fails only if the detection has. That all callers get one environment
  (`OneEnvironmentCorrect`) or one project id (`OneProjectIdCorrect`) are theorems of their own;
  the run checks the refinements, which say more.
* *Environment.* `DetectsEnvironment` shows that every behaviour of `GoogleAuth` is one of
  `EnvDetect`, so that `OneEnvironment` is proved there. Its invariant `EnvInv`: callers who
  joined between the same two clears joined the same detection.
* *Types.* `SearchInv` is `TypeOK` with `HasClient`: a call other than `getProjectId` (which
  needs none) that waits for the project id, or after it for the account, finds a cached
  client when it goes on. Without it the type of `signed` is not inductive. `TypeCorrect` and
  `HasClientCorrect` state the two halves.
* *Project id.* `ProjectInv`: there is one detection, the one whose promise is kept, it
  runs only while no id is known, and what it ended with is the id that is kept.
* *Precedence.* `SourceInv` holds in uncontested environments: every file that is read is
  the configured source, JSON and client both come from it, a call that is past its search
  holds a client of it, and only a client that does not name its account asks the
  metadata server for one. `OriginInv` holds in every environment: whatever is cached,
  returned, kept as JSON or about to be read comes from a candidate, because a search
  passes over a source only if that source is not there. `JsonMatchesCorrect` and
  `SignsCorrect` follow from the first, `PrecedenceCorrect` from both.

**`ExternalAccountProofs`.** The inductive invariant `IInv` adds to the types that
region and signer are equal whenever a call looks at them, that `credentials` is the
cached token, and that neither the cache nor a header holds a token that is
still to be impersonated. The actions are built of few pieces, so there is one
lemma per piece (signing, starting a refresh, using a token, catching an error,
storing) and each action cites those it is made of. Corollaries: `TypeCorrect`,
`RegionsAgree`, `CacheFollows`, `NoIntermediateToken`. `EffortBounded` and `CachedIsLive` add
`EffortInv` and `LateInv`, as for `OAuth2Client`.

**`IdTokenVerificationProofs`.** The inductive invariant bounds the age of every
set of certificates that may still be used: an answer under way is at most
`MaxLatency` old, and the cache expires at most `MaxMaxAge + MaxLatency` after the
endpoint answered, although an older answer may have replaced a newer one. From
it follow `NoTicketForWithdrawnKeys` and, with `KeysOutliveTokens`,
`GenuineTokensGetTickets`. `SignatureBeforeClaims` needs that a nonempty set of
failing checks has a first one, which is the library's theorem that `<` on the
naturals is well-founded.

**`DerivedClientsProofs`.** `Types` is `DerivedTypeOK` with the types it rests on (`Flow`).
`ClientMoves` says how a step moves a call, and the action properties follow from it and
one small invariant each: `IdTokensAreInTime` from `IdDated` (an expiry that is known is the
token's), `PlaceholderStays` from the step-wise `CredentialsKept`, and `SelfSignedFits` from
`Signed`: an entry of the cache was signed for the URL it is kept under, and a call that is
not over holds a self-signed header only if it is one that signs. It assumes
`SignedLifetime > Threshold`.

**`DerivedRefreshProofs`** is about the refreshes of these clients, which `OAuth2ClientProofs`
says nothing of, because they may run beside the map and may be answered by `gtoken`.

* *Refinement.* `DerivedImplementsSharedRefresh` has the inductive invariant `FlightInv`. The map
  holds exactly the POST for the client's refresh token and none of the unshared ones
  (`MapInv`), who starts a refresh awaits it, who awaits one awaits a POST in flight, and
  who stands at an `await` awaits something or has an answer (`WaitInv`). `FlightSteps`
  reduces every action to one of a few kinds of steps: a call goes on, begins to
  await, a refresh settles, or an endpoint answers. All the other proofs cite it.
* *Effort.* `DerivedEffortBounded` adds `EffortInv`, which bounds for each place of a call what
  it may have sent and started there, with `TurnSteps` for how a call moves.
* *Time.* `DerivedCachedIsLive` adds `LiveInv`: the expiry beside a token, in the
  credentials, in an answer and in `gtoken`, is late by at most the threshold. It assumes
  a client without API key: with one, a request that is replayed keeps the header of its first
  try (the hazard at `oauth2client.ts:919`), which may be the stored token although that is
  not used.
* *Replacement.* `ExpiringIsReplaced` needs most, `ReplaceInv`. A token that the endpoint has
  granted and nobody holds yet is new, and no two answers carry the same one (`FreshInv`).
  What calls that share `gtoken` are given is `gtoken`'s token, and an answer comes from the
  endpoint only if it was asked (`RawInv`). While the client is not revoked and grants
  outlive the threshold, `KeptInv` holds too: an answer that waits to be taken is not
  expiring, nor is the stored token if it is the same one (`TakenInv`); a refresh that asks no
  endpoint is under way only while `gtoken` holds a token that is not expiring (`AskedInv`);
  and `gtoken`'s token is the stored one, unless someone is about to take an answer
  (`SameInv`). Nothing expires before the waiters go on, because they do so at once.

**`TokenRequestsProofs`.** `SignedRequestsAreAccepted` is about the signer alone: whatever
method, payload, region, time and issued credentials, with any headers that do not
collide with the signer's own (`Additional`) and any that are added afterwards under other
names (`Extra`), AWS accepts the request. `ExchangesCorrect` applies it to every exchange
(`SigningIssued`: a call signs with credentials that were issued, and issued credentials
remain so) and to the two ways of client authentication. `ConfigureIdempotent` and
`OptionsUnrepeated` (no options object names the library twice, whoever wrote into it) give
`IdentifiedCorrect`. `RedeemableCorrect` goes through `UrlOptsUsed` and `CodesUsed`: what an
options object holds is what one of the calls that have used it (`JobsWith`) wanted, and
the server remembers what was in the object when the URL was made. `StagesCorrect` says
what a call holds at each stage: credentials that were issued and a time the clock has
shown while it signs, the token it signed when it posts, its own consent's code when it
redeems, an error only when it has failed. `RefusalsCorrect` follows the response through both
rewritings of an error.

**Only model-checked:** liveness (`EveryCallSettles` of `OAuth2Client` and of
`GoogleAuth`), which the prover cannot treat, because it rests on fairness and ENABLED. The
runs that are violated show that something does not hold and have nothing to prove. No
module has a RECURSIVE operator, and nothing is proved by induction over data.

## 6 Where code and documentation disagree

| run | the code | the repository says |
| --- | --- | --- |
| `stashed_replay` | whether a 401 is replayed is decided from `this.credentials` as they are when it arrives (`oauth2client.ts:948`). The refresh for another request's 401 has recorded an expiry by then, so the second request fails | "it automatically asks for a new access token and replays the unsuccessful request" (`oauth2client.ts:886`) |
| `revoked_clear` | a refresh in flight stores its tokens after `revokeCredentials` has cleared them (`oauth2client.ts:719`) | "Revokes access token and clears the credentials object" (`oauth2client.ts:857`) |
| `auth_mismatch` | a key file that is not JSON is cached as a client without its JSON (`googleauth.ts:566`), beside the `jsonContent` another read has left | "cache both raw data used to instantiate client and client itself" (`googleauth.ts:494`) |
| `auth_options` | `getProjectId` caches a client that was made without `clientOptions` (`googleauth.ts:657`), and `getClient` returns it | `clientOptions`: "Options object passed to the constructor of the client" (`googleauth.ts:87`) |

Other disagreements came up while reading. They need no model to be seen, and have no run:

* `generateAuthUrl` writes its defaults into the caller's options object
  (`oauth2client.ts:529`), so a second client that is given the same object, in which the
  application has set no `client_id`, makes a URL that names the first. The doc of `client_id`
  says "The value passed into the constructor will be used if not provided"
  (`oauth2client.ts:202`). `CodesAreRedeemable` names the case.
* The comparisons of `iat` and `exp` with the clock are commented out
  (`oauth2client.ts:1255-1283`), and `maxExpiry` is unused. Tests such as "should fail due to
  token being used to late" (`test/test.oauth2.ts:657`) expect them. `Order` of
  `IdTokenVerification` has the checks that are made.
* A bearer token is followed by a stray brace (`oauth2common.ts:118`). The tests that
  compare it (`test/test.oauth2common.ts:354`, `379`, `404`) pass, because the header they
  expect is written into the object that the code then changes. Nothing in the library
  passes a bearer token there. The model keeps the brace (`Bearer`).
* A comment says of the header with the audience that including it "as part of the
  signature is recommended" (`awsclient.ts:177`), but it is added after the request was
  signed. `Accepts` shows that AWS does not mind.
* An STS error whose body is `null` throws a `TypeError` where the error should be
  translated (`oauth2common.ts:198`).
* The canonical query string is used as it is in the URL (`awsrequestsigner.ts:134`). AWS wants
  it sorted; the one URL that is signed has its two parameters in order.

## 7 What is left out, and why

* **Data that no property tells apart**: `token_type`, scopes, quota project, user
  agents, error texts, JSON and XML formats and all cryptography. A parse or a
  signature succeeds or fails; in `AwsRequestSigner`, where the inputs of a hash
  matter, a hash is the record of its inputs.
* **Callbacks.** Methods that take a callback call the promise variant.
* **The `tokens` event**, except that its listeners may call the client (section 3).
* **`getTokenInfo`** sends one request and keeps nothing.
* **`fromJSON`, `fromStream` and `fromAPIKey`** called by the application: they replace the
  options of a client, or make one, in one step. `GoogleAuth`'s own uses of them are
  modelled, and an API key takes the way of `OAuth2Client`.
* **The certificate format** (PEM or JWK) does not change within a process.
* **Crashes.** The library persists nothing, so a restart is the initial state.
* **`JWTAccess`**: the limit of 500 entries of the cache; entries expire before its
  `maxAge` of an hour removes them.
* **`gtoken`** is a dependency. Modelled is that it gives the token it holds unless it is
  told to fetch one. The request it shares between callers that do not force one is not:
  each asks the endpoint.
* **Not worth modelling**: the two crypto back ends (calls of a library), types,
  messages, IAM headers and exports. They have no state and take no decisions.

## 8 Plan

Done: all modules that were planned, in the order `OAuth2Client`, `SharedRefresh`,
`GoogleAuth`, `ExternalAccountClient`, `IdTokenVerification`, `DerivedClients`, `EnvDetect` and
what `GoogleAuth` builds on a client, `AwsRequestSigner`, `OAuthRequests`, `TokenRequests`,
`MemoisedPromise`, and proofs of all safety properties and refinements. Left, in this order:

1. Consequences of the abstract specifications, proved there once: that the sharers of a
   refresh, and the callers of one epoch, are told the same.
2. A second refresh token in `DerivedClients`, for the hazard at `refreshclient.ts:73`, once
   it is settled which of the two should count.
3. The other hazards that are listed without a property: the models contain them, and
   they wait for the repository to say what should happen.
