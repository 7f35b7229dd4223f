------------------------- MODULE IdTokenVerification -------------------------
(***************************************************************************)
(* The verification of ID tokens by OAuth2Client (src/auth/oauth2client.ts *)
(* from verifyIdToken on): the cache of federated sign-on certificates,    *)
(* which concurrent fetches fill, and the checks that a token goes through *)
(* with the certificates its call was given.                               *)
(*                                                                         *)
(* The certificates an endpoint answers with are identified with the time  *)
(* it answered: Google's keys rotate on a schedule.  A call runs from one  *)
(* await to the next in one step.  Under Node the checks wait for no I/O,  *)
(* so that a call that has its certificates ends before the next answer or *)
(* tick; a new call may come in between.                                   *)
(***************************************************************************)
EXTENDS Integers

CONSTANTS
  Call,          \* the method calls the application makes, each once
  Period,        \* how long a key signs
  Lead,          \* how long before it signs a key is published
  Retain,        \* how long after it has signed it stays published
  TokenLife,     \* the lifetime of an ID token
  Jobs,          \* what the calls are asked to do, a subset of Job
  MaxAges,       \* the max-age an answer may carry, None for none
  MaxMaxAge,     \* the largest of them
  MaxLatency,    \* bound on the age of an answer when it arrives
  MaxNow,        \* bound on the clock
  None           \* an absent value

(* The checks of verifySignedJwtWithCertsAsync by the order they are made  *)
(* in.  "kid" depends on the certificates, the others on the token alone.  *)
Order == [segments |-> 1, envelope |-> 2, payload |-> 3, kid |-> 4,
          signature |-> 5, noIat |-> 6, noExp |-> 7, iatFormat |-> 8,
          expFormat |-> 9, issuer |-> 10, audience |-> 11]
Checks == {"segments", "envelope", "payload", "kid", "signature", "noIat",
           "noExp", "iatFormat", "expFormat", "issuer", "audience"}
Claims == {"noIat", "noExp", "iatFormat", "expFormat", "issuer", "audience"}

Verifications == {"verifyIdToken", "verifyIapToken"}

(* A method, the checks the token it verifies fails, and which of issuer   *)
(* and audience it is told to check: verifyIdToken passes Google's issuers *)
(* itself, verifySignedJwtWithCertsAsync may be called without any, and    *)
(* either may be called without an audience.                               *)
Job == [kind : Verifications \union {"getFederatedSignonCerts"},
        defects : SUBSET (Checks \ {"kid"}),
        asked : SUBSET {"issuer", "audience"}]

ASSUME ConstantsOk ==
  /\ {Period, Lead, Retain, TokenLife, MaxMaxAge, MaxLatency, MaxNow}
       \subseteq Nat
  /\ Period > 0
  /\ Jobs \subseteq Job
  /\ \A job \in Jobs : job.kind = "verifyIdToken" => "issuer" \in job.asked
  /\ \A age \in MaxAges : age = None \/ (age \in Nat /\ age <= MaxMaxAge)
  /\ None \notin Int

(* Google publishes keys early, and keeps them while tokens live.          *)
ASSUME KeysOutliveTokens == Lead >= MaxMaxAge + MaxLatency /\ Retain >= TokenLife

VARIABLES
  now,                \* the clock
  certificateCache,   \* this.certificateCache: when the endpoint answered
  certificateExpiry,  \* this.certificateExpiry, None while it is null
  pc,                 \* "idle", "fetching", "using", or how the call ended
  work,               \* the job of each call
  minted,             \* when the token it verifies was signed
  certs               \* the certificates it was answered with, or None

cacheVars == <<certificateCache, certificateExpiry>>
vars == <<now, cacheVars, pc, work, minted, certs>>

Ended == {"certs", "ticket", "unavailable"} \union Checks

Init ==
  /\ now = 0
  /\ certificateCache = None /\ certificateExpiry = None
  /\ pc = [c \in Call |-> "idle"]
  /\ work = [c \in Call |-> None]
  /\ minted = [c \in Call |-> None]
  /\ certs = [c \in Call |-> None]

(* Some call can run without any further I/O.                              *)
Ready == \E c \in Call : pc[c] = "using"

Goto(c, label) == pc' = [pc EXCEPT ![c] = label]

-----------------------------------------------------------------------------
(* Keys.                                                                   *)

SigningKey(t) == t \div Period

(* The keys in the certificates the endpoint answers with at time t.       *)
Published(t) == {SigningKey(s) : s \in (t - Retain) .. (t + Lead)}

-----------------------------------------------------------------------------
(* The checks.                                                             *)

(* What is wrong with a token signed at t; issuer and audience only count  *)
(* if they are asked for.                                                  *)
Failing(job, t, asOf) ==
  {k \in job.defects : k \in {"issuer", "audience"} => k \in job.asked}
  \union (IF SigningKey(t) \in Published(asOf) THEN {} ELSE {"kid"})

(* Variant: the claims are looked at before the signature.                 *)
FirstSignatureLast(failing) ==
  IF failing = {"signature"} THEN "signature"
  ELSE CHOOSE k \in failing \ {"signature"} :
         \A j \in failing \ {"signature"} : Order[k] <= Order[j]

First(failing) == CHOOSE k \in failing : \A j \in failing : Order[k] <= Order[j]

(* A login ticket, or the check that the token fails first.                *)
verifySignedJwtWithCerts(job, t, asOf) ==
  LET failing == Failing(job, t, asOf) IN
  IF failing = {} THEN "ticket" ELSE First(failing)

-----------------------------------------------------------------------------
(* The calls.                                                              *)

(* Variant: a cache that was filled is used from then on.                  *)
UsableOnceFilled == certificateExpiry # None

Usable == certificateExpiry # None /\ now < certificateExpiry

(* A call begins: it takes the certificates from the cache, or fetches     *)
(* them.  The keys of IAP are fetched every time.                          *)
Begin(c) ==
  \E job \in Jobs, t \in 0 .. now :
    /\ pc[c] = "idle"
    /\ work' = [work EXCEPT ![c] = job]
    /\ minted' = [minted EXCEPT ![c] = t]
    /\ IF job.kind # "verifyIapToken" /\ Usable
       THEN Goto(c, "using") /\ certs' = [certs EXCEPT ![c] = certificateCache]
       ELSE Goto(c, "fetching") /\ UNCHANGED certs
    /\ UNCHANGED <<now, cacheVars>>

(* What the call does with its certificates; it is of no interest after.   *)
UseCerts(c) ==
  /\ pc[c] = "using"
  /\ Goto(c, IF work[c].kind = "getFederatedSignonCerts" THEN "certs"
             ELSE verifySignedJwtWithCerts(work[c], minted[c], certs[c]))
  /\ work' = [work EXCEPT ![c] = None]
  /\ minted' = [minted EXCEPT ![c] = None]
  /\ certs' = [certs EXCEPT ![c] = None]
  /\ UNCHANGED <<now, cacheVars>>

-----------------------------------------------------------------------------
(* The endpoint.                                                           *)

EndpointAnswers(c) ==
  /\ ~Ready /\ pc[c] = "fetching" /\ certs[c] = None
  /\ certs' = [certs EXCEPT ![c] = now]
  /\ UNCHANGED <<now, cacheVars, pc, work, minted>>

(* Variant: the -1 for an answer without max-age is not taken for null.    *)
StoreWithoutNull(asOf, age) ==
  /\ certificateCache' = asOf
  /\ certificateExpiry' = now + (IF age = None THEN -1 ELSE age)

(* Variant: the expiry moves, the certificates stay.                       *)
StoreExpiryOnly(asOf, age) ==
  /\ certificateCache' = IF certificateCache = None THEN asOf ELSE certificateCache
  /\ certificateExpiry' = IF age = None THEN None ELSE now + age

(* An answer replaces what is cached, even by an older one; without        *)
(* max-age it is not to be used again.                                     *)
Store(asOf, age) ==
  /\ certificateCache' = asOf
  /\ certificateExpiry' = IF age = None THEN None ELSE now + age

CertsArrive(c) ==
  /\ ~Ready /\ pc[c] = "fetching" /\ certs[c] # None
  /\ IF work[c].kind = "verifyIapToken"
     THEN UNCHANGED cacheVars
     ELSE \E age \in MaxAges : Store(certs[c], age)
  /\ Goto(c, "using")
  /\ UNCHANGED <<now, work, minted, certs>>

FetchFails(c) ==
  /\ ~Ready /\ pc[c] = "fetching"
  /\ Goto(c, "unavailable")
  /\ work' = [work EXCEPT ![c] = None]
  /\ minted' = [minted EXCEPT ![c] = None]
  /\ certs' = [certs EXCEPT ![c] = None]
  /\ UNCHANGED <<now, cacheVars>>

(* An answer arrives before it is older than MaxLatency.                   *)
Tick ==
  /\ ~Ready
  /\ now < MaxNow
  /\ \A c \in Call : certs[c] # None => now < certs[c] + MaxLatency
  /\ now' = now + 1
  /\ UNCHANGED <<cacheVars, pc, work, minted, certs>>

Step(c) == UseCerts(c) \/ EndpointAnswers(c) \/ CertsArrive(c) \/ FetchFails(c)

Next == (\E c \in Call : Begin(c) \/ Step(c)) \/ Tick

Spec == Init /\ [][Next]_vars

-----------------------------------------------------------------------------
(* Properties.                                                             *)

(* The cache, its expiry and the calls keep their shape.                   *)
TypeOK ==
  /\ now \in Nat
  /\ certificateCache \in Nat \union {None}
  /\ certificateExpiry \in Nat \union {None}
  /\ pc \in [Call -> {"idle", "fetching", "using"} \union Ended]
  /\ work \in [Call -> Jobs \union {None}]
  /\ minted \in [Call -> Nat \union {None}]
  /\ certs \in [Call -> Nat \union {None}]

(* The step in which a verification ends with one of these verdicts.       *)
Verified(c, verdicts) == pc[c] = "using" /\ pc'[c] \in verdicts

(* getFederatedSignonCertsAsync (lines 1058-1120): a token signed with a   *)
(* key that Google has withdrawn is not accepted once the key has been out *)
(* of the certificates for the time an answer may be cached and under way, *)
(* although a late answer may replace a newer one and start a new max-age. *)
WithdrawnKeysExpire ==
  [][ \A c \in Call : Verified(c, {"ticket"}) =>
        \E t \in (now - MaxMaxAge - MaxLatency) .. now :
          SigningKey(minted[c]) \in Published(t) ]_vars

(* verifyIdTokenAsync (lines 991-1007): no cached or overtaken answer ever *)
(* turns down a token that Google has just signed, if keys are published   *)
(* early enough: a genuine token within its lifetime gets a ticket.        *)
GenuineTokensAccepted ==
  [][ \A c \in Call :
        /\ Verified(c, Checks)
        /\ now <= minted[c] + TokenLife
        => work[c].defects # {} ]_vars

(* verifySignedJwtWithCertsAsync (lines 1229-1311): no claim of the token  *)
(* is judged, not even to refuse it, unless its signature is right.        *)
ClaimsAreReadVerified ==
  [][ \A c \in Call : Verified(c, Claims) =>
        work[c].defects \intersect {"segments", "envelope", "payload", "signature"} = {} ]_vars
=============================================================================
