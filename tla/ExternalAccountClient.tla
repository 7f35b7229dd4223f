----------------------- MODULE ExternalAccountClient -----------------------
(***************************************************************************)
(* BaseExternalAccountClient (src/auth/baseexternalclient.ts) with its     *)
(* sources of subject tokens, AwsClient and IdentityPoolClient.  A refresh *)
(* is a chain of requests: the subject token, for AWS after the region,    *)
(* the role and its keys, then the exchange at the STS endpoint, then the  *)
(* impersonation of a service account.  Nothing is shared: each call that  *)
(* finds no usable token runs a chain of its own, and the last chain to    *)
(* end is the one that is cached.                                          *)
(*                                                                         *)
(* A step of a call runs from one answer to the next request, with the     *)
(* continuations in between: one I/O event settles one promise.            *)
(***************************************************************************)
EXTENDS Integers

CONSTANTS
  Call,                   \* the method calls the application makes, each once
  Setups,                 \* the configurations of the client
  Region,                 \* the AWS regions the metadata server may name
  Installed,              \* the credentials setCredentials may install
  Threshold,              \* eagerRefreshThresholdMillis, which may be 0
  ForceRefreshOnFailure,  \* forceRefreshOnFailure
  Lifetimes,              \* the lifetimes that are granted
  MaxLatency,             \* bound on the age of an answer when it arrives
  MaxNow,                 \* bound on the clock
  MaxSwaps,               \* bound on the number of calls of setCredentials
  None                    \* an absent value

(* What the options and the process environment say: where subject tokens  *)
(* come from, whether there is an impersonation URL, the AWS region and    *)
(* keys of the environment, the metadata URLs, whether the audience names  *)
(* a project number, and whether the STS endpoint reports expires_in.      *)
Setup == [source : {"aws", "file", "url"}, impersonation : BOOLEAN,
          regionVar : Region \union {None}, regionUrl : BOOLEAN,
          keyVars : BOOLEAN, roleUrl : BOOLEAN, projectNumber : BOOLEAN,
          expiresIn : BOOLEAN]

Kinds == {"request", "upload", "getAccessToken", "getProjectId"}
Requests == {"request", "upload"}      \* an upload's body is a stream

Token == [by : {"sts", "iam", "application"}, deadline : Nat]
(* exp = 0 when there is no expiry_date, and when it is NaN.               *)
Credentials == [at : Token, exp : Nat]

ASSUME ConstantsOk ==
  /\ Setups \subseteq Setup
  /\ Installed \subseteq Credentials
  /\ \A i \in Installed : i.at.by = "application"
  /\ {Threshold, MaxLatency, MaxNow, MaxSwaps} \subseteq Nat
  /\ Lifetimes \subseteq Nat
  /\ ForceRefreshOnFailure \in BOOLEAN
  /\ None \notin Credentials \union Token \union Region

VARIABLES
  setup,              \* the configuration, which does not change
  now,                \* the clock
  swaps,              \* how often setCredentials was called
  cachedAccessToken,  \* this.cachedAccessToken
  credentials,        \* this.credentials; None while it is {}
  region,             \* this.region
  signer,             \* the region of this.awsRequestSigner, or None
  projectId,          \* is this.projectId known?
  pc,                 \* the answer each call waits for, or how it ended
  kind,               \* which method each call is of
  refreshing,         \* why a call refreshes: "token", "forced" or None
  signing,            \* the regions of the AWS request being signed: the
                      \* one in its URL and the one of its signer
  retry,              \* requestAsync's second argument
  header,             \* the access token in opts.headers.Authorization
  sends,              \* how often the call reached the API
  starts              \* how many refreshes the call started

tokenVars == <<cachedAccessToken, credentials>>
awsVars == <<region, signer>>
callVars == <<pc, kind, refreshing, signing, retry, header, sends, starts>>
vars == <<setup, now, swaps, tokenVars, awsVars, projectId, callVars>>

Settled == {"done", "failed"}

Init ==
  /\ setup \in Setups
  /\ now = 1 /\ swaps = 0
  /\ cachedAccessToken = None /\ credentials = None
  /\ region = None /\ signer = None
  /\ projectId = FALSE
  /\ pc = [c \in Call |-> "idle"]
  /\ kind = [c \in Call |-> "request"]
  /\ refreshing = [c \in Call |-> None]
  /\ signing = [c \in Call |-> [url |-> None, signer |-> None]]
  /\ retry = [c \in Call |-> FALSE]
  /\ header = [c \in Call |-> None]
  /\ sends = [c \in Call |-> 0]
  /\ starts = [c \in Call |-> 0]

(* Variant: the eager threshold is forgotten.                              *)
isExpiredAtLast(cached) == cached.exp # 0 /\ now >= cached.exp

isExpired(cached) == cached.exp # 0 /\ now >= cached.exp - Threshold

NeedsRefresh(cached) == IF cached = None THEN TRUE ELSE isExpired(cached)

Goto(c, label) == pc' = [pc EXCEPT ![c] = label]

-----------------------------------------------------------------------------
(* The subject token.                                                      *)

(* awsRequestSigner.getRequestOptions: the region in the URL is the        *)
(* client's, the region that is signed for is the signer's.  The role and  *)
(* its keys are asked for every time.                                      *)
SignRequest(c, clientRegion, signerRegion) ==
  /\ signing' = [signing EXCEPT ![c] = [url |-> clientRegion, signer |-> signerRegion]]
  /\ Goto(c, IF setup.keyVars THEN "sts" ELSE IF setup.roleUrl THEN "role" ELSE "failed")

(* Variant: a signer that another call has made meanwhile is kept.         *)
SetRegionKeepingSigner(r) ==
  /\ region' = r
  /\ signer' = IF signer = None THEN r ELSE signer

(* The region has been found: the client keeps it and makes its signer.    *)
SetRegion(r) == region' = r /\ signer' = r

retrieveSubjectToken(c) ==
  \/ /\ setup.source # "aws"
     /\ Goto(c, "subject")
     /\ UNCHANGED <<signing, awsVars>>
  \/ /\ setup.source = "aws" /\ signer # None
     /\ SignRequest(c, region, signer)
     /\ UNCHANGED awsVars
  \/ /\ setup.source = "aws" /\ signer = None /\ setup.regionVar # None
     /\ SetRegion(setup.regionVar)
     /\ SignRequest(c, region', signer')
  \/ /\ setup.source = "aws" /\ signer = None /\ setup.regionVar = None
     /\ Goto(c, IF setup.regionUrl THEN "region" ELSE "failed")
     /\ UNCHANGED <<signing, awsVars>>

(* refreshAccessTokenAsync up to its first request.                        *)
refreshAccessTokenAsync(c, why) ==
  /\ refreshing' = [refreshing EXCEPT ![c] = why]
  /\ starts' = [starts EXCEPT ![c] = @ + 1]
  /\ retrieveSubjectToken(c)

NoRefresh == UNCHANGED <<refreshing, starts, signing, awsVars>>

-----------------------------------------------------------------------------
(* What a call does with its token.                                        *)

(* getAccessToken's token becomes the header of a request to the API or to *)
(* the resource manager.                                                   *)
UseToken(c, k, token) ==
  /\ header' = [header EXCEPT ![c] = token]
  /\ IF k \in Requests
     THEN Goto(c, "sent") /\ sends' = [sends EXCEPT ![c] = @ + 1]
     ELSE /\ Goto(c, IF k = "getProjectId" THEN "project" ELSE "done")
          /\ UNCHANGED sends

(* getAccessToken up to its await, with the cache as it is.                *)
getAccessToken(c, k, cached) ==
  IF NeedsRefresh(cached)
  THEN refreshAccessTokenAsync(c, "token") /\ UNCHANGED <<header, sends>>
  ELSE UseToken(c, k, cached.at) /\ NoRefresh

(* Variant: the replay is not told that it is one.                         *)
CatchAgain(c, status, streamed) ==
  IF status = "auth" /\ ~streamed /\ ForceRefreshOnFailure
  THEN refreshAccessTokenAsync(c, "forced") /\ UNCHANGED <<retry, header, sends>>
  ELSE Goto(c, "failed") /\ UNCHANGED <<retry, header, sends>> /\ NoRefresh

(* The catch clause of requestAsync, for an error with that status, be it  *)
(* the API's or that of a request of the refresh.                          *)
Catch(c, status, streamed) ==
  IF ~retry[c] /\ status = "auth" /\ ~streamed /\ ForceRefreshOnFailure
  THEN /\ retry' = [retry EXCEPT ![c] = TRUE]
       /\ refreshAccessTokenAsync(c, "forced")
       /\ UNCHANGED <<header, sends>>
  ELSE Goto(c, "failed") /\ UNCHANGED <<retry, header, sends>> /\ NoRefresh

(* A request of the refresh fails: only the refresh within requestAsync's  *)
(* try is caught.                                                          *)
RefreshFails(c, status) ==
  /\ IF refreshing[c] = "token" /\ kind[c] \in Requests
     THEN Catch(c, status, FALSE)
     ELSE Goto(c, "failed") /\ UNCHANGED <<retry, header, sends>> /\ NoRefresh
  /\ UNCHANGED tokenVars

(* Variant: the time at which the token expires is not converted.          *)
StoreUnconverted(token, exp) ==
  /\ cachedAccessToken' = [at |-> token, exp |-> None]
  /\ credentials' = [at |-> token, exp |-> None]

(* The refresh ends: the token is cached, and becomes the credentials.     *)
(* After a forced refresh requestAsync starts again, which checks its      *)
(* expiry; getAccessToken does not check it.                               *)
Store(token, exp) ==
  /\ cachedAccessToken' = [at |-> token, exp |-> exp]
  /\ credentials' = [at |-> token, exp |-> exp]

Continue(c) ==
  /\ IF refreshing[c] = "forced"
     THEN getAccessToken(c, kind[c], cachedAccessToken')
     ELSE UseToken(c, kind[c], cachedAccessToken'.at) /\ NoRefresh
  /\ UNCHANGED retry

-----------------------------------------------------------------------------
(* The application.                                                        *)

Begin(c) ==
  \E k \in Kinds :
    /\ pc[c] = "idle"
    /\ kind' = [kind EXCEPT ![c] = k]
    /\ IF k = "getProjectId" /\ (projectId \/ ~setup.projectNumber)
       THEN Goto(c, "done") /\ UNCHANGED <<header, sends>> /\ NoRefresh
       ELSE getAccessToken(c, k, cachedAccessToken)
    /\ UNCHANGED <<setup, now, swaps, tokenVars, projectId, retry>>

(* Variant: the base class does not override AuthClient's setCredentials.  *)
setCredentialsOfAuthClient(new) ==
  /\ swaps < MaxSwaps
  /\ swaps' = swaps + 1
  /\ credentials' = new
  /\ UNCHANGED <<setup, now, cachedAccessToken, awsVars, projectId, callVars>>

setCredentials(new) ==
  /\ swaps < MaxSwaps
  /\ swaps' = swaps + 1
  /\ credentials' = new
  /\ cachedAccessToken' = new
  /\ UNCHANGED <<setup, now, awsVars, projectId, callVars>>

-----------------------------------------------------------------------------
(* The answers to the requests of a refresh.                               *)

Unchanged == UNCHANGED <<setup, now, swaps, projectId, kind>>

RegionFound(c) ==
  \E r \in Region :
    /\ pc[c] = "region"
    /\ SetRegion(r)
    /\ SignRequest(c, region', signer')
    /\ UNCHANGED <<tokenVars, refreshing, starts, retry, header, sends>>
    /\ Unchanged

(* The role, its keys, a subject token: the refresh goes on to the next    *)
(* request.                                                                *)
NextRequest(label) == CASE label = "role" -> "keys" [] OTHER -> "sts"

SubjectRequestAnswered(c) ==
  /\ pc[c] \in {"role", "keys", "subject"}
  /\ Goto(c, NextRequest(pc[c]))
  /\ UNCHANGED <<tokenVars, refreshing, starts, signing, awsVars, retry, header, sends>>
  /\ Unchanged

(* An answer grants a token, up to MaxLatency ago.                         *)
Granted(by, age, life) == [by |-> by, deadline |-> now - age + life]

(* Variant: the token of the STS endpoint is stored before it is exchanged *)
(* for the service account's.                                              *)
StsAnsweredStoring(c, token, exp) ==
  /\ Store(token, exp)
  /\ IF setup.impersonation
     THEN Goto(c, "impersonation") /\ UNCHANGED <<retry, header, sends>> /\ NoRefresh
     ELSE Continue(c)

StsAnswered(c, token, exp) ==
  IF setup.impersonation
  THEN /\ Goto(c, "impersonation")
       /\ UNCHANGED <<cachedAccessToken, credentials, retry, header, sends>>
       /\ NoRefresh
  ELSE Store(token, exp) /\ Continue(c)

(* Its expiry_date counts from the time the answer arrives, and is NaN if  *)
(* the answer has no expires_in.                                           *)
StsGrants(c) ==
  \E life \in Lifetimes, age \in 0 .. MaxLatency :
    /\ pc[c] = "sts" /\ age < now
    /\ StsAnswered(c, Granted("sts", age, life),
                   IF setup.expiresIn THEN now + life ELSE 0)
    /\ Unchanged

(* generateAccessToken answers with the time at which the token expires.   *)
ImpersonationGrants(c) ==
  \E life \in Lifetimes, age \in 0 .. MaxLatency :
    /\ pc[c] = "impersonation" /\ age < now
    /\ Store(Granted("iam", age, life), now - age + life)
    /\ Continue(c)
    /\ Unchanged

(* A file, or an answer that has no subject token, fails without a status. *)
RefreshRequestFails(c) ==
  \E status \in {"auth", "error"} :
    /\ pc[c] \in {"region", "role", "keys", "subject", "sts", "impersonation"}
    /\ pc[c] = "subject" /\ setup.source = "file" => status = "error"
    /\ RefreshFails(c, status)
    /\ Unchanged

-----------------------------------------------------------------------------
(* The answers to the requests that carry the token.                       *)

ApiAnswers(c) ==
  /\ pc[c] = "sent"
  /\ \/ Goto(c, "done") /\ UNCHANGED <<retry, header, sends>> /\ NoRefresh
     \/ \E status \in {"auth", "error"} : Catch(c, status, kind[c] = "upload")
  /\ UNCHANGED tokenVars /\ Unchanged

ProjectAnswers(c) ==
  /\ pc[c] = "project"
  /\ \/ Goto(c, "done") /\ projectId' = TRUE
     \/ Goto(c, "failed") /\ UNCHANGED projectId
  /\ UNCHANGED <<setup, now, swaps, tokenVars, retry, header, sends, kind>> /\ NoRefresh

Tick ==
  /\ now < MaxNow
  /\ now' = now + 1
  /\ UNCHANGED <<setup, swaps, tokenVars, awsVars, projectId, callVars>>

Answer(c) ==
  \/ RegionFound(c)
  \/ SubjectRequestAnswered(c)
  \/ StsGrants(c)
  \/ ImpersonationGrants(c)
  \/ RefreshRequestFails(c)
  \/ ApiAnswers(c)
  \/ ProjectAnswers(c)

Next ==
  \/ \E c \in Call : Begin(c) \/ Answer(c)
  \/ \E new \in Installed : setCredentials(new)
  \/ Tick

Spec == Init /\ [][Next]_vars

-----------------------------------------------------------------------------
(* Properties.                                                             *)

(* Every variable of the client and of its calls has its shape.            *)
TypeOK ==
  /\ setup \in Setups
  /\ now \in Nat /\ swaps \in Nat
  /\ cachedAccessToken \in Credentials \union {None}
  /\ credentials \in Credentials \union {None}
  /\ region \in Region \union {None} /\ signer \in Region \union {None}
  /\ projectId \in BOOLEAN
  /\ pc \in [Call -> {"idle", "region", "role", "keys", "subject", "sts",
                      "impersonation", "sent", "project"} \union Settled]
  /\ kind \in [Call -> Kinds]
  /\ refreshing \in [Call -> {"token", "forced", None}]
  /\ signing \in [Call -> [url : Region \union {None}, signer : Region \union {None}]]
  /\ retry \in [Call -> BOOLEAN]
  /\ header \in [Call -> Token \union {None}]
  /\ sends \in [Call -> Nat] /\ starts \in [Call -> Nat]

(* AwsClient.retrieveSubjectToken (lines 121-159 of awsclient.ts): with    *)
(* several calls looking for the region at once, and getting different     *)
(* answers, no request is signed for another region than its URL's.        *)
SignedForItsRegion == \A c \in Call : signing[c].url = signing[c].signer

(* refreshAccessTokenAsync and setCredentials (lines 186-189 and 376-392): *)
(* this.credentials and the cached token, which requests use, are the      *)
(* same, whichever of concurrent refreshes and setCredentials comes last.  *)
CredentialsAreCached == credentials = cachedAccessToken

(* refreshAccessTokenAsync (lines 376-387): with an impersonation URL the  *)
(* token of the STS endpoint is never cached or sent to an API, even when  *)
(* the impersonation fails.                                                *)
OnlyImpersonatedTokens ==
  setup.impersonation =>
    /\ cachedAccessToken # None => cachedAccessToken.at.by # "sts"
    /\ \A c \in Call : header[c] # None => header[c].by # "sts"

(* requestAsync (lines 298-338): a request reaches the API at most twice   *)
(* and starts at most three refreshes, whatever fails.                     *)
BoundedEffort == \A c \in Call : sends[c] <= 2 /\ starts[c] <= 3

(* isExpired (lines 465-470): a call that uses the cached token without a  *)
(* refresh uses one that has not expired, if its expiry_date is known.     *)
CachedTokenIsLive ==
  [][ \A c \in Call :
        /\ pc[c] = "idle" /\ pc'[c] \in {"sent", "done", "project"}
        /\ header'[c] # None /\ cachedAccessToken.exp # 0
        => header'[c].deadline > now ]_vars
=============================================================================
