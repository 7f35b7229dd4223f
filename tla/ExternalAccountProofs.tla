----------------------- MODULE ExternalAccountProofs -----------------------
(***************************************************************************)
(* Proofs about ExternalAccountClient.  The inductive invariant says that  *)
(* the region and the signer are set together, that the cached token and   *)
(* the credentials are the same, and that neither the cache nor a header   *)
(* holds a token that is still to be impersonated.                         *)
(*                                                                         *)
(* An action is one of a few pieces (a refresh starts, a token is used, an *)
(* error is caught) beside assignments; one lemma for each piece says that *)
(* it keeps the part of the invariant that is about the calls.             *)
(***************************************************************************)
EXTENDS ExternalAccountClient, TLAPS

Labels == {"idle", "region", "role", "keys", "subject", "sts",
           "impersonation", "sent", "project"} \union Settled

(* What a refresh that starts, or goes on, touches.                        *)
RefreshOK ==
  /\ pc \in [Call -> Labels]
  /\ refreshing \in [Call -> {"token", "forced", None}]
  /\ starts \in [Call -> Nat]
  /\ signing \in [Call -> [url : Region \union {None}, signer : Region \union {None}]]
  /\ region \in Region \union {None}
  /\ signer = region
  /\ SignedForItsRegion

(* Which tokens may be used: the final ones.                               *)
Final(token) == setup.impersonation => token.by # "sts"

(* What a call that uses its token touches.                                *)
HeadersOK ==
  /\ header \in [Call -> Token \union {None}]
  /\ sends \in [Call -> Nat]
  /\ \A c \in Call : header[c] # None => Final(header[c])

CacheOK ==
  /\ cachedAccessToken \in Credentials \union {None}
  /\ credentials = cachedAccessToken
  /\ cachedAccessToken # None => Final(cachedAccessToken.at)

RestOK ==
  /\ setup \in Setups
  /\ now \in Nat /\ swaps \in Nat
  /\ projectId \in BOOLEAN
  /\ kind \in [Call -> Kinds]

IInv == RestOK /\ CacheOK /\ HeadersOK /\ RefreshOK /\ retry \in [Call -> BOOLEAN]

-----------------------------------------------------------------------------

(* The AWS request is signed with the region in its URL, if they agree     *)
(* when signing begins.                                                    *)
LEMMA SignRequestKeeps ==
  ASSUME RefreshOK, NEW c \in Call, NEW r \in Region \union {None},
         SignRequest(c, r, r)
  PROVE  /\ pc' \in [Call -> Labels]
         /\ signing' \in [Call -> [url : Region \union {None},
                                   signer : Region \union {None}]]
         /\ SignedForItsRegion'
  BY DEF SignRequest, RefreshOK, SignedForItsRegion, Goto, Labels, Settled

LEMMA RetrieveKeeps ==
  ASSUME ConstantsOk, setup \in Setups, RefreshOK, NEW c \in Call,
         retrieveSubjectToken(c)
  PROVE  /\ pc' \in [Call -> Labels]
         /\ signing' \in [Call -> [url : Region \union {None},
                                   signer : Region \union {None}]]
         /\ region' \in Region \union {None} /\ signer' = region'
         /\ SignedForItsRegion'
<1>0. setup \in Setup
  BY DEF ConstantsOk
<1>1. CASE setup.source # "aws"
  BY <1>1 DEF retrieveSubjectToken, RefreshOK, Goto, Labels, SignedForItsRegion, awsVars
<1>2. CASE setup.source = "aws" /\ signer # None
  <2>1. SignRequest(c, region, region) /\ UNCHANGED awsVars
    BY <1>2 DEF retrieveSubjectToken, RefreshOK
  <2> QED
    BY <2>1, SignRequestKeeps DEF RefreshOK, awsVars
<1>3. CASE setup.source = "aws" /\ signer = None /\ setup.regionVar # None
  <2>1. setup.regionVar \in Region
    BY <1>0, <1>3 DEF Setup
  <2>2. /\ region' = setup.regionVar /\ signer' = setup.regionVar
        /\ SignRequest(c, setup.regionVar, setup.regionVar)
    BY <1>3 DEF retrieveSubjectToken, SetRegion, SignRequest, Goto
  <2> QED
    BY <2>1, <2>2, SignRequestKeeps
<1>4. CASE setup.source = "aws" /\ signer = None /\ setup.regionVar = None
  BY <1>4 DEF retrieveSubjectToken, RefreshOK, Goto, Labels, Settled,
              SignedForItsRegion, awsVars
<1> QED
  BY <1>1, <1>2, <1>3, <1>4

(* A refresh starts: the part of the invariant it touches is kept.         *)
LEMMA RefreshKeeps ==
  ASSUME ConstantsOk, setup \in Setups, RefreshOK, NEW c \in Call,
         NEW why \in {"token", "forced"}, refreshAccessTokenAsync(c, why)
  PROVE  RefreshOK'
<1>1. retrieveSubjectToken(c)
  BY DEF refreshAccessTokenAsync
<1>2. refreshing' \in [Call -> {"token", "forced", None}] /\ starts' \in [Call -> Nat]
  BY DEF refreshAccessTokenAsync, RefreshOK
<1> QED
  BY <1>1, <1>2, RetrieveKeeps DEF RefreshOK

LEMMA NoRefreshKeeps ==
  ASSUME RefreshOK, pc' \in [Call -> Labels], NoRefresh
  PROVE  RefreshOK'
  BY DEF RefreshOK, NoRefresh, SignedForItsRegion, awsVars

(* A token that may be used is put into a header.                          *)
LEMMA UseTokenKeeps ==
  ASSUME RefreshOK, HeadersOK, UNCHANGED setup, NEW c \in Call, NEW k,
         NEW token \in Token, Final(token), UseToken(c, k, token)
  PROVE  HeadersOK' /\ pc' \in [Call -> Labels]
  BY DEF UseToken, HeadersOK, RefreshOK, Goto, Labels, Settled, Final

LEMMA GetAccessTokenKeeps ==
  ASSUME ConstantsOk, setup \in Setups, UNCHANGED setup, RefreshOK, HeadersOK,
         NEW c \in Call, NEW k, NEW cached \in Credentials \union {None},
         cached # None => Final(cached.at), getAccessToken(c, k, cached)
  PROVE  RefreshOK' /\ HeadersOK'
<1>1. CASE NeedsRefresh(cached)
  <2>1. refreshAccessTokenAsync(c, "token") /\ UNCHANGED <<header, sends>>
    BY <1>1 DEF getAccessToken
  <2> QED
    BY <2>1, RefreshKeeps DEF HeadersOK, Final
<1>2. CASE ~NeedsRefresh(cached)
  <2>1. UseToken(c, k, cached.at) /\ NoRefresh
    BY <1>2 DEF getAccessToken
  <2>2. cached \in Credentials /\ cached # None
    BY <1>2 DEF NeedsRefresh
  <2>3. cached.at \in Token /\ Final(cached.at)
    BY <2>2 DEF Credentials
  <2> QED
    BY <2>1, <2>3, UseTokenKeeps, NoRefreshKeeps
<1> QED
  BY <1>1, <1>2

(* An error ends the call, or starts the one forced refresh.               *)
LEMMA CatchKeeps ==
  ASSUME ConstantsOk, setup \in Setups, UNCHANGED setup, RefreshOK, HeadersOK,
         retry \in [Call -> BOOLEAN], NEW c \in Call, NEW status, NEW streamed,
         Catch(c, status, streamed)
  PROVE  RefreshOK' /\ HeadersOK' /\ retry' \in [Call -> BOOLEAN]
<1>1. CASE ~retry[c] /\ status = "auth" /\ ~streamed /\ ForceRefreshOnFailure
  <2>1. /\ retry' = [retry EXCEPT ![c] = TRUE]
        /\ refreshAccessTokenAsync(c, "forced") /\ UNCHANGED <<header, sends>>
    BY <1>1 DEF Catch
  <2> QED
    BY <2>1, RefreshKeeps DEF HeadersOK, Final
<1>2. CASE ~(~retry[c] /\ status = "auth" /\ ~streamed /\ ForceRefreshOnFailure)
  <2>1. Goto(c, "failed") /\ UNCHANGED <<retry, header, sends>> /\ NoRefresh
    BY <1>2 DEF Catch
  <2>2. pc' \in [Call -> Labels]
    BY <2>1 DEF Goto, RefreshOK, Labels, Settled
  <2> QED
    BY <2>1, <2>2, NoRefreshKeeps DEF HeadersOK, Final
<1> QED
  BY <1>1, <1>2

(* A refresh ends with a token that may be used: it is cached and used, or *)
(* the request starts again with it.                                       *)
LEMMA StoreAndContinueKeeps ==
  ASSUME ConstantsOk, setup \in Setups, UNCHANGED setup, RefreshOK, HeadersOK,
         NEW c \in Call, NEW token \in Token, NEW exp \in Nat, Final(token),
         Store(token, exp), Continue(c)
  PROVE  CacheOK' /\ RefreshOK' /\ HeadersOK'
<1> DEFINE new == [at |-> token, exp |-> exp]
<1>1. /\ cachedAccessToken' = new /\ credentials' = new
      /\ new \in Credentials /\ new # None /\ Final(new.at)
  BY DEF Store, Credentials, ConstantsOk
<1>2. CacheOK'
  BY <1>1 DEF CacheOK, Final
<1>3. CASE refreshing[c] = "forced"
  <2>1. getAccessToken(c, kind[c], new)
    BY <1>1, <1>3 DEF Continue
  <2> HIDE DEF new
  <2>2. RefreshOK' /\ HeadersOK'
    BY <1>1, <2>1, GetAccessTokenKeeps
  <2> QED
    BY <1>2, <2>2
<1>4. CASE refreshing[c] # "forced"
  <2>1. UseToken(c, kind[c], token) /\ NoRefresh
    BY <1>1, <1>4 DEF Continue
  <2> QED
    BY <1>2, <2>1, UseTokenKeeps, NoRefreshKeeps
<1> QED
  BY <1>3, <1>4
-----------------------------------------------------------------------------
(* The inductive invariant.                                                *)

LEMMA InitKeeps == ASSUME ConstantsOk, Init PROVE IInv
  BY DEF Init, IInv, RestOK, CacheOK, HeadersOK, RefreshOK, Labels, Kinds,
         SignedForItsRegion, Final

LEMMA BeginKeeps ==
  ASSUME ConstantsOk, IInv, NEW c \in Call, Begin(c)
  PROVE  IInv'
<1>1. PICK k \in Kinds :
        /\ kind' = [kind EXCEPT ![c] = k]
        /\ IF k = "getProjectId" /\ (projectId \/ ~setup.projectNumber)
           THEN Goto(c, "done") /\ UNCHANGED <<header, sends>> /\ NoRefresh
           ELSE getAccessToken(c, k, cachedAccessToken)
        /\ UNCHANGED <<setup, now, swaps, tokenVars, projectId, retry>>
  BY DEF Begin
<1>2. RestOK' /\ CacheOK' /\ retry' \in [Call -> BOOLEAN]
  BY <1>1 DEF IInv, RestOK, CacheOK, Final, tokenVars
<1>3. CASE k = "getProjectId" /\ (projectId \/ ~setup.projectNumber)
  <2>1. Goto(c, "done") /\ UNCHANGED <<header, sends>> /\ NoRefresh
    BY <1>1, <1>3
  <2>2. pc' \in [Call -> Labels]
    BY <2>1 DEF Goto, IInv, RefreshOK, Labels, Settled
  <2>3. RefreshOK'
    BY <2>1, <2>2, NoRefreshKeeps DEF IInv
  <2>4. HeadersOK'
    BY <1>1, <2>1 DEF IInv, HeadersOK, Final
  <2> QED
    BY <1>2, <2>3, <2>4 DEF IInv
<1>4. CASE ~(k = "getProjectId" /\ (projectId \/ ~setup.projectNumber))
  <2>1. getAccessToken(c, k, cachedAccessToken) /\ UNCHANGED setup
    BY <1>1, <1>4
  <2>2. RefreshOK' /\ HeadersOK'
    BY <2>1, GetAccessTokenKeeps DEF IInv, RestOK, CacheOK
  <2> QED
    BY <1>2, <2>2 DEF IInv
<1> QED
  BY <1>3, <1>4

LEMMA SetCredentialsKeeps ==
  ASSUME ConstantsOk, IInv, NEW new \in Installed, setCredentials(new)
  PROVE  IInv'
<1>1. new \in Credentials /\ new.at.by = "application"
  BY DEF ConstantsOk
<1>2. RestOK' /\ CacheOK'
  BY <1>1 DEF setCredentials, IInv, RestOK, CacheOK, Final, callVars
<1>3. HeadersOK' /\ RefreshOK' /\ retry' \in [Call -> BOOLEAN]
  BY DEF setCredentials, IInv, HeadersOK, RefreshOK, SignedForItsRegion, Final,
         callVars, awsVars
<1> QED
  BY <1>2, <1>3 DEF IInv

LEMMA RegionFoundKeeps ==
  ASSUME ConstantsOk, IInv, NEW c \in Call, RegionFound(c)
  PROVE  IInv'
<1>1. PICK r \in Region :
        /\ region' = r /\ signer' = r /\ SignRequest(c, r, r)
        /\ UNCHANGED <<tokenVars, refreshing, starts, retry, header, sends>>
        /\ Unchanged
  BY DEF RegionFound, SetRegion, SignRequest, Goto
<1>2. RefreshOK'
  BY <1>1, SignRequestKeeps DEF IInv, RefreshOK
<1>3. RestOK' /\ CacheOK' /\ HeadersOK' /\ retry' \in [Call -> BOOLEAN]
  BY <1>1 DEF IInv, RestOK, CacheOK, HeadersOK, Final, tokenVars, Unchanged
<1> QED
  BY <1>2, <1>3 DEF IInv

LEMMA SubjectKeeps ==
  ASSUME ConstantsOk, IInv, NEW c \in Call, SubjectRequestAnswered(c)
  PROVE  IInv'
<1>1. RefreshOK'
  BY DEF SubjectRequestAnswered, NextRequest, Goto, IInv, RefreshOK, Labels,
         SignedForItsRegion, awsVars
<1>2. RestOK' /\ CacheOK' /\ HeadersOK' /\ retry' \in [Call -> BOOLEAN]
  BY DEF SubjectRequestAnswered, IInv, RestOK, CacheOK, HeadersOK, Final,
         tokenVars, Unchanged
<1> QED
  BY <1>1, <1>2 DEF IInv

LEMMA GrantedIsToken ==
  ASSUME now \in Nat, NEW life \in Nat, NEW age \in Nat, age < now,
         NEW by \in {"sts", "iam"}
  PROVE  Granted(by, age, life) \in Token /\ Granted(by, age, life).by = by
         /\ now + life \in Nat /\ now - age + life \in Nat
  BY DEF Granted, Token

LEMMA StsKeeps ==
  ASSUME ConstantsOk, IInv, NEW c \in Call, StsGrants(c)
  PROVE  IInv'
<1>1. PICK life \in Lifetimes, age \in 0 .. MaxLatency :
        /\ age < now
        /\ StsAnswered(c, Granted("sts", age, life),
                       IF setup.expiresIn THEN now + life ELSE 0)
        /\ Unchanged
  BY DEF StsGrants
<1> DEFINE token == Granted("sts", age, life)
           exp == IF setup.expiresIn THEN now + life ELSE 0
<1>2. now \in Nat /\ life \in Nat /\ age \in Nat /\ age < now
  BY <1>1 DEF ConstantsOk, IInv, RestOK
<1>3. token \in Token /\ token.by = "sts" /\ exp \in Nat
  BY <1>2, GrantedIsToken
<1>4. RestOK' /\ UNCHANGED setup
  BY <1>1 DEF IInv, RestOK, Unchanged
<1> HIDE DEF token, exp
<1>5. StsAnswered(c, token, exp)
  BY <1>1 DEF token, exp
<1>6. CASE setup.impersonation
  <2>1. /\ Goto(c, "impersonation") /\ NoRefresh
        /\ UNCHANGED <<cachedAccessToken, credentials, retry, header, sends>>
    BY <1>5, <1>6 DEF StsAnswered
  <2>2. pc' \in [Call -> Labels]
    BY <2>1 DEF Goto, IInv, RefreshOK, Labels
  <2>3. RefreshOK'
    BY <2>1, <2>2, NoRefreshKeeps DEF IInv
  <2> QED
    BY <1>4, <2>1, <2>3 DEF IInv, CacheOK, HeadersOK, Final
<1>7. CASE ~setup.impersonation
  <2>1. Store(token, exp) /\ Continue(c)
    BY <1>5, <1>7 DEF StsAnswered
  <2>2. Final(token)
    BY <1>7 DEF Final
  <2>3. CacheOK' /\ RefreshOK' /\ HeadersOK'
    BY <1>3, <1>4, <2>1, <2>2, StoreAndContinueKeeps DEF IInv, RestOK
  <2> QED
    BY <1>4, <2>1, <2>3 DEF IInv, Continue
<1> QED
  BY <1>6, <1>7

LEMMA ImpersonationKeeps ==
  ASSUME ConstantsOk, IInv, NEW c \in Call, ImpersonationGrants(c)
  PROVE  IInv'
<1>1. PICK life \in Lifetimes, age \in 0 .. MaxLatency :
        /\ age < now
        /\ Store(Granted("iam", age, life), now - age + life)
        /\ Continue(c) /\ Unchanged
  BY DEF ImpersonationGrants
<1> DEFINE token == Granted("iam", age, life)
           exp == now - age + life
<1>2. now \in Nat /\ life \in Nat /\ age \in Nat /\ age < now
  BY <1>1 DEF ConstantsOk, IInv, RestOK
<1>3. token \in Token /\ token.by = "iam" /\ exp \in Nat
  BY <1>2, GrantedIsToken
<1>4. RestOK' /\ UNCHANGED setup /\ retry' \in [Call -> BOOLEAN]
  BY <1>1 DEF IInv, RestOK, Unchanged, Continue
<1> HIDE DEF token, exp
<1>5. Store(token, exp) /\ Continue(c)
  BY <1>1 DEF token, exp
<1>6. Final(token)
  BY <1>3 DEF Final
<1>7. CacheOK' /\ RefreshOK' /\ HeadersOK'
  BY <1>3, <1>4, <1>5, <1>6, StoreAndContinueKeeps DEF IInv, RestOK
<1> QED
  BY <1>4, <1>7 DEF IInv

LEMMA RefreshRequestFailsKeeps ==
  ASSUME ConstantsOk, IInv, NEW c \in Call, RefreshRequestFails(c)
  PROVE  IInv'
<1>1. PICK status \in {"auth", "error"} : RefreshFails(c, status) /\ Unchanged
  BY DEF RefreshRequestFails
<1>2. RestOK' /\ CacheOK' /\ UNCHANGED setup
  BY <1>1 DEF RefreshFails, IInv, RestOK, CacheOK, Final, tokenVars, Unchanged
<1>3. CASE refreshing[c] = "token" /\ kind[c] \in Requests
  <2>1. Catch(c, status, FALSE)
    BY <1>1, <1>3 DEF RefreshFails
  <2> QED
    BY <1>2, <2>1, CatchKeeps DEF IInv, RestOK
<1>4. CASE ~(refreshing[c] = "token" /\ kind[c] \in Requests)
  <2>1. Goto(c, "failed") /\ UNCHANGED <<retry, header, sends>> /\ NoRefresh
    BY <1>1, <1>4 DEF RefreshFails
  <2>2. pc' \in [Call -> Labels]
    BY <2>1 DEF Goto, IInv, RefreshOK, Labels, Settled
  <2> QED
    BY <1>2, <2>1, <2>2, NoRefreshKeeps DEF IInv, HeadersOK, Final
<1> QED
  BY <1>3, <1>4

LEMMA ApiAnswersKeeps ==
  ASSUME ConstantsOk, IInv, NEW c \in Call, ApiAnswers(c)
  PROVE  IInv'
<1>1. RestOK' /\ CacheOK' /\ UNCHANGED setup
  BY DEF ApiAnswers, IInv, RestOK, CacheOK, Final, tokenVars, Unchanged
<1>2. CASE Goto(c, "done") /\ UNCHANGED <<retry, header, sends>> /\ NoRefresh
  <2>1. pc' \in [Call -> Labels]
    BY <1>2 DEF Goto, IInv, RefreshOK, Labels, Settled
  <2> QED
    BY <1>1, <1>2, <2>1, NoRefreshKeeps DEF IInv, HeadersOK, Final
<1>3. CASE \E status \in {"auth", "error"} : Catch(c, status, kind[c] = "upload")
  BY <1>1, <1>3, CatchKeeps DEF IInv, RestOK
<1> QED
  BY <1>2, <1>3 DEF ApiAnswers

LEMMA ProjectAnswersKeeps ==
  ASSUME ConstantsOk, IInv, NEW c \in Call, ProjectAnswers(c)
  PROVE  IInv'
<1>1. pc' \in [Call -> Labels]
  BY DEF ProjectAnswers, Goto, IInv, RefreshOK, Labels, Settled
<1>2. RefreshOK'
  BY <1>1, NoRefreshKeeps DEF ProjectAnswers, IInv
<1>3. RestOK' /\ CacheOK' /\ HeadersOK' /\ retry' \in [Call -> BOOLEAN]
  BY DEF ProjectAnswers, IInv, RestOK, CacheOK, HeadersOK, Final, tokenVars
<1> QED
  BY <1>2, <1>3 DEF IInv

LEMMA TickKeeps == ASSUME IInv, Tick PROVE IInv'
  BY DEF Tick, IInv, RestOK, CacheOK, HeadersOK, RefreshOK, SignedForItsRegion,
         Final, tokenVars, awsVars, callVars

(* The inductive invariant holds, whatever the calls, the configurations   *)
(* and the order in which answers come.                                    *)
THEOREM InvariantHolds == Spec => []IInv
<1>1. Init => IInv
  BY ConstantsOk, InitKeeps
<1>2. IInv /\ [Next]_vars => IInv'
  <2> SUFFICES ASSUME IInv, [Next]_vars PROVE IInv'
    OBVIOUS
  <2>1. ASSUME NEW c \in Call, Begin(c) PROVE IInv'
    BY <2>1, ConstantsOk, BeginKeeps
  <2>2. ASSUME NEW c \in Call, Answer(c) PROVE IInv'
    BY <2>2, ConstantsOk, RegionFoundKeeps, SubjectKeeps, StsKeeps, ImpersonationKeeps,
       RefreshRequestFailsKeeps, ApiAnswersKeeps, ProjectAnswersKeeps DEF Answer
  <2>3. ASSUME NEW new \in Installed, setCredentials(new) PROVE IInv'
    BY <2>3, ConstantsOk, SetCredentialsKeeps
  <2>4. ASSUME UNCHANGED vars PROVE IInv'
    BY <2>4 DEF vars, IInv, RestOK, CacheOK, HeadersOK, RefreshOK,
                SignedForItsRegion, Final, tokenVars, awsVars, callVars
  <2> QED
    BY <2>1, <2>2, <2>3, <2>4, TickKeeps DEF Next
<1> QED
  BY <1>1, <1>2, PTL DEF Spec

(* TypeOK, for any calls, configurations and lifetimes.                    *)
THEOREM TypeCorrect == Spec => []TypeOK
<1>1. IInv => TypeOK
  BY DEF IInv, RestOK, CacheOK, HeadersOK, RefreshOK, TypeOK, Labels
<1> QED
  BY <1>1, InvariantHolds, PTL

(* Every AWS request is signed for the region in its URL.                  *)
THEOREM RegionsAgree == Spec => []SignedForItsRegion
<1>1. IInv => SignedForItsRegion
  BY DEF IInv, RefreshOK
<1> QED
  BY <1>1, InvariantHolds, PTL

(* The credentials and the cached token are always the same.               *)
THEOREM CacheFollows == Spec => []CredentialsAreCached
<1>1. IInv => CredentialsAreCached
  BY DEF IInv, CacheOK, CredentialsAreCached
<1> QED
  BY <1>1, InvariantHolds, PTL

(* No intermediate token is cached or sent when there is impersonation.    *)
THEOREM NoIntermediateToken == Spec => []OnlyImpersonatedTokens
<1>1. IInv => OnlyImpersonatedTokens
  BY DEF IInv, CacheOK, HeadersOK, Final, OnlyImpersonatedTokens
<1> QED
  BY <1>1, InvariantHolds, PTL

-----------------------------------------------------------------------------
(* Effort.  What a call has sent and started so far depends on where it    *)
(* stands and on whether it is a replay: only the first try is caught, and *)
(* only a replay is refreshed by force.                                    *)

Chain == {"region", "role", "keys", "subject", "sts", "impersonation"}

Effort(c) ==
  /\ sends[c] <= 2 /\ starts[c] <= 3
  /\ ~retry[c] => sends[c] <= 1 /\ starts[c] <= 1
  /\ pc[c] = "idle" => sends[c] = 0 /\ starts[c] = 0 /\ ~retry[c] /\ header[c] = None
  /\ pc[c] \in Chain => sends[c] <= 1
  /\ pc[c] \in Chain /\ ~retry[c] => sends[c] = 0
  /\ pc[c] \in Chain /\ refreshing[c] = "forced" => retry[c] /\ starts[c] <= 2

EffortInv == \A c \in Call : Effort(c)

(* The other calls' effort stays what it is.                               *)
OthersRest(c) ==
  \A e \in Call : e # c =>
    /\ pc'[e] = pc[e] /\ refreshing'[e] = refreshing[e] /\ retry'[e] = retry[e]
    /\ header'[e] = header[e] /\ sends'[e] = sends[e] /\ starts'[e] = starts[e]

LEMMA EffortFrom ==
  ASSUME EffortInv, NEW c \in Call, OthersRest(c), Effort(c)'
  PROVE  EffortInv'
  BY DEF EffortInv, Effort, OthersRest, Chain

(* A refresh starts: it fails or takes the call into the chain.            *)
LEMMA RefreshEffort ==
  ASSUME IInv, NEW c \in Call, NEW why \in {"token", "forced"},
         refreshAccessTokenAsync(c, why), UNCHANGED <<header, sends>>
  PROVE  /\ pc'[c] \in Chain \union {"failed"} /\ refreshing'[c] = why
         /\ starts'[c] = starts[c] + 1 /\ sends'[c] = sends[c]
         /\ retry' = retry => OthersRest(c)
         /\ retry' = [retry EXCEPT ![c] = TRUE] => OthersRest(c)
<1>1. \E label \in Chain \union {"failed"} : pc' = [pc EXCEPT ![c] = label]
  BY DEF refreshAccessTokenAsync, retrieveSubjectToken, SignRequest, Goto, Chain
<1> QED
  BY <1>1 DEF refreshAccessTokenAsync, IInv, RefreshOK, OthersRest

LEMMA NoRefreshEffort ==
  ASSUME IInv, NEW c \in Call, NEW label, Goto(c, label), NoRefresh,
         UNCHANGED <<header, sends, retry>>
  PROVE  /\ pc'[c] = label /\ UNCHANGED <<starts, refreshing>> /\ OthersRest(c)
  BY DEF Goto, NoRefresh, IInv, RefreshOK, OthersRest

LEMMA UseTokenEffort ==
  ASSUME IInv, NEW c \in Call, NEW k, NEW token, UseToken(c, k, token), NoRefresh,
         UNCHANGED retry
  PROVE  /\ pc'[c] \in {"sent", "project", "done"} /\ sends'[c] <= sends[c] + 1
         /\ sends'[c] \in Nat /\ UNCHANGED <<starts, refreshing>> /\ OthersRest(c)
<1>1. \E label \in {"sent", "project", "done"} :
        /\ pc' = [pc EXCEPT ![c] = label]
        /\ header' = [header EXCEPT ![c] = token]
        /\ sends' = [sends EXCEPT ![c] = @ + 1] \/ sends' = sends
  BY DEF UseToken, Goto
<1> QED BY <1>1 DEF NoRefresh, IInv, RefreshOK, HeadersOK, OthersRest

(* getAccessToken, of a call that has sent at most once and is not         *)
(* refreshing twice.                                                       *)
LEMMA GetAccessTokenEffort ==
  ASSUME IInv, EffortInv, NEW c \in Call, NEW k, NEW cached, UNCHANGED retry,
         getAccessToken(c, k, cached),
         sends[c] <= 1, starts[c] <= 2,
         ~retry[c] => sends[c] = 0 /\ starts[c] = 0
  PROVE  EffortInv'
<1>1. sends[c] \in Nat /\ starts[c] \in Nat
  BY DEF IInv, HeadersOK, RefreshOK
<1>2. CASE refreshAccessTokenAsync(c, "token") /\ UNCHANGED <<header, sends>>
  BY <1>1, <1>2, RefreshEffort, EffortFrom DEF Effort, Chain
<1>3. CASE UseToken(c, k, cached.at) /\ NoRefresh
  BY <1>1, <1>3, UseTokenEffort, EffortFrom DEF Effort, Chain
<1> QED BY <1>2, <1>3 DEF getAccessToken

LEMMA FailEffort ==
  ASSUME IInv, EffortInv, NEW c \in Call, NEW label, label \notin Chain, label # "idle",
         Goto(c, label), NoRefresh, UNCHANGED <<header, sends, retry>>
  PROVE  EffortInv'
  BY NoRefreshEffort, EffortFrom DEF EffortInv, Effort

(* An error of a request to the API, or of the chain of a first try.       *)
LEMMA CatchEffort ==
  ASSUME IInv, EffortInv, NEW c \in Call, NEW status, NEW streamed,
         Catch(c, status, streamed)
  PROVE  EffortInv'
<1>1. sends[c] \in Nat /\ starts[c] \in Nat /\ retry \in [Call -> BOOLEAN] /\ Effort(c)
  BY DEF IInv, HeadersOK, RefreshOK, EffortInv
<1>2. CASE /\ ~retry[c] /\ retry' = [retry EXCEPT ![c] = TRUE]
           /\ refreshAccessTokenAsync(c, "forced") /\ UNCHANGED <<header, sends>>
  <2>1. retry'[c] = TRUE
    BY <1>1, <1>2
  <2>2. /\ pc'[c] \in Chain \union {"failed"} /\ OthersRest(c)
        /\ starts'[c] = starts[c] + 1 /\ sends'[c] = sends[c]
    BY <1>2, RefreshEffort
  <2>3. sends[c] <= 1 /\ starts[c] <= 1
    BY <1>1, <1>2 DEF Effort
  <2>4. sends'[c] <= 1 /\ starts'[c] <= 2
    BY <1>1, <2>2, <2>3
  <2>5. sends'[c] <= 2 /\ starts'[c] <= 3 /\ sends'[c] \in Nat /\ starts'[c] \in Nat
    BY <1>1, <2>2, <2>4
  <2>6. pc'[c] # "idle"
    BY <2>2 DEF Chain
  <2>7. Effort(c)'
    BY <2>1, <2>4, <2>5, <2>6, Zenon DEF Effort
  <2> QED BY <2>2, <2>7, EffortFrom
<1>3. CASE Goto(c, "failed") /\ UNCHANGED <<retry, header, sends>> /\ NoRefresh
  BY <1>3, FailEffort DEF Chain
<1> QED BY <1>2, <1>3 DEF Catch

(* The chain ends with a token.                                            *)
LEMMA ContinueEffort ==
  ASSUME IInv, EffortInv, NEW c \in Call, pc[c] \in Chain, Continue(c)
  PROVE  EffortInv'
<1>1. sends[c] \in Nat /\ starts[c] \in Nat /\ Effort(c) /\ UNCHANGED retry
  BY DEF IInv, HeadersOK, RefreshOK, EffortInv, Continue
<1>2. CASE refreshing[c] = "forced" /\ getAccessToken(c, kind[c], cachedAccessToken')
  BY <1>1, <1>2, GetAccessTokenEffort DEF Effort
<1>3. CASE UseToken(c, kind[c], cachedAccessToken'.at) /\ NoRefresh
  BY <1>1, <1>3, UseTokenEffort, EffortFrom DEF Effort, Chain
<1> QED BY <1>2, <1>3 DEF Continue

LEMMA ChainEffort ==
  ASSUME IInv, EffortInv, NEW c \in Call, NEW label \in Chain \union {"failed"},
         pc[c] \in Chain, Goto(c, label),
         UNCHANGED <<refreshing, starts, retry, header, sends>>
  PROVE  EffortInv'
<1>1. pc'[c] = label /\ OthersRest(c)
  BY DEF Goto, IInv, RefreshOK, OthersRest
<1> QED BY <1>1, EffortFrom DEF EffortInv, Effort, Chain

LEMMA AnswerEffort ==
  ASSUME IInv, EffortInv, NEW c \in Call, Answer(c)
  PROVE  EffortInv'
<1>1. CASE RegionFound(c)
  <2>1. \E label \in Chain \union {"failed"} : Goto(c, label)
    BY <1>1 DEF RegionFound, SignRequest, Chain
  <2> QED BY <1>1, <2>1, ChainEffort DEF RegionFound, Chain
<1>2. CASE SubjectRequestAnswered(c)
  <2>1. pc[c] \in Chain /\ NextRequest(pc[c]) \in Chain
    BY <1>2 DEF SubjectRequestAnswered, NextRequest, Chain
  <2> QED BY <1>2, <2>1, ChainEffort DEF SubjectRequestAnswered
<1>3. CASE StsGrants(c)
  <2>1. CASE Goto(c, "impersonation") /\ UNCHANGED <<retry, header, sends>> /\ NoRefresh
    BY <1>3, <2>1, ChainEffort DEF StsGrants, Chain, NoRefresh
  <2>2. CASE Continue(c)
    BY <1>3, <2>2, ContinueEffort DEF StsGrants, Chain
  <2> QED BY <1>3, <2>1, <2>2 DEF StsGrants, StsAnswered
<1>4. CASE ImpersonationGrants(c)
  BY <1>4, ContinueEffort DEF ImpersonationGrants, Chain
<1>5. CASE RefreshRequestFails(c)
  BY <1>5, CatchEffort, FailEffort DEF RefreshRequestFails, RefreshFails, Chain
<1>6. CASE ApiAnswers(c)
  BY <1>6, CatchEffort, FailEffort DEF ApiAnswers, Chain
<1>7. CASE ProjectAnswers(c)
  BY <1>7, FailEffort DEF ProjectAnswers, Chain
<1> QED BY <1>1, <1>2, <1>3, <1>4, <1>5, <1>6, <1>7 DEF Answer

LEMMA BeginEffort ==
  ASSUME IInv, EffortInv, NEW c \in Call, Begin(c)
  PROVE  EffortInv'
<1>1. Effort(c) /\ pc[c] = "idle" /\ UNCHANGED retry
  BY DEF Begin, EffortInv
<1>2. CASE Goto(c, "done") /\ UNCHANGED <<header, sends>> /\ NoRefresh
  BY <1>1, <1>2, FailEffort DEF Chain
<1>3. ASSUME NEW k, getAccessToken(c, k, cachedAccessToken)
      PROVE  EffortInv'
  BY <1>1, <1>3, GetAccessTokenEffort DEF Effort
<1> QED BY <1>2, <1>3 DEF Begin

LEMMA EffortNext == IInv /\ EffortInv /\ [Next]_vars => EffortInv'
<1> SUFFICES ASSUME IInv, EffortInv, [Next]_vars PROVE EffortInv'
  OBVIOUS
<1>1. CASE UNCHANGED callVars
  BY <1>1 DEF callVars, EffortInv, Effort
<1>2. CASE Tick \/ (\E new \in Installed : setCredentials(new)) \/ UNCHANGED vars
  BY <1>1, <1>2 DEF Tick, setCredentials, vars
<1> QED BY <1>2, BeginEffort, AnswerEffort DEF Next

LEMMA EffortInit == Init => EffortInv
<1> SUFFICES ASSUME Init, NEW c \in Call PROVE Effort(c)
  BY DEF EffortInv
<1>1. sends[c] = 0 /\ starts[c] = 0 /\ pc[c] = "idle" /\ header[c] = None
  BY DEF Init
<1>2. ~retry[c] /\ pc[c] \notin Chain
  BY <1>1 DEF Init, Chain
<1>3. sends[c] <= 1 /\ starts[c] <= 1 /\ sends[c] <= 2 /\ starts[c] <= 3
  BY <1>1
<1> QED BY <1>1, <1>2, <1>3, Zenon DEF Effort

(* A request reaches the API at most twice and starts at most three        *)
(* refreshes, with any number of calls and however each request fails.     *)
THEOREM EffortBounded == Spec => []BoundedEffort
<1>1. EffortInv => BoundedEffort
  BY DEF EffortInv, Effort, BoundedEffort
<1> QED
  BY <1>1, InvariantHolds, EffortInit, EffortNext, PTL DEF Spec


-----------------------------------------------------------------------------
(* The cached token and its end.  expiry_date is late by at most the age   *)
(* of the answer: the STS endpoint's counts from its arrival.              *)

Late(cached) == cached.exp # 0 => cached.exp <= cached.at.deadline + Threshold
LateInv == cachedAccessToken # None => Late(cachedAccessToken)

LEMMA StoredLate ==
  ASSUME IInv, NEW by, NEW life \in Lifetimes, NEW age \in 0 .. MaxLatency, age < now,
         NEW exp \in {0, now + life, now - age + life},
         Store(Granted(by, age, life), exp), MaxLatency <= Threshold
  PROVE  LateInv'
<1>1. cachedAccessToken' = [at |-> Granted(by, age, life), exp |-> exp]
  BY DEF Store
<1>2. cachedAccessToken'.exp = exp /\ cachedAccessToken'.at.deadline = now - age + life
  BY <1>1 DEF Granted
<1>3. {now, life, age, Threshold, MaxLatency} \subseteq Nat /\ age <= MaxLatency
  BY ConstantsOk DEF ConstantsOk, IInv, RestOK
<1>4. exp # 0 => exp <= (now - age + life) + Threshold
  BY <1>3
<1> QED BY <1>2, <1>4 DEF LateInv, Late

LEMMA LateStep ==
  ASSUME IInv, LateInv, [Next]_vars, MaxLatency <= Threshold,
         \A new \in Installed : Late(new)
  PROVE  LateInv'
<1>1. CASE UNCHANGED cachedAccessToken
  BY <1>1 DEF LateInv, Late
<1>2. ASSUME NEW new \in Installed, setCredentials(new) PROVE LateInv'
  BY <1>2 DEF setCredentials, LateInv, Late
<1>3. ASSUME NEW c \in Call, StsGrants(c) PROVE LateInv'
  <2> PICK life \in Lifetimes, age \in 0 .. MaxLatency :
        /\ age < now
        /\ StsAnswered(c, Granted("sts", age, life),
                       IF setup.expiresIn THEN now + life ELSE 0)
    BY <1>3 DEF StsGrants
  <2>1. CASE setup.impersonation
    BY <2>1, <1>1 DEF StsAnswered
  <2>2. CASE ~setup.impersonation
    <3>1. Store(Granted("sts", age, life), IF setup.expiresIn THEN now + life ELSE 0)
      BY <2>2 DEF StsAnswered
    <3> QED BY <3>1, StoredLate
  <2> QED BY <2>1, <2>2
<1>4. ASSUME NEW c \in Call, ImpersonationGrants(c) PROVE LateInv'
  BY <1>4, StoredLate DEF ImpersonationGrants
<1>5. ASSUME NEW c \in Call,
             \/ Begin(c) \/ RegionFound(c) \/ SubjectRequestAnswered(c)
             \/ RefreshRequestFails(c) \/ ApiAnswers(c) \/ ProjectAnswers(c)
      PROVE  UNCHANGED cachedAccessToken
  BY <1>5
  DEF Begin, RegionFound, SubjectRequestAnswered, RefreshRequestFails, RefreshFails,
      ApiAnswers, ProjectAnswers, tokenVars
<1> QED
  BY <1>1, <1>2, <1>3, <1>4, <1>5 DEF Next, Answer, Tick, vars, tokenVars

(* A step of one call leaves the others where they stand.                  *)
LEMMA OthersMove ==
  ASSUME IInv, NEW c \in Call, NEW d \in Call, d # c, Begin(d) \/ Answer(d)
  PROVE  pc'[c] = pc[c]
<1>0. pc \in [Call -> Labels]
  BY DEF IInv, RefreshOK
<1>1. ASSUME NEW label, Goto(d, label) PROVE pc'[c] = pc[c]
  BY <1>0, <1>1 DEF Goto
<1>2. ASSUME NEW why, refreshAccessTokenAsync(d, why) PROVE pc'[c] = pc[c]
  BY <1>1, <1>2 DEF refreshAccessTokenAsync, retrieveSubjectToken, SignRequest
<1>3. ASSUME NEW k, NEW cached, getAccessToken(d, k, cached) PROVE pc'[c] = pc[c]
  BY <1>1, <1>2, <1>3 DEF getAccessToken, UseToken
<1>4. ASSUME NEW status, NEW streamed, Catch(d, status, streamed) PROVE pc'[c] = pc[c]
  BY <1>1, <1>2, <1>4 DEF Catch
<1>5. ASSUME Continue(d) PROVE pc'[c] = pc[c]
  BY <1>1, <1>3, <1>5 DEF Continue, UseToken
<1>6. CASE Begin(d)
  BY <1>1, <1>3, <1>6 DEF Begin
<1>7. CASE RegionFound(d) \/ SubjectRequestAnswered(d) \/ ProjectAnswers(d)
  BY <1>1, <1>7
  DEF RegionFound, SubjectRequestAnswered, ProjectAnswers, SignRequest
<1>8. CASE StsGrants(d) \/ ImpersonationGrants(d)
  BY <1>1, <1>5, <1>8 DEF StsGrants, StsAnswered, ImpersonationGrants
<1>9. CASE RefreshRequestFails(d) \/ ApiAnswers(d)
  BY <1>1, <1>4, <1>9 DEF RefreshRequestFails, RefreshFails, ApiAnswers
<1> QED BY <1>6, <1>7, <1>8, <1>9 DEF Answer

(* A call that uses the cached token without a refresh uses one that has   *)
(* not expired, if the eager threshold makes up for the age of an answer.  *)
THEOREM CachedIsLive ==
  ASSUME MaxLatency <= Threshold, \A new \in Installed : Late(new)
  PROVE  Spec => CachedTokenIsLive
<1>1. Init => LateInv
  BY DEF Init, LateInv
<1>2. IInv /\ LateInv /\ [Next]_vars => LateInv'
  BY LateStep
<1>3. IInv /\ EffortInv /\ LateInv /\ [Next]_vars =>
        [ \A c \in Call :
            /\ pc[c] = "idle" /\ pc'[c] \in {"sent", "done", "project"}
            /\ header'[c] # None /\ cachedAccessToken.exp # 0
            => header'[c].deadline > now ]_vars
  <2> SUFFICES ASSUME IInv, EffortInv, LateInv, Next, NEW c \in Call,
                      pc[c] = "idle", pc'[c] \in {"sent", "done", "project"},
                      header'[c] # None, cachedAccessToken.exp # 0
               PROVE  header'[c].deadline > now
    OBVIOUS
  <2>0. header[c] = None /\ pc \in [Call -> Labels]
    BY DEF EffortInv, Effort, IInv, RefreshOK
  <2>1. Begin(c)
    <3>1. ASSUME NEW d \in Call, d # c, Begin(d) \/ Answer(d) PROVE pc'[c] = pc[c]
      BY <2>0, <3>1, OthersMove
    <3>2. ~Answer(c)
      BY DEF Answer, RegionFound, SubjectRequestAnswered, StsGrants,
             ImpersonationGrants, RefreshRequestFails, ApiAnswers, ProjectAnswers
    <3> QED BY <3>1, <3>2 DEF Next, Tick, setCredentials, callVars
  <2>2. PICK k : getAccessToken(c, k, cachedAccessToken)
    BY <2>0, <2>1 DEF Begin
  <2>3. ~NeedsRefresh(cachedAccessToken)
    BY <2>0, <2>2 DEF getAccessToken
  <2>4. header'[c] = cachedAccessToken.at /\ cachedAccessToken # None
    BY <2>2, <2>3 DEF getAccessToken, UseToken, NeedsRefresh, IInv, HeadersOK
  <2>5. /\ ~(now >= cachedAccessToken.exp - Threshold)
        /\ cachedAccessToken.exp <= cachedAccessToken.at.deadline + Threshold
    BY <2>3, <2>4 DEF NeedsRefresh, isExpired, LateInv, Late
  <2>6. {now, Threshold, cachedAccessToken.exp, cachedAccessToken.at.deadline} \subseteq Nat
    BY <2>4, ConstantsOk DEF ConstantsOk, IInv, RestOK, CacheOK, Credentials, Token
  <2>7. cachedAccessToken.at.deadline > now
    BY <2>5, <2>6
  <2> QED BY <2>4, <2>7
<1> QED
  BY <1>1, <1>2, <1>3, InvariantHolds, EffortInit, EffortNext, PTL
  DEF Spec, CachedTokenIsLive
=============================================================================
