---------------------- MODULE IdTokenVerificationProofs ----------------------
(***************************************************************************)
(* Proofs about IdTokenVerification.  The inductive invariant bounds the   *)
(* age of every certificate that may still be used: of an answer under     *)
(* way, of the cache until it expires, and of what a call has been given.  *)
(***************************************************************************)
EXTENDS IdTokenVerification, WellFoundedInduction, TLAPS

CacheOK ==
  /\ certificateCache \in Nat \union {None}
  /\ certificateExpiry \in Nat \union {None}
  /\ certificateExpiry # None =>
       /\ certificateCache \in Nat /\ certificateCache <= now
       /\ certificateExpiry <= certificateCache + MaxMaxAge + MaxLatency

CertsOK(c) ==
  /\ pc[c] \notin {"fetching", "using"} => certs[c] = None
  /\ certs[c] # None => certs[c] <= now
  /\ pc[c] = "fetching" /\ certs[c] # None => now <= certs[c] + MaxLatency
  /\ pc[c] = "using" => /\ certs[c] # None
                        /\ now <= certs[c] + MaxMaxAge + MaxLatency

WorkOK(c) ==
  pc[c] \in {"fetching", "using"} =>
    work[c] \in Jobs /\ minted[c] \in Nat /\ minted[c] <= now

IInv == TypeOK /\ CacheOK /\ \A c \in Call : CertsOK(c) /\ WorkOK(c)

-----------------------------------------------------------------------------

(* The check that is named first is one that fails, and none fails before  *)
(* it.                                                                     *)
LEMMA FirstIsLeast ==
  ASSUME NEW failing \in SUBSET Checks, failing # {}
  PROVE  First(failing) \in failing /\ \A j \in failing : Order[First(failing)] <= Order[j]
<1> DEFINE ranks == {Order[k] : k \in failing}
           less == OpToRel(<, Nat)
<1>1. \A k \in Checks : Order[k] \in Nat
  BY DEF Checks, Order
<1>2. ranks \subseteq Nat /\ ranks # {}
  BY <1>1
<1>3. PICK n \in ranks : \A m \in ranks : <<m, n>> \notin less
  BY <1>2, NatLessThanWellFounded, WFMin
<1>4. ASSUME NEW m \in ranks PROVE n <= m
  <2>1. m \in Nat /\ n \in Nat
    BY <1>2
  <2>2. m < n => <<m, n>> \in less
    BY <2>1 DEF OpToRel
  <2> HIDE DEF ranks, less
  <2> QED
    BY <1>3, <2>1, <2>2
<1>5. \E k \in failing : \A j \in failing : Order[k] <= Order[j]
  BY <1>4
<1> QED
  BY <1>5 DEF First

LEMMA VerdictType ==
  ASSUME ConstantsOk, NEW job \in Jobs, NEW t, NEW asOf
  PROVE  /\ Failing(job, t, asOf) \in SUBSET Checks
         /\ verifySignedJwtWithCerts(job, t, asOf) \in {"ticket"} \union Checks
         /\ verifySignedJwtWithCerts(job, t, asOf) = "ticket" <=> Failing(job, t, asOf) = {}
<1>1. Failing(job, t, asOf) \in SUBSET Checks
  BY DEF ConstantsOk, Job, Failing, Checks
<1>2. CASE Failing(job, t, asOf) = {}
  BY <1>1, <1>2 DEF verifySignedJwtWithCerts
<1>3. CASE Failing(job, t, asOf) # {}
  <2>1. First(Failing(job, t, asOf)) \in Checks
    BY <1>1, <1>3, FirstIsLeast
  <2> QED
    BY <1>1, <1>3, <2>1 DEF verifySignedJwtWithCerts, Checks
<1> QED
  BY <1>2, <1>3

-----------------------------------------------------------------------------
(* The inductive invariant.                                                *)

LEMMA InitKeeps == ASSUME ConstantsOk, Init PROVE IInv
  BY DEF Init, IInv, TypeOK, CacheOK, CertsOK, WorkOK

LEMMA BeginKeeps ==
  ASSUME ConstantsOk, IInv, NEW c \in Call, Begin(c)
  PROVE  IInv'
<1>1. PICK job \in Jobs, t \in 0 .. now :
        /\ pc[c] = "idle"
        /\ work' = [work EXCEPT ![c] = job]
        /\ minted' = [minted EXCEPT ![c] = t]
        /\ IF job.kind # "verifyIapToken" /\ Usable
           THEN Goto(c, "using") /\ certs' = [certs EXCEPT ![c] = certificateCache]
           ELSE Goto(c, "fetching") /\ UNCHANGED certs
        /\ UNCHANGED <<now, cacheVars>>
  BY DEF Begin
<1>2. t \in Nat /\ t <= now /\ now \in Nat
  BY DEF IInv, TypeOK
<1>3. CacheOK'
  BY <1>1 DEF IInv, CacheOK, cacheVars
<1>4. CASE job.kind # "verifyIapToken" /\ Usable
  <2>1. certificateCache \in Nat /\ certificateCache <= now
        /\ now <= certificateCache + MaxMaxAge + MaxLatency
    BY <1>2, <1>4 DEF Usable, IInv, CacheOK, TypeOK, ConstantsOk
  <2> QED
    BY <1>1, <1>2, <1>3, <1>4, <2>1
       DEF IInv, TypeOK, CertsOK, WorkOK, Goto, cacheVars, ConstantsOk
<1>5. CASE ~(job.kind # "verifyIapToken" /\ Usable)
  <2>1. certs[c] = None
    BY <1>1 DEF IInv, CertsOK
  <2> QED
    BY <1>1, <1>2, <1>3, <1>5, <2>1 DEF IInv, TypeOK, CertsOK, WorkOK, Goto, cacheVars
<1> QED
  BY <1>4, <1>5

LEMMA UseCertsKeeps ==
  ASSUME ConstantsOk, IInv, NEW c \in Call, UseCerts(c)
  PROVE  IInv'
<1>1. work[c] \in Jobs
  BY DEF UseCerts, IInv, WorkOK
<1>2. pc' \in [Call -> {"idle", "fetching", "using"} \union Ended] /\ pc'[c] \in Ended
  BY <1>1, VerdictType DEF UseCerts, Goto, IInv, TypeOK, Ended
<1>3. \A d \in Call : d # c => pc'[d] = pc[d]
  BY DEF UseCerts, Goto, IInv, TypeOK
<1>4. pc'[c] \notin {"fetching", "using"}
  BY <1>2 DEF Ended, Checks
<1> QED
  BY <1>2, <1>3, <1>4
     DEF UseCerts, IInv, TypeOK, CacheOK, CertsOK, WorkOK, cacheVars

LEMMA EndpointAnswersKeeps ==
  ASSUME ConstantsOk, IInv, NEW c \in Call, EndpointAnswers(c)
  PROVE  IInv'
  BY DEF EndpointAnswers, IInv, TypeOK, CacheOK, CertsOK, WorkOK, cacheVars, ConstantsOk

LEMMA CertsArriveKeeps ==
  ASSUME ConstantsOk, IInv, NEW c \in Call, CertsArrive(c)
  PROVE  IInv'
<1>1. /\ certs[c] \in Nat /\ certs[c] <= now /\ now <= certs[c] + MaxLatency
      /\ now \in Nat
  BY DEF CertsArrive, IInv, TypeOK, CertsOK
<1>2. CacheOK'
  <2>1. CASE UNCHANGED cacheVars
    BY <2>1 DEF CertsArrive, IInv, CacheOK, cacheVars
  <2>2. ASSUME NEW age \in MaxAges, Store(certs[c], age) PROVE CacheOK'
    BY <1>1, <2>2 DEF Store, CertsArrive, CacheOK, ConstantsOk
  <2> QED
    BY <2>1, <2>2 DEF CertsArrive
<1>3. CertsOK(c)' /\ WorkOK(c)'
  BY <1>1 DEF CertsArrive, Goto, IInv, TypeOK, CertsOK, WorkOK, ConstantsOk
<1> QED
  BY <1>2, <1>3 DEF CertsArrive, Goto, IInv, TypeOK, CacheOK, CertsOK, WorkOK

LEMMA FetchFailsKeeps ==
  ASSUME ConstantsOk, IInv, NEW c \in Call, FetchFails(c)
  PROVE  IInv'
  BY DEF FetchFails, Goto, IInv, TypeOK, CacheOK, CertsOK, WorkOK, cacheVars,
         Ended, Checks, ConstantsOk

LEMMA TickKeeps ==
  ASSUME ConstantsOk, IInv, Tick
  PROVE  IInv'
  BY DEF Tick, Ready, IInv, TypeOK, CacheOK, CertsOK, WorkOK, cacheVars, ConstantsOk

LEMMA NextKeeps == ASSUME ConstantsOk, IInv, [Next]_vars PROVE IInv'
<1>1. ASSUME NEW c \in Call, Begin(c) PROVE IInv'
  BY <1>1, BeginKeeps
<1>2. ASSUME NEW c \in Call, Step(c) PROVE IInv'
  BY <1>2, UseCertsKeeps, EndpointAnswersKeeps, CertsArriveKeeps, FetchFailsKeeps DEF Step
<1>3. ASSUME UNCHANGED vars PROVE IInv'
  BY <1>3 DEF vars, IInv, TypeOK, CacheOK, CertsOK, WorkOK, cacheVars
<1> QED
  BY <1>1, <1>2, <1>3, TickKeeps DEF Next

(* No certificate is ever used that is older than an answer may be cached  *)
(* and under way.                                                          *)
THEOREM CertificateAgeBounded == Spec => []IInv
<1>1. Init => IInv
  BY ConstantsOk, InitKeeps
<1>2. IInv /\ [Next]_vars => IInv'
  BY ConstantsOk, NextKeeps
<1> QED
  BY <1>1, <1>2, PTL DEF Spec

(* TypeOK, for any calls, jobs, rotation of keys and max-ages.             *)
THEOREM TypeCorrect == Spec => []TypeOK
  BY CertificateAgeBounded, PTL DEF IInv

-----------------------------------------------------------------------------
(* The verdicts.                                                           *)

(* A step that ends a verification is UseCerts, and its verdict is that of *)
(* the checks.                                                             *)
LEMMA VerdictIsOfChecks ==
  ASSUME IInv, Next, NEW c \in Call,
         pc[c] = "using", pc'[c] \in {"ticket"} \union Checks
  PROVE  /\ pc'[c] = verifySignedJwtWithCerts(work[c], minted[c], certs[c])
         /\ work[c] \in Jobs /\ minted[c] \in Nat /\ minted[c] <= now
         /\ certs[c] \in Nat /\ certs[c] <= now
         /\ now <= certs[c] + MaxMaxAge + MaxLatency
<1>1. /\ work[c] \in Jobs /\ minted[c] \in Nat /\ minted[c] <= now
      /\ certs[c] \in Nat /\ certs[c] <= now
      /\ now <= certs[c] + MaxMaxAge + MaxLatency
  BY DEF IInv, TypeOK, CertsOK, WorkOK
<1>2. UseCerts(c)
  <2>1. pc'[c] # pc[c]
    BY DEF Checks
  <2>2. ASSUME NEW d \in Call, Begin(d) PROVE FALSE
    BY <2>1, <2>2 DEF Begin, Goto, IInv, TypeOK
  <2>3. ASSUME NEW d \in Call, Step(d) PROVE UseCerts(c)
    BY <2>1, <2>3 DEF Step, Ready, UseCerts, EndpointAnswers, CertsArrive, FetchFails,
                      Goto, IInv, TypeOK
  <2> QED
    BY <2>1, <2>2, <2>3 DEF Next, Tick
<1>3. pc'[c] = verifySignedJwtWithCerts(work[c], minted[c], certs[c])
  BY <1>2 DEF UseCerts, Goto, IInv, TypeOK, Checks
<1> QED
  BY <1>1, <1>3

(* No ticket for a token whose key was withdrawn longer ago than an answer *)
(* may be cached and under way, whatever the fetches that overlap.         *)
THEOREM NoTicketForWithdrawnKeys == Spec => WithdrawnKeysExpire
<1>1. ASSUME IInv, Next, NEW c \in Call, Verified(c, {"ticket"})
      PROVE  \E t \in (now - MaxMaxAge - MaxLatency) .. now :
               SigningKey(minted[c]) \in Published(t)
  <2>1. /\ verifySignedJwtWithCerts(work[c], minted[c], certs[c]) = "ticket"
        /\ work[c] \in Jobs /\ certs[c] \in Nat /\ certs[c] <= now
        /\ now <= certs[c] + MaxMaxAge + MaxLatency
    BY <1>1, VerdictIsOfChecks DEF Verified
  <2>2. Failing(work[c], minted[c], certs[c]) = {}
    BY <2>1, ConstantsOk, VerdictType
  <2>3. SigningKey(minted[c]) \in Published(certs[c])
    BY <2>2 DEF Failing
  <2>4. certs[c] \in (now - MaxMaxAge - MaxLatency) .. now
    BY <1>1, <2>1, ConstantsOk DEF ConstantsOk, IInv, TypeOK
  <2> QED
    BY <2>3, <2>4
<1>2. IInv /\ [Next]_vars =>
        [\A c \in Call : Verified(c, {"ticket"}) =>
           \E t \in (now - MaxMaxAge - MaxLatency) .. now :
             SigningKey(minted[c]) \in Published(t)]_vars
  BY <1>1
<1> QED
  BY <1>2, CertificateAgeBounded, PTL DEF Spec, WithdrawnKeysExpire

(* A genuine token within its lifetime is never turned down.               *)
THEOREM GenuineTokensGetTickets == Spec => GenuineTokensAccepted
<1>1. ASSUME IInv, Next, NEW c \in Call, Verified(c, Checks),
             now <= minted[c] + TokenLife
      PROVE  work[c].defects # {}
  <2>1. /\ verifySignedJwtWithCerts(work[c], minted[c], certs[c]) \in Checks
        /\ work[c] \in Jobs /\ minted[c] \in Nat /\ minted[c] <= now
        /\ certs[c] \in Nat /\ certs[c] <= now
        /\ now <= certs[c] + MaxMaxAge + MaxLatency
    BY <1>1, VerdictIsOfChecks DEF Verified
  <2>2. Failing(work[c], minted[c], certs[c]) # {}
    BY <2>1, ConstantsOk, VerdictType DEF Checks
  <2>3. minted[c] \in (certs[c] - Retain) .. (certs[c] + Lead)
    BY <1>1, <2>1, ConstantsOk, KeysOutliveTokens
       DEF ConstantsOk, KeysOutliveTokens, IInv, TypeOK
  <2>4. SigningKey(minted[c]) \in Published(certs[c])
    BY <2>3 DEF Published
  <2> QED
    BY <2>2, <2>4 DEF Failing
<1>2. IInv /\ [Next]_vars =>
        [\A c \in Call :
           /\ Verified(c, Checks)
           /\ now <= minted[c] + TokenLife
           => work[c].defects # {}]_vars
  BY <1>1
<1> QED
  BY <1>2, CertificateAgeBounded, PTL DEF Spec, GenuineTokensAccepted

(* No claim is judged of a token whose signature is wrong.                 *)
THEOREM SignatureBeforeClaims == Spec => ClaimsAreReadVerified
<1>1. ASSUME IInv, Next, NEW c \in Call, Verified(c, Claims)
      PROVE  work[c].defects \intersect
               {"segments", "envelope", "payload", "signature"} = {}
  <2> DEFINE failing == Failing(work[c], minted[c], certs[c])
  <2>1. Claims \subseteq Checks /\ "ticket" \notin Checks
    BY DEF Claims, Checks
  <2>2. /\ verifySignedJwtWithCerts(work[c], minted[c], certs[c]) \in Claims
        /\ work[c] \in Jobs
    BY <1>1, <2>1, VerdictIsOfChecks DEF Verified
  <2>3. failing \in SUBSET Checks /\ failing # {}
    BY <2>1, <2>2, ConstantsOk, VerdictType
  <2>4. First(failing) \in Claims
    BY <2>2, <2>3 DEF verifySignedJwtWithCerts
  <2>5. \A j \in failing : Order[First(failing)] <= Order[j]
    BY <2>3, FirstIsLeast
  <2>6. Order[First(failing)] \in 6 .. 11
    BY <2>4 DEF Claims, Order
  <2>7. ASSUME NEW k \in {"segments", "envelope", "payload", "signature"},
               k \in failing
        PROVE  FALSE
    <3>1. Order[k] \in 1 .. 5
      BY DEF Order
    <3>2. Order[First(failing)] <= Order[k]
      BY <2>5, <2>7
    <3> QED
      BY <2>6, <3>1, <3>2
  <2> QED
    BY <2>7 DEF Failing
<1>2. IInv /\ [Next]_vars =>
        [\A c \in Call : Verified(c, Claims) =>
           work[c].defects \intersect {"segments", "envelope", "payload", "signature"} = {}]_vars
  BY <1>1
<1> QED
  BY <1>2, CertificateAgeBounded, PTL DEF Spec, ClaimsAreReadVerified
=============================================================================
