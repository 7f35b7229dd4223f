-------------------------- MODULE GoogleAuthProofs --------------------------
(***************************************************************************)
(* Theorems about EnvDetect and GoogleAuth.                                *)
(***************************************************************************)
EXTENDS GoogleAuth, TLAPS

-----------------------------------------------------------------------------
(* The detection of the environment.                                       *)

LEMMA EnvTypeInit == EnvInit => EnvTypeOK
BY MachinesOk DEF EnvInit, EnvTypeOK

LEMMA EnvTypeNext == EnvTypeOK /\ [EnvNext]_envDetectVars => EnvTypeOK'
<1> SUFFICES ASSUME EnvTypeOK, [EnvNext]_envDetectVars
             PROVE  EnvTypeOK'
  OBVIOUS
<1> USE DEF EnvTypeOK
<1>1. CASE UNCHANGED envDetectVars
  BY <1>1 DEF envDetectVars
<1>2. CASE clear
  BY <1>2 DEF clear
<1>3. ASSUME NEW c \in Caller, getEnv(c)
      PROVE  EnvTypeOK'
  <2>1. getEnvMemoized \in {"APP_ENGINE", "CLOUD_FUNCTIONS", "isComputeEngine"}
    BY DEF getEnvMemoized
  <2>2. ASSUME NEW d \in Caller
        PROVE  [by |-> d, at |-> clears] \in [by : Caller, at : Nat]
    OBVIOUS
  <2> QED BY <1>3, <2>1, <2>2, MachinesOk DEF getEnv, Join, GCPEnv, Outcome
<1>4. ASSUME NEW c \in Caller, EnvAnswers(c)
      PROVE  EnvTypeOK'
  <2>1. PICK result \in Outcome \union {"isKubernetesEngine"} : Detect(c, result)
    BY <1>4 DEF EnvAnswers, isComputeEngine, isKubernetesEngine, Outcome, GCPEnv
  <2> QED BY <2>1 DEF Detect
<1> QED BY <1>1, <1>2, <1>3, <1>4 DEF EnvNext

(* A detection belongs to the callers that joined it between two clears;   *)
(* the one that is kept was started since the last clear.                  *)
Joined(c) == joined[c] # None

EnvInv ==
  /\ \A c \in Caller : Joined(c) =>
       /\ joined[c].at =< clears
       /\ joined[joined[c].by] = joined[c]
       /\ joined[c].at = clears => envPromise = joined[c].by
  /\ \A c, d \in Caller :
       Joined(c) /\ Joined(d) /\ joined[c].at = joined[d].at => joined[c].by = joined[d].by
  /\ envPromise # None => joined[envPromise] = [by |-> envPromise, at |-> clears]

LEMMA EnvInvInit == EnvInit => EnvInv
BY DEF EnvInit, EnvInv, Joined

LEMMA EnvInvNext == EnvTypeOK /\ EnvInv /\ [EnvNext]_envDetectVars => EnvInv'
<1> SUFFICES ASSUME EnvTypeOK, EnvInv, [EnvNext]_envDetectVars
             PROVE  EnvInv'
  OBVIOUS
<1>1. CASE UNCHANGED <<clears, envPromise, joined>>
  BY <1>1 DEF EnvInv, Joined
<1>2. CASE clear
  BY <1>2 DEF clear, EnvInv, Joined, EnvTypeOK
<1>3. ASSUME NEW c \in Caller, getEnv(c)
      PROVE  EnvInv'
  <2>1. PICK d \in Caller :
          /\ joined' = [joined EXCEPT ![c] = [by |-> d, at |-> clears]]
          /\ envPromise' = d /\ clears' = clears
          /\ d = envPromise \/ (d = c /\ envPromise = None)
    BY <1>3 DEF getEnv, Join, EnvTypeOK
  <2> DEFINE new == [by |-> d, at |-> clears]
  <2>2. new # None /\ new.by = d /\ new.at = clears
    BY NoneIsNoOutcome DEF EnvTypeOK
  <2> HIDE DEF new
  <2>3. /\ joined[c] = None
        /\ joined'[c] = new
        /\ \A e \in Caller : e # c => joined'[e] = joined[e]
    BY <1>3, <2>1 DEF getEnv, EnvTypeOK, new
  <2>4. \A e \in Caller : Joined(e) => joined[e].by # c /\ joined[e].by \in Caller
    BY <2>3, NoneIsNoOutcome DEF EnvInv, Joined, EnvTypeOK
  <2>5. joined'[d] = new
    BY <2>1, <2>2, <2>3, MachinesOk DEF EnvInv, new
  <2>6. \A e \in Caller : Joined(e) /\ joined[e].at = clears => joined[e].by = d
    BY <2>1, <2>4, MachinesOk DEF EnvInv
  <2>7. ASSUME NEW e \in Caller, joined'[e] # None
        PROVE  /\ joined'[e].at =< clears
               /\ joined'[joined'[e].by] = joined'[e]
               /\ joined'[e].at = clears => d = joined'[e].by
    <3>1. CASE e = c
      BY <3>1, <2>2, <2>3, <2>5 DEF EnvTypeOK
    <3>2. CASE e # c
      BY <3>2, <2>3, <2>4, <2>6, <2>7 DEF EnvInv, Joined
    <3> QED BY <3>1, <3>2
  <2>8. ASSUME NEW e \in Caller, NEW f \in Caller, joined'[e] # None, joined'[f] # None,
               joined'[e].at = joined'[f].at
        PROVE  joined'[e].by = joined'[f].by
    <3>1. CASE e # c /\ f # c
      BY <3>1, <2>3, <2>8 DEF EnvInv, Joined
    <3>2. CASE e = c \/ f = c
      BY <3>2, <2>2, <2>3, <2>7, <2>8
    <3> QED BY <3>1, <3>2
  <2> QED BY <2>1, <2>5, <2>7, <2>8 DEF EnvInv, Joined, new
<1>4. ASSUME NEW c \in Caller, EnvAnswers(c)
      PROVE  EnvInv'
  BY <1>1, <1>4 DEF EnvAnswers, isComputeEngine, isKubernetesEngine, Detect
<1> QED BY <1>1, <1>2, <1>3, <1>4 DEF EnvNext, envDetectVars

LEMMA EnvInvImplies == EnvTypeOK /\ EnvInv => OneEnvironment
<1> SUFFICES ASSUME EnvTypeOK, EnvInv, NEW c \in Caller, NEW d \in Caller,
                    Answer(c) \in Outcome, Answer(d) \in Outcome,
                    joined[c].at = joined[d].at
             PROVE  Answer(c) = Answer(d)
  BY DEF OneEnvironment
<1>1. Joined(c) /\ Joined(d)
  BY NoneIsNoOutcome DEF Answer, Joined
<1>2. joined[c].by = joined[d].by
  BY <1>1 DEF EnvInv
<1> QED BY <1>1, <1>2 DEF Answer, Joined

(* GoogleAuth.getEnv is the detection of envDetect.ts, whatever else the   *)
(* calls of GoogleAuth do meanwhile.                                       *)
LEMMA EnvStepOrNot == [Next]_vars => [EnvNext]_envDetectVars
<1> SUFFICES ASSUME [Next]_vars
             PROVE  [EnvNext]_envDetectVars
  OBVIOUS
<1>1. CASE UNCHANGED vars
  BY <1>1 DEF vars, given
<1>2. ASSUME NEW c \in Call, Begin(c) \/ GetEnv(c) \/ Step(c)
      PROVE  [EnvNext]_envDetectVars
  BY <1>2, ScenariosOk
     DEF Begin, GetEnv, Step, ProjectSettled, FileRead, FileError, IsAvailable,
         IsAvailableThrows, AccountRead, ClientAnswers, EnvStep, given, EnvNext
<1>3. ASSUME NEW d \in Detections, DetectionStep(d)
      PROVE  [EnvNext]_envDetectVars
  BY <1>3 DEF DetectionStep, DetectionStarts, DetectionFileRead, FileError, GcloudEnds,
              MetadataProject, ExternalProject, given
<1>4. CASE Clear
  BY <1>4 DEF Clear, EnvNext
<1> QED BY <1>1, <1>2, <1>3, <1>4 DEF Next

(* GoogleAuth implements the environment detection on its own.             *)
THEOREM DetectsEnvironment == Spec => EnvSpec
BY EnvStepOrNot, PTL DEF Spec, Init, EnvSpec

(* All callers between two calls of clear get one environment, for any     *)
(* number of callers, clears and machines.                                 *)
THEOREM OneEnvironmentCorrect == Spec => []OneEnvironment
<1>1. EnvSpec => []OneEnvironment
  BY EnvTypeInit, EnvTypeNext, EnvInvInit, EnvInvNext, EnvInvImplies, PTL DEF EnvSpec
<1> QED BY <1>1, DetectsEnvironment, PTL

(* The memoised promise of the environment, in the terms of EnvDetect.     *)
AskedIn == [c \in Caller |-> IF joined[c] = None THEN None ELSE joined[c].at]
Told(c) == Answer(c) \in Outcome
EndedAs == {<<joined[c].at, Answer(c)>> : c \in {d \in Caller : Told(d)}}
ToldOf == [c \in Caller |-> IF Told(c) THEN Answer(c) ELSE None]

EnvMemoStep ==
  \/ clears' = clears + 1 /\ UNCHANGED <<AskedIn, EndedAs, ToldOf>>
  \/ /\ UNCHANGED clears
     /\ \/ UNCHANGED AskedIn
        \/ \E c \in Caller : AskedIn[c] = None /\ AskedIn' = [AskedIn EXCEPT ![c] = clears]
     /\ \/ UNCHANGED EndedAs
        \/ \E e \in 0..clears, r \in Outcome :
             /\ \A q \in Outcome : <<e, q>> \notin EndedAs
             /\ EndedAs' = EndedAs \union {<<e, r>>}
     /\ \A c \in Caller : ToldOf'[c] # ToldOf[c] =>
          ToldOf[c] = None /\ <<AskedIn'[c], ToldOf'[c]>> \in EndedAs'

LEMMA EnvMemoSteps == EnvMemoStep => EnvMemo!Next
BY DEF EnvMemoStep, EnvMemo!Next, EnvMemo!Forget, EnvMemo!Ask, EnvMemo!End, EnvMemo!Tell,
       AskedIn, EndedAs, ToldOf, Told

LEMMA EnvMemoInit == EnvInit => EnvMemo!Init
<1> SUFFICES ASSUME EnvInit
             PROVE  EnvMemo!Init
  OBVIOUS
<1>1. \A c \in Caller : joined[c] = None /\ Answer(c) = None /\ Answer(c) \notin Outcome
  BY NoneIsNoOutcome DEF EnvInit, Answer
<1> QED BY <1>1 DEF EnvInit, EnvMemo!Init

(* A detection goes on or ends, and whoever has joined it is told.         *)
LEMMA DetectStep ==
  ASSUME EnvTypeOK, EnvInv, NEW c \in Caller, NEW result,
         Detect(c, result), detection[c] \notin Outcome
  PROVE  EnvMemoStep
<1>1. /\ detection'[c] = result
      /\ \A d \in Caller : d # c => detection'[d] = detection[d]
      /\ UNCHANGED <<machine, clears, envPromise, joined>>
  BY DEF Detect, EnvTypeOK
<1>2. AskedIn' = AskedIn
  BY <1>1 DEF AskedIn
<1>3. \A d \in Caller : joined[d] # None /\ joined[d].by = c =>
        ~Told(d) /\ Answer(d)' = result
  BY <1>1 DEF Told, Answer
<1>4. \A d \in Caller : ~(joined[d] # None /\ joined[d].by = c) => Answer(d)' = Answer(d)
  BY <1>1 DEF Answer, EnvTypeOK
<1>5. CASE \E d \in Caller : joined[d] # None /\ joined[d].by = c /\ result \in Outcome
  <2>1. PICK d \in Caller : joined[d] # None /\ joined[d].by = c
    BY <1>5
  <2> DEFINE e == joined[d].at
  <2>2. e \in 0..clears
    BY <2>1 DEF EnvInv, Joined, EnvTypeOK
  <2>3. \A f \in Caller : joined[f] # None =>
          (joined[f].at = e <=> joined[f].by = c)
    BY <2>1 DEF EnvInv, Joined
  <2>4. \A q \in Outcome : <<e, q>> \notin EndedAs
    BY <1>3, <2>3, NoneIsNoOutcome DEF EndedAs, Told, Answer
  <2>5. ASSUME NEW x
        PROVE  x \in EndedAs' <=> x \in EndedAs \union {<<e, result>>}
    <3>1. x \in EndedAs' <=> \E f \in Caller : Told(f)' /\ x = <<joined'[f].at, Answer(f)'>>
      BY DEF EndedAs
    <3>2. x \in EndedAs <=> \E f \in Caller : Told(f) /\ x = <<joined[f].at, Answer(f)>>
      BY DEF EndedAs
    <3>3. \A f \in Caller : (joined[f] # None /\ joined[f].by = c) =>
            Told(f)' /\ ~Told(f) /\ <<joined'[f].at, Answer(f)'>> = <<e, result>>
      BY <1>1, <1>3, <1>5, <2>3 DEF Told
    <3>4. \A f \in Caller : ~(joined[f] # None /\ joined[f].by = c) =>
            (Told(f)' <=> Told(f)) /\ <<joined'[f].at, Answer(f)'>> = <<joined[f].at, Answer(f)>>
      BY <1>1, <1>4 DEF Told
    <3> QED BY <2>1, <3>1, <3>2, <3>3, <3>4
  <2>6. EndedAs' = EndedAs \union {<<e, result>>}
    BY <2>5
  <2>7. ASSUME NEW f \in Caller, ToldOf'[f] # ToldOf[f]
        PROVE  ToldOf[f] = None /\ <<AskedIn'[f], ToldOf'[f]>> \in EndedAs'
    <3>1. joined[f] # None /\ joined[f].by = c
      BY <1>4, <2>7 DEF ToldOf, Told
    <3>2. ToldOf[f] = None /\ Told(f)'
      BY <1>3, <1>5, <3>1 DEF ToldOf, Told
    <3> QED BY <3>2, NoneIsNoOutcome DEF Told, AskedIn, ToldOf, EndedAs, Answer
  <2> QED BY <1>1, <1>2, <1>5, <2>2, <2>4, <2>6, <2>7 DEF EnvMemoStep
<1>6. CASE ~\E d \in Caller : joined[d] # None /\ joined[d].by = c /\ result \in Outcome
  <2>1. \A d \in Caller : (Told(d)' <=> Told(d)) /\ (Told(d) => Answer(d)' = Answer(d))
    BY <1>3, <1>4, <1>6 DEF Told
  <2>2. ToldOf' = ToldOf /\ EndedAs' = EndedAs
    BY <1>1, <2>1 DEF ToldOf, EndedAs
  <2> QED BY <1>1, <1>2, <2>2 DEF EnvMemoStep
<1> QED BY <1>5, <1>6

LEMMA GetEnvStep ==
  ASSUME EnvTypeOK, EnvInv, NEW c \in Caller, getEnv(c)
  PROVE  EnvMemoStep
<1>1. PICK d \in Caller :
        /\ joined' = [joined EXCEPT ![c] = [by |-> d, at |-> clears]]
        /\ \/ d = envPromise /\ detection' = detection
           \/ /\ d = c /\ envPromise = None
              /\ detection' = [detection EXCEPT ![c] = getEnvMemoized]
  BY DEF getEnv, Join, EnvTypeOK
<1> DEFINE new == [by |-> d, at |-> clears]
<1>2. new # None /\ new.by = d /\ new.at = clears
  BY NoneIsNoOutcome DEF EnvTypeOK
<1> HIDE DEF new
<1>3. /\ joined[c] = None /\ joined'[c] = new
      /\ \A e \in Caller : e # c => joined'[e] = joined[e]
      /\ UNCHANGED clears /\ clears \in Nat
  BY <1>1 DEF getEnv, EnvTypeOK, new
<1>4. AskedIn[c] = None /\ AskedIn' = [AskedIn EXCEPT ![c] = clears]
  BY <1>2, <1>3 DEF AskedIn
<1>5. Answer(c) = None /\ ~Told(c) /\ ToldOf[c] = None
  BY <1>3, NoneIsNoOutcome DEF Told, ToldOf, Answer
<1>6. ASSUME NEW e \in Caller, e # c
      PROVE  /\ Answer(e)' = Answer(e) /\ (Told(e)' <=> Told(e)) /\ ToldOf'[e] = ToldOf[e]
             /\ joined'[e] = joined[e]
  <2>1. joined[e] # None => joined[e].by # c /\ joined[e].by \in Caller
    BY <1>3, NoneIsNoOutcome DEF EnvInv, Joined, EnvTypeOK
  <2>2. joined[e] # None => detection'[joined[e].by] = detection[joined[e].by]
    BY <1>1, <2>1 DEF EnvTypeOK
  <2>3. Answer(e)' = Answer(e)
    BY <1>3, <1>6, <2>2 DEF Answer
  <2> QED BY <1>3, <1>6, <2>3 DEF Told, ToldOf
<1>7. Answer(c)' = detection'[d]
  BY <1>2, <1>3 DEF Answer
<1>8. ASSUME NEW x
      PROVE  x \in EndedAs' <=> x \in EndedAs \/ (Told(c)' /\ x = <<clears, detection'[d]>>)
  <2>1. x \in EndedAs' <=> \E f \in Caller : Told(f)' /\ x = <<joined'[f].at, Answer(f)'>>
    BY DEF EndedAs
  <2>2. x \in EndedAs <=> \E f \in Caller : Told(f) /\ x = <<joined[f].at, Answer(f)>>
    BY DEF EndedAs
  <2>3. <<joined'[c].at, Answer(c)'>> = <<clears, detection'[d]>>
    BY <1>2, <1>3, <1>7
  <2> QED BY <1>5, <1>6, <2>1, <2>2, <2>3
<1>9. EndedAs' = EndedAs
      \/ \E e \in 0..clears, r \in Outcome :
           /\ \A q \in Outcome : <<e, q>> \notin EndedAs
           /\ EndedAs' = EndedAs \union {<<e, r>>}
  <2>1. CASE ~Told(c)'
    <3>1. \A x : x \in EndedAs' <=> x \in EndedAs
      BY <1>8, <2>1
    <3> QED BY <3>1
  <2>2. CASE Told(c)' /\ d = envPromise /\ detection' = detection
    <3>1. joined[d] = [by |-> d, at |-> clears]
      BY <2>2, MachinesOk DEF EnvInv
    <3>2. joined[d].by = d /\ joined[d].at = clears /\ joined[d] # None
      BY <3>1, <1>2 DEF new
    <3>3. Answer(d) = detection[d] /\ Told(d)
      BY <1>7, <2>2, <3>2 DEF Answer, Told
    <3>4. <<clears, detection[d]>> \in EndedAs
      BY <3>2, <3>3 DEF EndedAs
    <3>5. \A x : x \in EndedAs' <=> x \in EndedAs
      BY <1>8, <2>2, <3>4
    <3> QED BY <3>5
  <2>3. CASE Told(c)' /\ d = c /\ envPromise = None
    <3>1. \A e \in Caller : joined[e] # None => joined[e].at # clears
      BY <2>3, MachinesOk, NoneIsNoOutcome DEF EnvInv, Joined, EnvTypeOK
    <3>2. \A q \in Outcome : <<clears, q>> \notin EndedAs
      BY <3>1, NoneIsNoOutcome DEF EndedAs, Told, Answer
    <3>3. EndedAs' = EndedAs \union {<<clears, detection'[d]>>}
      BY <1>8, <2>3
    <3>4. detection'[d] \in Outcome /\ clears \in 0..clears
      BY <1>3, <1>7, <2>3 DEF Told
    <3> QED BY <3>2, <3>3, <3>4
  <2> QED BY <1>1, <2>1, <2>2, <2>3
<1>10. ASSUME NEW f \in Caller, ToldOf'[f] # ToldOf[f]
       PROVE  ToldOf[f] = None /\ <<AskedIn'[f], ToldOf'[f]>> \in EndedAs'
  <2>1. f = c
    BY <1>6, <1>10
  <2>2. Told(f)'
    BY <1>5, <1>10, <2>1 DEF ToldOf, Told
  <2> QED BY <1>5, <2>1, <2>2, NoneIsNoOutcome DEF Told, AskedIn, ToldOf, EndedAs, Answer
<1> QED BY <1>3, <1>4, <1>9, <1>10 DEF EnvMemoStep

LEMMA EnvMemoNext ==
  EnvTypeOK /\ EnvInv /\ [EnvNext]_envDetectVars => [EnvMemo!Next]_(EnvMemo!vars)
<1> SUFFICES ASSUME EnvTypeOK, EnvInv, [EnvNext]_envDetectVars
             PROVE  [EnvMemo!Next]_(EnvMemo!vars)
  OBVIOUS
<1>1. CASE UNCHANGED envDetectVars
  <2>1. /\ UNCHANGED clears
        /\ AskedIn' = AskedIn /\ EndedAs' = EndedAs /\ ToldOf' = ToldOf
    BY <1>1 DEF envDetectVars, AskedIn, EndedAs, ToldOf, Told, Answer
  <2> QED BY <2>1 DEF EnvMemo!vars, AskedIn, EndedAs, ToldOf, Told
<1>2. CASE clear
  <2>1. AskedIn' = AskedIn /\ EndedAs' = EndedAs /\ ToldOf' = ToldOf
    BY <1>2 DEF clear, AskedIn, EndedAs, ToldOf, Told, Answer
  <2> QED BY <1>2, <2>1, EnvMemoSteps DEF clear, EnvMemoStep
<1>3. ASSUME NEW c \in Caller, EnvAnswers(c)
      PROVE  EnvMemo!Next
  <2>1. detection[c] \notin Outcome
    BY <1>3 DEF EnvAnswers, isComputeEngine, isKubernetesEngine, Outcome, GCPEnv
  <2>2. \E result : Detect(c, result)
    BY <1>3 DEF EnvAnswers, isComputeEngine, isKubernetesEngine
  <2> QED BY <2>1, <2>2, DetectStep, EnvMemoSteps
<1> QED BY <1>1, <1>2, <1>3, GetEnvStep, EnvMemoSteps DEF EnvNext

(* What getEnv tells its callers is, between two clears, what one          *)
(* detection has ended with, for any number of callers and clears.         *)
THEOREM MemoisesEnvironment == Spec => EnvMemoised
<1>1. EnvSpec => EnvMemo!Spec
  BY EnvTypeInit, EnvTypeNext, EnvInvInit, EnvInvNext, EnvMemoInit, EnvMemoNext, PTL
     DEF EnvSpec, EnvMemo!Spec
<1> QED BY <1>1, DetectsEnvironment, PTL DEF EnvMemoised

-----------------------------------------------------------------------------
(* Type correctness.  A call that waits for the project id, or for what    *)
(* comes after it, holds a cached client: without that, sign would have    *)
(* none to sign with.                                                      *)

CacheOK ==
  /\ cachedCredential \in Client \union {None}
  /\ jsonContent \in [from : Sources, json : Json] \union {None}

ProjectOK ==
  /\ cachedProjectId \in ProjectIds \union {None}
  /\ promise \in Detections \union {None}
  /\ outcome \in [Detections -> ProjectIds \union {"pending", "rejected"}]
  /\ pc \in [Actor -> Labels]
  /\ wait \in [Actor -> Detections \union {None}]

ResultsOK ==
  /\ returned \in [Call -> [client : Client \union {None},
                            project : ProjectIds \union {None}]]
  /\ signed \in [Call -> [account : Sources \union {"gce"},
                          by : Sources \union {"gce"}] \union {None}]

WithClient == {"project", "signProject", "probingForAccount", "account"}

(* A call of a method that searches, or of getApplicationDefault, which    *)
(* waits for the project id or for the metadata server's account, finds a  *)
(* client in cachedCredential when it goes on.                             *)
HasClient ==
  \A c \in Call :
    pc[Me(c)] \in WithClient /\ ~(pc[Me(c)] = "project" /\ method[c] = "getProjectId")
    => cachedCredential # None

SearchInv == TypeOK /\ HasClient

LEMMA TypeParts ==
  TypeOK <=> /\ EnvTypeOK /\ env \in Environment
             /\ method \in [Call -> AllMethods \union {"getEnv", None}]
             /\ checkIsGCE \in BOOLEAN \union {None}
             /\ CacheOK /\ ProjectOK /\ ResultsOK
BY DEF TypeOK, CacheOK, ProjectOK, ResultsOK

(* The actors of a call.                                                   *)
LEMMA Actors ==
  /\ \A c \in Call : Me(c) \in Actor /\ Me(c) \notin Detections
                     /\ Detection(Me(c)) \in Detections /\ Detection(Me(c)) # Me(c)
  /\ \A c, d \in Call : Me(c) = Me(d) => c = d
  /\ Detections \subseteq Actor
  /\ \A d \in Detections, c \in Call : d # Me(c)
BY DEF Me, Detection, Detections, Actor

LEMMA SearchInit == Init => SearchInv
<1> SUFFICES ASSUME Init
             PROVE  SearchInv
  OBVIOUS
<1>1. PICK s \in Scenarios : env = s.env /\ method = s.method /\ machine = s.machine
  BY DEF Init
<1>2. s.env \in Environment /\ s.method \in [Call -> AllMethods \union {"getEnv", None}]
  BY ScenariosOk DEF Scenario
<1>3. CacheOK
  BY <1>1, <1>2 DEF Init, CacheOK, Environment, Sources
<1>4. ProjectOK
  BY DEF Init, ProjectOK, ProjectIds, Labels
<1>5. ResultsOK
  BY DEF Init, ResultsOK
<1>6. EnvTypeOK /\ checkIsGCE \in BOOLEAN \union {None}
  BY EnvTypeInit DEF Init
<1>7. HasClient
  BY Actors DEF Init, HasClient, WithClient
<1> QED BY <1>1, <1>2, <1>3, <1>4, <1>5, <1>6, <1>7, TypeParts DEF SearchInv

(* A step by which an actor goes to a label, for the labels it may have.   *)
LEMMA GotoOK ==
  ASSUME ProjectOK, NEW a \in Actor, NEW label \in Labels, Goto(a, label)
  PROVE  pc' \in [Actor -> Labels] /\ pc'[a] = label
         /\ \A b \in Actor : b # a => pc'[b] = pc[b]
BY DEF ProjectOK, Goto

LEMMA AskOK ==
  ASSUME ProjectOK, NEW c \in Call, NEW label \in Labels, getProjectIdAsync(Me(c), label)
  PROVE  /\ ProjectOK'
         /\ pc'[Me(c)] = label
         /\ \A e \in Call : e # c => pc'[Me(e)] = pc[Me(e)]
<1>1. CASE cachedProjectId # None \/ promise # None
  BY <1>1, Actors DEF getProjectIdAsync, ProjectOK, Goto, projectVars
<1>2. CASE ~(cachedProjectId # None \/ promise # None)
  BY <1>2, Actors DEF getProjectIdAsync, ProjectOK, Labels
<1> QED BY <1>1, <1>2

(* What a step of a call does to the state it shares with the others.      *)
CallOK(c) ==
  /\ ProjectOK' /\ ResultsOK'
  /\ \A e \in Call : e # c => pc'[Me(e)] = pc[Me(e)]

LEMMA PlainOK ==
  ASSUME ProjectOK, ResultsOK, NEW c \in Call, NEW label \in Labels,
         Await(Me(c), label)
  PROVE  CallOK(c) /\ pc'[Me(c)] = label
BY Actors, GotoOK DEF Await, ProjectOK, ResultsOK, CallOK, callVars, projectVars

LEMMA FailOK ==
  ASSUME ProjectOK, ResultsOK, NEW c \in Call, Fail(Me(c))
  PROVE  CallOK(c) /\ pc'[Me(c)] = "failed"
BY PlainOK DEF Fail, Await, Labels, Settled

LEMMA HoldOK ==
  ASSUME ProjectOK, ResultsOK, NEW c \in Call, NEW client \in Client \union {None},
         HoldAndAskProject(c, client)
  PROVE  CallOK(c) /\ pc'[Me(c)] = "project"
<1>1. ResultsOK'
  BY DEF HoldAndAskProject, ResultsOK
<1> QED BY <1>1, AskOK DEF HoldAndAskProject, CallOK, Labels

LEMMA ReadyOK ==
  ASSUME ProjectOK, ResultsOK, checkIsGCE \in BOOLEAN \union {None},
         NEW c \in Call, NEW m, NEW client \in Client, NEW json,
         ClientReady(c, m, client, json)
  PROVE  CallOK(c) /\ pc'[Me(c)] \in WithClient \union {"done", "failed", "delegated"}
<1>1. returned' \in [Call -> [client : Client \union {None}, project : ProjectIds \union {None}]]
  BY DEF ClientReady, ResultsOK
<1>2. CASE m # "sign"
  <2>1. AfterClient(m, client, json) \in Labels
        /\ AfterClient(m, client, json) \in WithClient \union {"done", "failed", "delegated"}
    BY DEF AfterClient, AccountOfGCE, Labels, Settled, WithClient
  <2>2. Goto(Me(c), AfterClient(m, client, json)) /\ UNCHANGED <<wait, signed, projectVars>>
    BY <1>2 DEF ClientReady
  <2>3. ProjectOK'
    BY <2>1, <2>2, Actors, GotoOK DEF ProjectOK, projectVars
  <2>4. ResultsOK'
    BY <1>1, <2>2 DEF ResultsOK
  <2> QED BY <2>1, <2>2, <2>3, <2>4, Actors, GotoOK DEF CallOK
<1>3. CASE m = "sign" /\ HoldsKey(client)
  <2>1. /\ Goto(Me(c), "done")
        /\ signed' = [signed EXCEPT ![c] = [account |-> client.from, by |-> client.from]]
        /\ UNCHANGED <<wait, projectVars>>
    BY <1>3 DEF ClientReady, SignWith
  <2>2. ProjectOK'
    BY <2>1, Actors, GotoOK DEF ProjectOK, projectVars, Labels, Settled
  <2>3. ResultsOK'
    BY <1>1, <2>1 DEF ResultsOK, Client
  <2> QED BY <2>1, <2>2, <2>3, Actors, GotoOK DEF CallOK, Labels, Settled
<1>4. CASE m = "sign" /\ ~HoldsKey(client)
  <2>1. getProjectIdAsync(Me(c), "signProject") /\ UNCHANGED signed
    BY <1>4 DEF ClientReady, SignWith
  <2>2. ResultsOK'
    BY <1>1, <2>1 DEF ResultsOK
  <2> QED BY <2>1, <2>2, AskOK DEF CallOK, Labels, WithClient
<1> QED BY <1>2, <1>3, <1>4

LEMMA ClientOfOK ==
  \A s \in Sources \union {"gce"}, j \in Json \union {None},
     o \in {"clientOptions", "argument", "none"} :
    ClientOf(s, j, o) \in Client /\ ClientOf(s, j, o) # None
BY NoneIsNew DEF ClientOf, Client

LEMMA OptionsForOK == \A m : OptionsFor(m) \in {"clientOptions", "argument", "none"}
BY DEF OptionsFor

LEMMA CachedFromJson ==
  ASSUME CacheOK, NEW source \in Sources, NEW json \in Json,
         NEW options \in {"clientOptions", "argument", "none"},
         cacheClientFromJSON(source, json, options)
  PROVE  CacheOK' /\ cachedCredential' \in Client /\ cachedCredential' # None
BY ClientOfOK DEF CacheOK, cacheClientFromJSON

(* getApplicationDefaultAsync and getClient, as far as they go.            *)
CallStep(c) ==
  /\ CacheOK' /\ CallOK(c)
  /\ cachedCredential # None => cachedCredential' # None
  /\ pc'[Me(c)] \in WithClient => cachedCredential' # None

LEMMA ComputeOK ==
  ASSUME CacheOK, ProjectOK, ResultsOK, NEW c \in Call, NEW m, NEW isGCE \in BOOLEAN,
         ComputeOrFail(c, m, isGCE)
  PROVE  CallStep(c)
<1>1. CASE isGCE
  <2>1. /\ cachedCredential' = ClientOf("gce", None, OptionsFor(m))
        /\ HoldAndAskProject(c, None)
        /\ UNCHANGED jsonContent
    BY <1>1 DEF ComputeOrFail
  <2>2. CacheOK' /\ cachedCredential' # None
    BY <2>1, ClientOfOK, OptionsForOK DEF CacheOK
  <2> QED BY <2>1, <2>2, HoldOK DEF CallStep
<1>2. CASE ~isGCE
  <2>1. Fail(Me(c)) /\ UNCHANGED cacheVars
    BY <1>2 DEF ComputeOrFail
  <2>2. CacheOK' /\ cachedCredential' = cachedCredential
    BY <2>1 DEF CacheOK, cacheVars
  <2> QED BY <2>1, <2>2, FailOK DEF CallStep, WithClient
<1> QED BY <1>1, <1>2

LEMMA DefaultOK ==
  ASSUME CacheOK, ProjectOK, ResultsOK, checkIsGCE \in BOOLEAN \union {None},
         NEW c \in Call, NEW m, getApplicationDefaultAsync(c, m)
  PROVE  CallStep(c)
<1>1. CASE /\ cachedCredential # None
           /\ HoldAndAskProject(c, cachedCredential)
           /\ UNCHANGED cacheVars
  <2>1. CacheOK' /\ cachedCredential' = cachedCredential
    BY <1>1 DEF CacheOK, cacheVars
  <2>2. CallOK(c)
    BY <1>1, HoldOK DEF CacheOK
  <2> QED BY <1>1, <2>1, <2>2 DEF CallStep
<1>2. CASE /\ IF DefaultFile = "envFile" /\ env.envFile = "missing"
              THEN Fail(Me(c)) ELSE Await(Me(c), DefaultFile)
           /\ DefaultFile # None
           /\ UNCHANGED cacheVars
  <2>1. CacheOK' /\ cachedCredential' = cachedCredential
    BY <1>2 DEF CacheOK, cacheVars
  <2>2. DefaultFile \in Labels \ WithClient
    BY <1>2 DEF DefaultFile, Labels, WithClient
  <2>3. CallOK(c) /\ pc'[Me(c)] \notin WithClient
    BY <1>2, <2>2, FailOK, PlainOK DEF WithClient
  <2> QED BY <2>1, <2>3 DEF CallStep
<1>3. CASE Await(Me(c), "probing") /\ UNCHANGED cacheVars
  <2>1. CacheOK' /\ cachedCredential' = cachedCredential
    BY <1>3 DEF CacheOK, cacheVars
  <2> QED BY <1>3, <2>1, PlainOK DEF CallStep, Labels, WithClient
<1>4. CASE checkIsGCE # None /\ ComputeOrFail(c, m, checkIsGCE)
  BY <1>4, ComputeOK
<1> QED BY <1>1, <1>2, <1>3, <1>4 DEF getApplicationDefaultAsync

LEMMA ReadyStep ==
  ASSUME CacheOK', ProjectOK, ResultsOK, checkIsGCE \in BOOLEAN \union {None},
         NEW c \in Call, NEW m, NEW client \in Client, NEW json,
         cachedCredential' # None,
         ClientReady(c, m, client, json)
  PROVE  CallStep(c)
BY ReadyOK DEF CallStep

LEMMA ClientOK ==
  ASSUME CacheOK, ProjectOK, ResultsOK, checkIsGCE \in BOOLEAN \union {None},
         NEW c \in Call, NEW m, getClient(c, m)
  PROVE  CallStep(c)
<1>1. CASE /\ cachedCredential # None
           /\ ClientReady(c, m, cachedCredential, jsonContent)
           /\ UNCHANGED cacheVars
  <2>1. CacheOK' /\ cachedCredential' # None /\ cachedCredential \in Client
    BY <1>1 DEF CacheOK, cacheVars
  <2> QED BY <1>1, <2>1, ReadyStep
<1>2. CASE /\ jsonContent # None
           /\ cacheClientFromJSON(jsonContent.from, jsonContent.json, "clientOptions")
           /\ ClientReady(c, m, cachedCredential', jsonContent')
  <2>1. jsonContent.from \in Sources /\ jsonContent.json \in Json
    BY <1>2 DEF CacheOK
  <2>2. CacheOK' /\ cachedCredential' # None /\ cachedCredential' \in Client
    BY <1>2, <2>1, CachedFromJson
  <2> QED BY <1>2, <2>2, ReadyStep
<1>3. CASE Await(Me(c), "keyFile") /\ UNCHANGED cacheVars
  <2>1. CacheOK' /\ cachedCredential' = cachedCredential
    BY <1>3 DEF CacheOK, cacheVars
  <2> QED BY <1>3, <2>1, PlainOK DEF CallStep, Labels, WithClient
<1>4. CASE getApplicationDefaultAsync(c, m)
  BY <1>4, DefaultOK
<1> QED BY <1>1, <1>2, <1>3, <1>4 DEF getClient

LEMMA ContentOK ==
  ASSUME env \in Environment,
         NEW label \in {"keyFile", "envFile", "wellKnownFile", "detectFile"},
         Parses(label)
  PROVE  SourceOf(label) \in Sources /\ Content(label) \in Json
BY DEF Parses, SourceOf, Sources

LEMMA StreamOK ==
  ASSUME CacheOK, env \in Environment,
         NEW label \in {"keyFile", "envFile", "wellKnownFile", "detectFile"},
         NEW options \in {"clientOptions", "argument", "none"},
         fromStreamAsync(label, options)
  PROVE  CacheOK' /\ cachedCredential' \in Client /\ cachedCredential' # None
<1>1. CASE Parses(label) /\ cacheClientFromJSON(SourceOf(label), Content(label), options)
  BY <1>1, ContentOK, CachedFromJson
<1>2. CASE /\ cachedCredential' = ClientOf("keyFile", None, "clientOptions")
           /\ UNCHANGED jsonContent
  BY <1>2, ClientOfOK DEF CacheOK, Sources
<1> QED BY <1>1, <1>2 DEF fromStreamAsync

(* From a step of a call to the invariant.                                 *)
LEMMA CallStepOK ==
  ASSUME SearchInv, NEW c \in Call, CallStep(c), UNCHANGED given,
         checkIsGCE' \in BOOLEAN \union {None}
  PROVE  SearchInv'
<1>1. TypeOK'
  <2>1. EnvTypeOK' /\ env' = env /\ method' = method
    BY DEF given, SearchInv, TypeOK, EnvTypeOK, envDetectVars
  <2> QED BY <2>1, TypeParts DEF SearchInv, CallStep, CallOK, TypeOK, CacheOK, ProjectOK, ResultsOK
<1>2. HasClient'
  <2> SUFFICES ASSUME NEW e \in Call, pc'[Me(e)] \in WithClient,
                      ~(pc'[Me(e)] = "project" /\ method'[e] = "getProjectId")
               PROVE  cachedCredential' # None
    BY DEF HasClient
  <2>1. CASE e = c
    BY <2>1 DEF CallStep
  <2>2. CASE e # c
    BY <2>2 DEF CallStep, CallOK, SearchInv, HasClient, given
  <2> QED BY <2>1, <2>2
<1> QED BY <1>1, <1>2 DEF SearchInv

(* The steps of the calls.                                                 *)

LEMMA BeginOK == ASSUME SearchInv, NEW c \in Call, Begin(c) PROVE SearchInv'
<1>1. CacheOK /\ ProjectOK /\ ResultsOK /\ checkIsGCE \in BOOLEAN \union {None}
  BY TypeParts DEF SearchInv
<1>2. UNCHANGED given /\ checkIsGCE' = checkIsGCE
  BY DEF Begin
<1>3. CASE getClient(c, method[c])
  BY <1>1, <1>2, <1>3, ClientOK, CallStepOK
<1>4. CASE getApplicationDefaultAsync(c, method[c])
  BY <1>1, <1>2, <1>4, DefaultOK, CallStepOK
<1>5. CASE /\ method[c] = "getProjectId"
           /\ getProjectIdAsync(Me(c), "project")
           /\ UNCHANGED <<cacheVars, returned, signed>>
  <2>1. /\ ProjectOK'
        /\ pc'[Me(c)] = "project"
        /\ \A e \in Call : e # c => pc'[Me(e)] = pc[Me(e)]
    BY <1>1, <1>5, AskOK DEF Labels
  <2>2. CacheOK' /\ ResultsOK' /\ cachedCredential' = cachedCredential
    BY <1>1, <1>5 DEF CacheOK, ResultsOK, cacheVars
  <2>3. EnvTypeOK' /\ env' = env /\ method' = method
    BY <1>2 DEF given, SearchInv, TypeOK, EnvTypeOK, envDetectVars
  <2>4. TypeOK'
    BY <1>1, <1>2, <2>1, <2>2, <2>3, TypeParts
       DEF SearchInv, TypeOK, CacheOK, ProjectOK, ResultsOK
  <2>5. HasClient'
    BY <1>5, <2>1, <2>2, <2>3 DEF HasClient, SearchInv
  <2> QED BY <2>4, <2>5 DEF SearchInv
<1> QED BY <1>3, <1>4, <1>5 DEF Begin

(* A step that leaves the cache alone and goes to a label.                 *)
LEMMA PlainStep ==
  ASSUME SearchInv, NEW c \in Call, CallOK(c), UNCHANGED cacheVars,
         pc'[Me(c)] \in WithClient => cachedCredential # None
  PROVE  CallStep(c)
BY TypeParts DEF SearchInv, CallStep, CacheOK, cacheVars

LEMMA SignatureOK ==
  ASSUME SearchInv, NEW c \in Call, NEW account \in Sources \union {"gce"},
         cachedCredential # None, RequestSignature(c, account)
  PROVE  CallOK(c) /\ pc'[Me(c)] = "signBlob"
<1>1. ProjectOK /\ ResultsOK /\ cachedCredential \in Client
  BY TypeParts DEF SearchInv, CacheOK
<1>2. ProjectOK'
  BY <1>1, Actors, GotoOK DEF RequestSignature, ProjectOK, projectVars, Labels
<1>3. ResultsOK'
  BY <1>1 DEF RequestSignature, ResultsOK, Client
<1> QED BY <1>1, <1>2, <1>3, Actors, GotoOK DEF RequestSignature, CallOK, Labels

LEMMA SettledOK == ASSUME SearchInv, NEW c \in Call, ProjectSettled(c) PROVE SearchInv'
<1> DEFINE id == ProjectIdFor(Me(c))
           held == IF returned[c].client # None THEN returned[c].client ELSE cachedCredential
<1>1. CacheOK /\ ProjectOK /\ ResultsOK /\ checkIsGCE \in BOOLEAN \union {None}
  BY TypeParts DEF SearchInv
<1>2. UNCHANGED given /\ UNCHANGED cacheVars /\ checkIsGCE' = checkIsGCE
  BY DEF ProjectSettled
<1>3. pc[Me(c)] \in {"project", "signProject"}
  BY DEF ProjectSettled, AwaitsProject
<1>4. CacheOK' /\ cachedCredential' = cachedCredential
  BY <1>1, <1>2 DEF CacheOK, cacheVars
<1>5. pc[Me(c)] = "signProject" \/ method[c] # "getProjectId" => cachedCredential # None
  BY <1>3 DEF SearchInv, HasClient, WithClient
<1>6. CASE Fail(Me(c))
  BY <1>1, <1>2, <1>6, FailOK, PlainStep, CallStepOK DEF WithClient
<1>7. CASE pc[Me(c)] = "signProject" /\ getCredentialsToSign(c)
  <2>1. CASE Await(Me(c), AccountOfGCE)
    <3>1. AccountOfGCE \in Labels
      BY <1>1 DEF AccountOfGCE, Labels, Settled
    <3> QED BY <1>1, <1>2, <1>5, <1>7, <2>1, <3>1, PlainOK, PlainStep, CallStepOK
  <2>2. CASE jsonContent # None /\ RequestSignature(c, jsonContent.from)
    <3>1. jsonContent.from \in Sources \union {"gce"}
      BY <1>1, <2>2 DEF CacheOK
    <3> QED BY <1>1, <1>2, <1>5, <1>7, <2>2, <3>1, SignatureOK, PlainStep, CallStepOK
  <2>3. CASE Fail(Me(c))
    BY <1>6, <2>3
  <2> QED BY <1>7, <2>1, <2>2, <2>3 DEF getCredentialsToSign
<1>8. CASE /\ method[c] \in Searches
           /\ ClientReady(c, method[c], cachedCredential, jsonContent)
  <2>1. cachedCredential # None /\ cachedCredential \in Client
    BY <1>1, <1>5, <1>8 DEF Searches, CacheOK
  <2> QED BY <1>1, <1>2, <1>4, <1>8, <2>1, ReadyStep, CallStepOK
<1>9. CASE /\ id # "rejected"
           /\ Goto(Me(c), "done")
           /\ returned' = [returned EXCEPT ![c] =
                [client |-> IF method[c] = "getProjectId" THEN None ELSE held,
                 project |-> id]]
           /\ UNCHANGED <<wait, signed, projectVars>>
  <2>1. id \in ProjectIds \union {None}
    BY <1>1, <1>9, Actors DEF ProjectSettled, ProjectIdFor, ProjectOK
  <2>2. held \in Client \union {None}
    BY <1>1 DEF ResultsOK, CacheOK
  <2> HIDE DEF id, held
  <2>3. ResultsOK'
    BY <1>1, <1>9, <2>1, <2>2 DEF ResultsOK
  <2>4. ProjectOK'
    BY <1>1, <1>9, Actors, GotoOK DEF ProjectOK, projectVars, Labels, Settled
  <2>5. CallOK(c) /\ pc'[Me(c)] = "done"
    BY <1>1, <1>9, <2>3, <2>4, Actors, GotoOK DEF CallOK, Labels, Settled
  <2> QED BY <1>1, <1>2, <2>5, PlainStep, CallStepOK DEF WithClient
<1> QED BY <1>6, <1>7, <1>8, <1>9 DEF ProjectSettled

LEMMA ReadOK == ASSUME SearchInv, NEW c \in Call, FileRead(c) PROVE SearchInv'
<1> DEFINE label == pc[Me(c)]
<1>1. CacheOK /\ ProjectOK /\ ResultsOK /\ checkIsGCE \in BOOLEAN \union {None}
      /\ env \in Environment
  BY TypeParts DEF SearchInv
<1>2. UNCHANGED given /\ checkIsGCE' = checkIsGCE
  BY DEF FileRead
<1>3. label \in {"keyFile", "envFile", "wellKnownFile", "detectFile"}
      /\ fromStreamAsync(label, OptionsFor(method[c]))
  BY DEF FileRead, FileReading
<1> HIDE DEF label
<1>4. CacheOK' /\ cachedCredential' \in Client /\ cachedCredential' # None
  BY <1>1, <1>3, OptionsForOK, StreamOK
<1>5. CASE ClientReady(c, method[c], cachedCredential', jsonContent')
  BY <1>1, <1>2, <1>4, <1>5, ReadyStep, CallStepOK
<1>6. CASE HoldAndAskProject(c, cachedCredential')
  <2>1. CallOK(c)
    BY <1>1, <1>4, <1>6, HoldOK
  <2>2. CallStep(c)
    BY <1>4, <2>1 DEF CallStep
  <2> QED BY <1>1, <1>2, <2>2, CallStepOK
<1> QED BY <1>5, <1>6 DEF FileRead

LEMMA AvailableOK == ASSUME SearchInv, NEW c \in Call, IsAvailable(c) PROVE SearchInv'
<1>1. CacheOK /\ ProjectOK /\ ResultsOK /\ env.gce \in BOOLEAN
  BY TypeParts DEF SearchInv, Environment
<1>2. UNCHANGED given /\ checkIsGCE' \in BOOLEAN \union {None}
  BY <1>1 DEF IsAvailable
<1>3. CASE ComputeOrFail(c, method[c], env.gce)
  BY <1>1, <1>2, <1>3, ComputeOK, CallStepOK
<1>4. CASE /\ pc[Me(c)] = "probingForAccount"
           /\ IF env.gce THEN Await(Me(c), "account") ELSE Fail(Me(c))
           /\ UNCHANGED cacheVars
  <2>1. cachedCredential # None
    BY <1>4 DEF SearchInv, HasClient, WithClient
  <2>2. CallOK(c)
    BY <1>1, <1>4, PlainOK, FailOK DEF Labels
  <2> QED BY <1>2, <1>4, <2>1, <2>2, PlainStep, CallStepOK
<1> QED BY <1>3, <1>4 DEF IsAvailable

LEMMA EndsOK ==
  ASSUME SearchInv, NEW c \in Call, IsAvailableThrows(c) \/ AccountRead(c) \/ ClientAnswers(c)
  PROVE  SearchInv'
<1>1. CacheOK /\ ProjectOK /\ ResultsOK /\ checkIsGCE \in BOOLEAN \union {None}
  BY TypeParts DEF SearchInv
<1>2. UNCHANGED given /\ UNCHANGED cacheVars /\ checkIsGCE' = checkIsGCE
  BY DEF IsAvailableThrows, AccountRead, ClientAnswers
<1>3. CASE Fail(Me(c)) \/ Await(Me(c), "done")
  <2>1. CallOK(c) /\ pc'[Me(c)] \notin WithClient
    BY <1>1, <1>3, PlainOK, FailOK DEF Labels, Settled, WithClient
  <2> QED BY <1>1, <1>2, <2>1, PlainStep, CallStepOK
<1>4. CASE pc[Me(c)] = "account" /\ RequestSignature(c, "gce")
  <2>1. cachedCredential # None
    BY <1>4 DEF SearchInv, HasClient, WithClient
  <2> QED BY <1>1, <1>2, <1>4, <2>1, SignatureOK, PlainStep, CallStepOK
<1> QED BY <1>3, <1>4 DEF IsAvailableThrows, AccountRead, ClientAnswers

LEMMA CallErrorOK ==
  ASSUME SearchInv, NEW c \in Call, FileError(Me(c))
  PROVE  SearchInv'
<1>1. CacheOK /\ ProjectOK /\ ResultsOK /\ checkIsGCE \in BOOLEAN \union {None}
  BY TypeParts DEF SearchInv
<1>2. UNCHANGED given /\ UNCHANGED cacheVars /\ checkIsGCE' = checkIsGCE /\ Fail(Me(c))
  BY Actors DEF FileError
<1> QED BY <1>1, <1>2, FailOK, PlainStep, CallStepOK DEF WithClient

(* The steps of the detection.  A call is not moved by them.               *)
DetectionOK ==
  /\ CacheOK' /\ ProjectOK' /\ ResultsOK'
  /\ \A c \in Call : pc'[Me(c)] = pc[Me(c)]
  /\ cachedCredential # None => cachedCredential' # None

LEMMA DetectionStepOK ==
  ASSUME SearchInv, DetectionOK, UNCHANGED given, checkIsGCE' = checkIsGCE
  PROVE  SearchInv'
<1>1. EnvTypeOK' /\ env' = env /\ method' = method
  BY DEF given, SearchInv, TypeOK, EnvTypeOK, envDetectVars
<1>2. TypeOK'
  BY <1>1, TypeParts DEF SearchInv, DetectionOK, TypeOK, CacheOK, ProjectOK, ResultsOK
<1>3. HasClient'
  BY <1>1 DEF HasClient, SearchInv, DetectionOK
<1> QED BY <1>2, <1>3 DEF SearchInv

(* What ends a detection, or lets it go on.                                *)
Moves(d) ==
  \/ \E id \in ProjectIds : Resolve(d, id)
  \/ Reject(d)
  \/ \E label \in {"keyFile", "detectFile", "gcloud", "metadata", "external"} : Await(d, label)

LEMMA MovesOK ==
  ASSUME ProjectOK, ResultsOK, NEW d \in Detections, Moves(d)
  PROVE  /\ ProjectOK' /\ ResultsOK'
         /\ \A c \in Call : pc'[Me(c)] = pc[Me(c)]
<1>1. ASSUME NEW id \in ProjectIds, Resolve(d, id)
      PROVE  /\ ProjectOK' /\ ResultsOK'
             /\ \A c \in Call : pc'[Me(c)] = pc[Me(c)]
  BY <1>1, Actors, GotoOK DEF Resolve, ProjectOK, ResultsOK, callVars, Labels, Settled
<1>2. CASE Reject(d)
  BY <1>2, Actors, GotoOK DEF Reject, ProjectOK, ResultsOK, callVars, Labels, Settled
<1>3. ASSUME NEW label \in {"keyFile", "detectFile", "gcloud", "metadata", "external"},
             Await(d, label)
      PROVE  /\ ProjectOK' /\ ResultsOK'
             /\ \A c \in Call : pc'[Me(c)] = pc[Me(c)]
  <2>1. label \in Labels
    BY DEF Labels
  <2> QED BY <1>3, <2>1, Actors, GotoOK DEF Await, ProjectOK, ResultsOK, callVars, projectVars
<1> QED BY <1>1, <1>2, <1>3 DEF Moves

LEMMA ProjectOfOK ==
  \A client \in Client : ProjectOf(client) # None => ProjectOf(client) \in ProjectIds
BY DEF ProjectOf, Client, ProjectIds

LEMMA MaybeMoves ==
  ASSUME NEW d \in Detections,
         NEW id, id # None => id \in ProjectIds,
         NEW label \in {"keyFile", "detectFile", "gcloud", "metadata", "external"},
         ResolveOr(d, id, label)
  PROVE  Moves(d)
BY DEF ResolveOr, Moves

LEMMA EnvFileMoves ==
  ASSUME NEW d \in Detections, ReadEnvFile(d)
  PROVE  Moves(d)
BY DEF ReadEnvFile, Moves

(* What becomes of the cache in a step of a detection.                     *)
CacheMoves ==
  \/ UNCHANGED cacheVars
  \/ CacheOK' /\ cachedCredential' # None

LEMMA DetectionMoves ==
  ASSUME SearchInv, NEW d \in Detections, DetectionStep(d)
  PROVE  Moves(d) /\ CacheMoves /\ UNCHANGED given /\ checkIsGCE' = checkIsGCE
<1>1. CacheOK /\ env \in Environment
  BY TypeParts DEF SearchInv
<1>2. CASE DetectionStarts(d)
  <2>1. CASE Resolve(d, "variable") /\ UNCHANGED cacheVars
    BY <1>2, <2>1 DEF DetectionStarts, Moves, CacheMoves, ProjectIds
  <2>2. CASE getFileProjectId(d)
    <3>1. CASE /\ cachedCredential # None
               /\ ResolveOr(d, ProjectOf(cachedCredential), "gcloud")
               /\ UNCHANGED cacheVars
      <4>1. cachedCredential \in Client
        BY <1>1, <3>1 DEF CacheOK
      <4> QED BY <1>2, <3>1, <4>1, ProjectOfOK, MaybeMoves DEF DetectionStarts, CacheMoves
    <3>2. CASE ReadEnvFile(d) /\ UNCHANGED cacheVars
      BY <1>2, <3>2, EnvFileMoves DEF DetectionStarts, CacheMoves
    <3>3. CASE Await(d, "keyFile") /\ UNCHANGED cacheVars
      BY <1>2, <3>3 DEF DetectionStarts, CacheMoves, Moves
    <3>4. CASE /\ jsonContent # None
               /\ cacheClientFromJSON(jsonContent.from, jsonContent.json, "clientOptions")
               /\ IF ProjectOf(cachedCredential') # None
                  THEN Resolve(d, ProjectOf(cachedCredential')) ELSE ReadEnvFile(d)
      <4>1. jsonContent.from \in Sources /\ jsonContent.json \in Json
        BY <1>1, <3>4 DEF CacheOK
      <4>2. CacheOK' /\ cachedCredential' \in Client /\ cachedCredential' # None
        BY <1>1, <3>4, <4>1, CachedFromJson
      <4>3. Moves(d)
        BY <3>4, <4>2, ProjectOfOK, EnvFileMoves DEF Moves
      <4> QED BY <1>2, <4>2, <4>3 DEF DetectionStarts, CacheMoves
    <3> QED BY <2>2, <3>1, <3>2, <3>3, <3>4 DEF getFileProjectId
  <2> QED BY <1>2, <2>1, <2>2 DEF DetectionStarts
<1>3. CASE DetectionFileRead(d)
  <2> DEFINE options == IF pc[d] = "keyFile" THEN "clientOptions" ELSE "none"
  <2>1. /\ pc[d] \in {"keyFile", "envFile", "wellKnownFile", "detectFile"}
        /\ fromStreamAsync(pc[d], options)
        /\ options \in {"clientOptions", "argument", "none"}
    BY <1>3 DEF DetectionFileRead, FileReading
  <2>2. CacheOK' /\ cachedCredential' \in Client /\ cachedCredential' # None
    BY <1>1, <2>1, StreamOK
  <2>3. Moves(d)
    BY <1>3, <2>2, ProjectOfOK, EnvFileMoves, MaybeMoves DEF DetectionFileRead, Moves
  <2> QED BY <1>3, <2>2, <2>3 DEF DetectionFileRead, CacheMoves
<1>4. CASE FileError(d)
  <2>1. Reject(d)
    BY <1>4 DEF FileError, Reject
  <2> QED BY <1>4, <2>1 DEF FileError, Moves, CacheMoves
<1>5. CASE GcloudEnds(d)
  <2>1. (IF env.gcloud THEN "gcloud" ELSE None) # None
          => (IF env.gcloud THEN "gcloud" ELSE None) \in ProjectIds
    BY DEF ProjectIds
  <2> QED BY <1>5, <2>1, MaybeMoves DEF GcloudEnds, CacheMoves
<1>6. CASE MetadataProject(d)
  <2>1. CASE Resolve(d, "gce") /\ UNCHANGED cacheVars
    BY <1>6, <2>1 DEF MetadataProject, Moves, CacheMoves, ProjectIds
  <2>2. CASE (Reject(d) \/ Await(d, "external")) /\ UNCHANGED cacheVars
    BY <1>6, <2>2 DEF MetadataProject, Moves, CacheMoves
  <2>3. CASE /\ HasExternalJson
             /\ cacheClientFromJSON(jsonContent.from, "external", "clientOptions")
             /\ Await(d, "external")
    <3>1. CacheOK' /\ cachedCredential' # None
      BY <1>1, <2>3, CachedFromJson DEF HasExternalJson, CacheOK, Json
    <3> QED BY <1>6, <2>3, <3>1 DEF MetadataProject, Moves, CacheMoves
  <2> QED BY <1>6, <2>1, <2>2, <2>3 DEF MetadataProject
<1>7. CASE ExternalProject(d)
  BY <1>7 DEF ExternalProject, Moves, CacheMoves, ProjectIds
<1> QED BY <1>2, <1>3, <1>4, <1>5, <1>6, <1>7 DEF DetectionStep

LEMMA SearchNext == SearchInv /\ [Next]_vars => SearchInv'
<1> SUFFICES ASSUME SearchInv, [Next]_vars
             PROVE  SearchInv'
  OBVIOUS
<1>1. ASSUME NEW c \in Call, Begin(c)
      PROVE  SearchInv'
  BY <1>1, BeginOK
<1>2. ASSUME NEW c \in Call, Step(c), ~EnvStep(c)
      PROVE  SearchInv'
  BY <1>2, SettledOK, ReadOK, CallErrorOK, AvailableOK, EndsOK DEF Step
<1>3. ASSUME NEW d \in Detections, DetectionStep(d)
      PROVE  SearchInv'
  <2>1. /\ Moves(d) /\ CacheMoves /\ UNCHANGED given /\ checkIsGCE' = checkIsGCE
        /\ CacheOK /\ ProjectOK /\ ResultsOK
    BY <1>3, DetectionMoves, TypeParts DEF SearchInv
  <2>2. CacheOK' /\ (cachedCredential # None => cachedCredential' # None)
    BY <2>1 DEF CacheMoves, CacheOK, cacheVars
  <2>3. DetectionOK
    BY <2>1, <2>2, MovesOK DEF DetectionOK
  <2> QED BY <2>1, <2>3, DetectionStepOK
<1>4. CASE UNCHANGED Searching
  <2>1. EnvTypeOK'
    BY EnvTypeNext, EnvStepOrNot DEF SearchInv, TypeOK
  <2> QED BY <1>4, <2>1, TypeParts
          DEF SearchInv, TypeOK, HasClient, Searching, cacheVars, projectVars, callVars,
              CacheOK, ProjectOK, ResultsOK
<1>5. ASSUME NEW c \in Call, GetEnv(c) \/ EnvStep(c)
      PROVE  SearchInv'
  BY <1>4, <1>5 DEF GetEnv, EnvStep
<1>6. CASE Clear
  BY <1>4, <1>6 DEF Clear
<1>7. CASE UNCHANGED vars
  BY <1>4, <1>7 DEF vars, given, Searching
<1> QED BY <1>1, <1>2, <1>3, <1>5, <1>6, <1>7 DEF Next

LEMMA SearchInvariant == Spec => []SearchInv
BY SearchInit, SearchNext, PTL DEF Spec

(* Every variable of GoogleAuth keeps its shape, in any environment and    *)
(* with any number of calls.                                               *)
THEOREM TypeCorrect == Spec => []TypeOK
<1>1. Spec => []SearchInv
  BY SearchInvariant
<1> QED BY <1>1, PTL DEF SearchInv

(* getApplicationDefaultAsync, getClient, sign and getCredentials read     *)
(* cachedCredential again after the await of the project id or of the      *)
(* metadata server: it is never undefined there, whatever other calls and  *)
(* the detection did meanwhile.  getProjectId alone may wait without a     *)
(* client.                                                                 *)
THEOREM HasClientCorrect == Spec => []HasClient
<1>1. Spec => []SearchInv
  BY SearchInvariant
<1> QED BY <1>1, PTL DEF SearchInv

-----------------------------------------------------------------------------
(* The project id.  There is one detection, which runs only while no id is *)
(* known: the id it finds is the first, and no other is ever found.        *)

Ended == {"idle", "done", "failed"}
NoId == {"pending", "rejected"}

ProjectInv ==
  /\ \A d \in Detections :
       /\ pc[d] \notin Ended =>
            cachedProjectId = None /\ promise = d /\ outcome[d] = "pending"
       /\ d # promise => pc[d] = "idle" /\ outcome[d] = "pending"
       /\ outcome[d] \notin NoId => outcome[d] = cachedProjectId
  /\ OneProjectId

LEMMA ProjectInit == Init => ProjectInv
BY DEF Init, ProjectInv, OneProjectId, Ended, NoId, Actor, Detections

(* What a step of a call does to the search for the id: nothing, or it     *)
(* starts the detection.                                                   *)
NoDetection == projectVars' = projectVars /\ \A d \in Detections : pc'[d] = pc[d]

StartsDetection ==
  \E e \in Detections :
    /\ cachedProjectId = None /\ promise = None /\ promise' = e
    /\ UNCHANGED <<cachedProjectId, outcome>>
    /\ pc'[e] = "start"
    /\ \A d \in Detections : d # e => pc'[d] = pc[d]

SearchesOn == NoDetection \/ StartsDetection

(* The project ids that the calls got stay; a new one is the one kept.     *)
ResultsStay ==
  \A c \in Call : \/ returned'[c].project = returned[c].project
                  \/ returned'[c].project = cachedProjectId'

LEMMA GotoSearches ==
  ASSUME ProjectOK, NEW c \in Call, NEW label, Goto(Me(c), label), UNCHANGED projectVars
  PROVE  SearchesOn
BY Actors DEF Goto, ProjectOK, SearchesOn, NoDetection

LEMMA AskSearches ==
  ASSUME ProjectOK, NEW c \in Call, NEW label, getProjectIdAsync(Me(c), label)
  PROVE  SearchesOn
<1>1. CASE cachedProjectId # None \/ promise # None
  BY <1>1, GotoSearches DEF getProjectIdAsync
<1>2. CASE ~(cachedProjectId # None \/ promise # None)
  <2>1. /\ pc' = [pc EXCEPT ![Me(c)] = label, ![Detection(Me(c))] = "start"]
        /\ promise' = Detection(Me(c))
        /\ UNCHANGED <<cachedProjectId, outcome>>
    BY <1>2 DEF getProjectIdAsync
  <2>2. \A a \in Actor : pc'[a] = IF a = Detection(Me(c)) THEN "start"
                                  ELSE IF a = Me(c) THEN label ELSE pc[a]
    BY <2>1, Actors DEF ProjectOK
  <2> QED BY <1>2, <2>1, <2>2, Actors DEF SearchesOn, StartsDetection
<1> QED BY <1>1, <1>2

LEMMA PlainSearches ==
  ASSUME ProjectOK, NEW c \in Call, NEW label, Await(Me(c), label)
  PROVE  SearchesOn /\ ResultsStay
BY GotoSearches DEF Await, callVars, ResultsStay

LEMMA FailSearches ==
  ASSUME ProjectOK, NEW c \in Call, Fail(Me(c))
  PROVE  SearchesOn /\ ResultsStay
BY GotoSearches DEF Fail, callVars, ResultsStay

LEMMA HoldSearches ==
  ASSUME ProjectOK, ResultsOK, NEW c \in Call, NEW client, HoldAndAskProject(c, client)
  PROVE  SearchesOn /\ ResultsStay
<1>1. SearchesOn
  BY AskSearches DEF HoldAndAskProject
<1>2. returned' = [returned EXCEPT ![c].client = client]
  BY DEF HoldAndAskProject
<1>3. ResultsStay
  BY <1>2 DEF ResultsStay, ResultsOK
<1> QED BY <1>1, <1>3

LEMMA ReadySearches ==
  ASSUME ProjectOK, ResultsOK, NEW c \in Call, NEW m, NEW client, NEW json,
         ClientReady(c, m, client, json)
  PROVE  SearchesOn /\ ResultsStay
<1>1. returned' = [returned EXCEPT ![c].client = client]
  BY DEF ClientReady
<1>2. ResultsStay
  BY <1>1 DEF ResultsStay, ResultsOK
<1>3. SearchesOn
  BY GotoSearches, AskSearches DEF ClientReady, SignWith
<1> QED BY <1>2, <1>3

LEMMA SignatureSearches ==
  ASSUME ProjectOK, NEW c \in Call, NEW account, RequestSignature(c, account)
  PROVE  SearchesOn /\ ResultsStay
BY GotoSearches DEF RequestSignature, ResultsStay

LEMMA DefaultSearches ==
  ASSUME ProjectOK, ResultsOK, NEW c \in Call, NEW m, getApplicationDefaultAsync(c, m)
  PROVE  SearchesOn /\ ResultsStay
BY HoldSearches, FailSearches, PlainSearches DEF getApplicationDefaultAsync, ComputeOrFail

LEMMA ClientSearches ==
  ASSUME ProjectOK, ResultsOK, NEW c \in Call, NEW m, getClient(c, m)
  PROVE  SearchesOn /\ ResultsStay
BY ReadySearches, PlainSearches, DefaultSearches DEF getClient

(* The id that a call gets is the one that is kept.                        *)
LEMMA SettledSearches ==
  ASSUME SearchInv, ProjectInv, NEW c \in Call, ProjectSettled(c)
  PROVE  SearchesOn /\ ResultsStay
<1> DEFINE id == ProjectIdFor(Me(c))
           held == IF returned[c].client # None THEN returned[c].client ELSE cachedCredential
<1>1. ProjectOK /\ ResultsOK
  BY TypeParts DEF SearchInv
<1>2. CASE Fail(Me(c))
  BY <1>1, <1>2, FailSearches
<1>3. CASE getCredentialsToSign(c)
  BY <1>1, <1>3, PlainSearches, SignatureSearches, FailSearches DEF getCredentialsToSign
<1>4. CASE ClientReady(c, method[c], cachedCredential, jsonContent)
  BY <1>1, <1>4, ReadySearches
<1>5. CASE /\ id # "rejected"
           /\ Goto(Me(c), "done")
           /\ returned' = [returned EXCEPT ![c] =
                [client |-> IF method[c] = "getProjectId" THEN None ELSE held,
                 project |-> id]]
           /\ UNCHANGED <<wait, signed, projectVars>>
  <2>1. id = cachedProjectId
    <3>1. id # "pending" /\ wait[Me(c)] \in Detections \union {None}
      BY <1>1, Actors DEF ProjectSettled, ProjectOK
    <3>2. CASE wait[Me(c)] = None
      BY <3>2 DEF ProjectIdFor
    <3>3. CASE wait[Me(c)] # None
      BY <1>5, <3>1, <3>3 DEF ProjectIdFor, ProjectInv, NoId
    <3> QED BY <3>2, <3>3
  <2>2. cachedProjectId' = cachedProjectId
    BY <1>5 DEF projectVars
  <2> HIDE DEF id, held
  <2>3. ResultsStay
    BY <1>1, <1>5, <2>1, <2>2 DEF ResultsStay, ResultsOK
  <2> QED BY <1>1, <1>5, <2>3, GotoSearches
<1> QED BY <1>2, <1>3, <1>4, <1>5 DEF ProjectSettled

LEMMA CallSearches ==
  ASSUME SearchInv, ProjectInv, NEW c \in Call, Begin(c) \/ Step(c)
  PROVE  SearchesOn /\ ResultsStay
<1>1. ProjectOK /\ ResultsOK
  BY TypeParts DEF SearchInv
<1>2. CASE Begin(c)
  <2>1. CASE getProjectIdAsync(Me(c), "project") /\ UNCHANGED returned
    BY <1>1, <2>1, AskSearches DEF ResultsStay
  <2> QED BY <1>1, <1>2, <2>1, ClientSearches, DefaultSearches DEF Begin
<1>3. CASE ProjectSettled(c)
  BY <1>3, SettledSearches
<1>4. CASE FileRead(c)
  BY <1>1, <1>4, ReadySearches, HoldSearches DEF FileRead
<1>5. CASE FileError(Me(c))
  BY <1>1, <1>5, Actors, FailSearches DEF FileError
<1>6. CASE IsAvailable(c)
  BY <1>1, <1>6, PlainSearches, FailSearches, HoldSearches DEF IsAvailable, ComputeOrFail
<1>7. CASE IsAvailableThrows(c) \/ AccountRead(c) \/ ClientAnswers(c)
  BY <1>1, <1>7, PlainSearches, FailSearches, SignatureSearches
     DEF IsAvailableThrows, AccountRead, ClientAnswers
<1>8. CASE EnvStep(c)
  BY <1>8 DEF EnvStep, Searching, SearchesOn, NoDetection, ResultsStay, callVars
<1> QED BY <1>2, <1>3, <1>4, <1>5, <1>6, <1>7, <1>8 DEF Step

LEMMA SearchesKeep ==
  ASSUME SearchInv, ProjectInv, SearchesOn, ResultsStay
  PROVE  ProjectInv'
<1>1. CASE NoDetection
  BY <1>1 DEF NoDetection, ProjectInv, OneProjectId, ResultsStay, projectVars
<1>2. CASE StartsDetection
  <2>1. PICK e \in Detections :
          /\ cachedProjectId = None /\ promise = None /\ promise' = e
          /\ UNCHANGED <<cachedProjectId, outcome>>
          /\ pc'[e] = "start"
          /\ \A d \in Detections : d # e => pc'[d] = pc[d]
    BY <1>2 DEF StartsDetection
  <2>2. \A d \in Detections : pc[d] = "idle" /\ outcome[d] = "pending"
    BY <2>1, NoneIsNew DEF ProjectInv
  <2>3. \A d \in Detections :
          /\ pc'[d] \notin Ended =>
               cachedProjectId' = None /\ promise' = d /\ outcome'[d] = "pending"
          /\ d # promise' => pc'[d] = "idle" /\ outcome'[d] = "pending"
          /\ outcome'[d] \notin NoId => outcome'[d] = cachedProjectId'
    BY <2>1, <2>2 DEF Ended, NoId
  <2>4. OneProjectId'
    BY <2>1 DEF ProjectInv, OneProjectId, ResultsStay
  <2> QED BY <2>3, <2>4 DEF ProjectInv
<1> QED BY <1>1, <1>2 DEF SearchesOn

(* A step of the detection: it has been running, so no id was known.       *)
LEMMA DetectionKeeps ==
  ASSUME SearchInv, ProjectInv, NEW d \in Detections, DetectionStep(d)
  PROVE  ProjectInv'
<1>1. ProjectOK /\ ResultsOK /\ Moves(d)
  BY DetectionMoves, TypeParts DEF SearchInv
<1>2. pc[d] \notin Ended
  BY DEF DetectionStep, DetectionStarts, DetectionFileRead, FileError, GcloudEnds,
         MetadataProject, ExternalProject, FileReading, Ended
<1>3. /\ cachedProjectId = None /\ promise = d /\ outcome[d] = "pending"
      /\ \A e \in Detections : e # d => pc[e] = "idle" /\ outcome[e] = "pending"
  BY <1>2 DEF ProjectInv
<1>4. \A c \in Call : returned[c].project = None
  BY <1>3 DEF ProjectInv, OneProjectId
<1>5. returned' = returned /\ promise' = promise
      /\ \A e \in Detections : e # d => pc'[e] = pc[e] /\ outcome'[e] = outcome[e]
  BY <1>1, Actors DEF Moves, Resolve, Reject, Await, Goto, callVars, projectVars, ProjectOK
<1>6. OneProjectId'
  BY <1>4, <1>5 DEF OneProjectId
<1>7. \/ pc'[d] \in Ended /\ (outcome'[d] = cachedProjectId' \/ outcome'[d] \in NoId)
      \/ cachedProjectId' = None /\ outcome'[d] = "pending"
  <2>1. ASSUME NEW id \in ProjectIds, Resolve(d, id)
        PROVE  pc'[d] \in Ended /\ outcome'[d] = cachedProjectId'
    BY <1>1, <2>1, Actors DEF Resolve, Goto, ProjectOK, Ended
  <2>2. CASE Reject(d)
    BY <1>1, <2>2, Actors DEF Reject, Goto, ProjectOK, Ended, NoId
  <2>3. ASSUME NEW label, Await(d, label)
        PROVE  cachedProjectId' = None /\ outcome'[d] = "pending"
    BY <1>3, <2>3 DEF Await, projectVars
  <2> QED BY <1>1, <2>1, <2>2, <2>3 DEF Moves
<1>8. ASSUME NEW e \in Detections
      PROVE  /\ pc'[e] \notin Ended =>
                  cachedProjectId' = None /\ promise' = e /\ outcome'[e] = "pending"
             /\ e # promise' => pc'[e] = "idle" /\ outcome'[e] = "pending"
             /\ outcome'[e] \notin NoId => outcome'[e] = cachedProjectId'
  BY <1>3, <1>5, <1>7 DEF Ended, NoId
<1> QED BY <1>6, <1>8 DEF ProjectInv

LEMMA ProjectNext == SearchInv /\ ProjectInv /\ [Next]_vars => ProjectInv'
<1> SUFFICES ASSUME SearchInv, ProjectInv, [Next]_vars
             PROVE  ProjectInv'
  OBVIOUS
<1>1. ASSUME NEW c \in Call, Begin(c) \/ Step(c)
      PROVE  ProjectInv'
  BY <1>1, CallSearches, SearchesKeep
<1>2. ASSUME NEW d \in Detections, DetectionStep(d)
      PROVE  ProjectInv'
  BY <1>2, DetectionKeeps
<1>3. CASE UNCHANGED Searching
  BY <1>3 DEF Searching, projectVars, callVars, ProjectInv, OneProjectId
<1>4. ASSUME NEW c \in Call, GetEnv(c)
      PROVE  ProjectInv'
  BY <1>3, <1>4 DEF GetEnv
<1>5. CASE Clear \/ UNCHANGED vars
  BY <1>3, <1>5 DEF Clear, vars, given, Searching
<1> QED BY <1>1, <1>2, <1>4, <1>5 DEF Next

(* All callers get the same project id, the one that is kept, whatever     *)
(* they and the process's surroundings are.                                *)
THEOREM OneProjectIdCorrect == Spec => []OneProjectId
<1>1. ProjectInv => OneProjectId
  BY DEF ProjectInv
<1> QED BY <1>1, SearchInvariant, ProjectInit, ProjectNext, PTL DEF Spec

-----------------------------------------------------------------------------
(* Precedence.  Where nothing competes with the configured source, that is *)
(* the only one that is ever read, and whatever is cached comes from it.   *)

FileLabels == {"keyFile", "envFile", "wellKnownFile", "detectFile"}
Source == ConfiguredSource

(* The clients that do not name their account.                             *)
Accountless == Source = "gce" \/ env.keyFile = "key"

CacheInv ==
  /\ jsonContent # None => jsonContent.from = Source /\ jsonContent.json = env[Source]
  /\ env.credentials # None => jsonContent # None
  /\ JsonMatchesClient
  /\ cachedCredential # None =>
       /\ cachedCredential.from = Source
       /\ cachedCredential.json = None => Accountless

Reads(label) == label \in FileLabels => SourceOf(label) = Source

(* States in which a call holds the client it was given.                   *)
Holding == {"signProject", "probingForAccount", "account", "delegated", "signBlob", "done"}

CallInv(c) ==
  /\ pc[Me(c)] = "probing" => Source = "gce"
  /\ returned[c].client # None => returned[c].client.from = Source
  /\ pc[Me(c)] \in Holding /\ method[c] # "getProjectId" => returned[c].client # None
  /\ pc[Me(c)] \in {"probingForAccount", "account"} /\ method[c] = "sign" => Accountless
  /\ signed[c] # None =>
       signed[c].by = Source /\ (signed[c].account = Source \/ env.keyFile = "key")

SourceInv ==
  Uncontested => /\ CacheInv
                 /\ \A a \in Actor : Reads(pc[a])
                 /\ \A c \in Call : CallInv(c)

LEMMA SourceInit == Init => SourceInv
<1> SUFFICES ASSUME Init, Uncontested
             PROVE  CacheInv /\ (\A a \in Actor : Reads(pc[a])) /\ \A c \in Call : CallInv(c)
  BY DEF SourceInv
<1>1. env \in Environment /\ CacheOK
  BY SearchInit, TypeParts DEF SearchInv
<1>2. env.credentials # None => Source = "credentials"
  BY DEF Source, ConfiguredSource, FirstDefault
<1>3. jsonContent = IF env.credentials = None THEN None
                    ELSE [from |-> "credentials", json |-> env.credentials]
  BY DEF Init
<1>4. [from |-> "credentials", json |-> env.credentials].from = "credentials"
      /\ [from |-> "credentials", json |-> env.credentials].json = env.credentials
  OBVIOUS
<1>5. env.credentials # None => jsonContent # None
  <2>1. env.credentials # None => env.credentials \in Json
    BY <1>1 DEF Environment
  <2>2. "credentials" \in Sources
    BY DEF Sources
  <2>3. env.credentials # None =>
          [from |-> "credentials", json |-> env.credentials] \in [from : Sources, json : Json]
    BY <2>1, <2>2
  <2> QED BY <1>3, <2>3, NoneIsNew
<1>6. CacheInv
  BY <1>2, <1>3, <1>4, <1>5 DEF CacheInv, JsonMatchesClient, Init
<1>7. \A a \in Actor : Reads(pc[a])
  BY DEF Init, Reads, FileLabels
<1>8. \A c \in Call : CallInv(c)
  BY Actors DEF Init, CallInv, Holding
<1> QED BY <1>6, <1>7, <1>8

(* A step of a call leaves the others where they are.                      *)
Others(c) ==
  /\ \A a \in Actor : a # Me(c) => pc'[a] = pc[a] \/ (a \in Detections /\ pc'[a] = "start")
  /\ \A e \in Call : e # c => returned'[e] = returned[e] /\ signed'[e] = signed[e]

LEMMA AskOthers ==
  ASSUME ProjectOK, NEW c \in Call, NEW label, getProjectIdAsync(Me(c), label)
  PROVE  /\ pc'[Me(c)] = label
         /\ \A a \in Actor : a # Me(c) =>
              pc'[a] = pc[a] \/ (a \in Detections /\ pc'[a] = "start")
<1>1. CASE pc' = [pc EXCEPT ![Me(c)] = label]
  BY <1>1, Actors DEF ProjectOK
<1>2. CASE pc' = [pc EXCEPT ![Me(c)] = label, ![Detection(Me(c))] = "start"]
  <2>1. \A a \in Actor : pc'[a] = IF a = Detection(Me(c)) THEN "start"
                                  ELSE IF a = Me(c) THEN label ELSE pc[a]
    BY <1>2, Actors DEF ProjectOK
  <2> QED BY <2>1, Actors
<1> QED BY <1>1, <1>2 DEF getProjectIdAsync, Goto

LEMMA PlainOthers ==
  ASSUME ProjectOK, NEW c \in Call, NEW label, Await(Me(c), label)
  PROVE  Others(c) /\ pc'[Me(c)] = label /\ returned' = returned /\ signed' = signed
BY Actors DEF Await, Goto, ProjectOK, callVars, Others

LEMMA FailOthers ==
  ASSUME ProjectOK, NEW c \in Call, Fail(Me(c))
  PROVE  Others(c) /\ pc'[Me(c)] = "failed" /\ returned' = returned /\ signed' = signed
BY PlainOthers DEF Fail, Await

LEMMA HoldOthers ==
  ASSUME ProjectOK, ResultsOK, NEW c \in Call, NEW client, HoldAndAskProject(c, client)
  PROVE  /\ Others(c) /\ pc'[Me(c)] = "project"
         /\ returned'[c].client = client /\ signed' = signed
<1>1. returned' = [returned EXCEPT ![c].client = client] /\ signed' = signed
  BY DEF HoldAndAskProject
<1>2. returned'[c].client = client /\ \A e \in Call : e # c => returned'[e] = returned[e]
  BY <1>1 DEF ResultsOK
<1> QED BY <1>1, <1>2, AskOthers DEF HoldAndAskProject, Others

LEMMA ReadyOthers ==
  ASSUME ProjectOK, ResultsOK, NEW c \in Call, NEW m, NEW client, NEW json,
         ClientReady(c, m, client, json)
  PROVE  /\ Others(c) /\ returned'[c].client = client
         /\ pc'[Me(c)] # "probing" /\ pc'[Me(c)] \notin FileLabels
         /\ pc'[Me(c)] \in {"probingForAccount", "account"} => m # "sign"
         /\ signed'[c] = signed[c] \/ signed'[c] = [account |-> client.from, by |-> client.from]
<1>1. returned' = [returned EXCEPT ![c].client = client]
  BY DEF ClientReady
<1>2. returned'[c].client = client /\ \A e \in Call : e # c => returned'[e] = returned[e]
  BY <1>1 DEF ResultsOK
<1>3. CASE m # "sign"
  <2>1. /\ Goto(Me(c), AfterClient(m, client, json)) /\ signed' = signed
        /\ AfterClient(m, client, json)
             \in {"probingForAccount", "account", "failed", "delegated", "done"}
    BY <1>3 DEF ClientReady, AfterClient, AccountOfGCE
  <2> QED BY <1>2, <1>3, <2>1, Actors DEF Goto, ProjectOK, Others, FileLabels
<1>4. CASE m = "sign" /\ HoldsKey(client)
  <2>1. /\ Goto(Me(c), "done")
        /\ signed' = [signed EXCEPT ![c] = [account |-> client.from, by |-> client.from]]
    BY <1>4 DEF ClientReady, SignWith
  <2> QED BY <1>2, <2>1, Actors DEF Goto, ProjectOK, ResultsOK, Others, FileLabels
<1>5. CASE m = "sign" /\ ~HoldsKey(client)
  <2>1. getProjectIdAsync(Me(c), "signProject") /\ signed' = signed
    BY <1>5 DEF ClientReady, SignWith
  <2> QED BY <1>2, <2>1, AskOthers DEF Others, FileLabels
<1> QED BY <1>3, <1>4, <1>5

LEMMA SignatureOthers ==
  ASSUME ProjectOK, ResultsOK, NEW c \in Call, NEW account, RequestSignature(c, account)
  PROVE  /\ Others(c) /\ pc'[Me(c)] = "signBlob" /\ returned' = returned
         /\ signed'[c] = [account |-> account, by |-> cachedCredential.from]
BY Actors DEF RequestSignature, Goto, ProjectOK, ResultsOK, Others

(* From a step of a call to the invariant.                                 *)
LEMMA CallKeepsSource ==
  ASSUME SearchInv, SourceInv, NEW c \in Call, UNCHANGED given, Others(c),
         Uncontested => CacheInv' /\ Reads(pc[Me(c)])' /\ CallInv(c)'
  PROVE  SourceInv'
<1>1. env' = env /\ method' = method
  BY DEF given
<1>2. (Uncontested' <=> Uncontested) /\ Source' = Source /\ (Accountless' <=> Accountless)
  BY <1>1 DEF Uncontested, Source, ConfiguredSource, FirstDefault, Accountless
<1> SUFFICES ASSUME Uncontested
             PROVE  /\ CacheInv'
                    /\ \A a \in Actor : Reads(pc[a])'
                    /\ \A e \in Call : CallInv(e)'
  BY <1>2 DEF SourceInv
<1>3. ASSUME NEW a \in Actor
      PROVE  Reads(pc[a])'
  BY <1>2, <1>3 DEF Others, SourceInv, Reads, FileLabels, SourceOf
<1>4. ASSUME NEW e \in Call
      PROVE  CallInv(e)'
  <2>1. CASE e # c
    <3>1. /\ pc'[Me(e)] = pc[Me(e)] /\ returned'[e] = returned[e] /\ signed'[e] = signed[e]
      BY <2>1, Actors DEF Others
    <3> QED BY <1>1, <1>2, <3>1 DEF SourceInv, CallInv
  <2> QED BY <2>1
<1> QED BY <1>3, <1>4

(* Sufficient conditions, in terms of what the lemmas above say.           *)
LEMMA CallInvFrom ==
  ASSUME SourceInv, Uncontested, NEW c \in Call, UNCHANGED given,
         pc'[Me(c)] = "probing" => Source = "gce",
         returned'[c].client # None => returned'[c].client.from = Source,
         pc'[Me(c)] \in Holding /\ method[c] # "getProjectId" => returned'[c].client # None,
         pc'[Me(c)] \in {"probingForAccount", "account"} /\ method[c] = "sign" => Accountless,
         \/ signed'[c] = signed[c]
         \/ signed'[c].by = Source /\ (signed'[c].account = Source \/ env.keyFile = "key")
  PROVE  CallInv(c)'
<1>1. env' = env /\ method' = method
  BY DEF given
<1>2. Source' = Source /\ (Accountless' <=> Accountless)
  BY <1>1 DEF Source, ConfiguredSource, FirstDefault, Accountless
<1> QED BY <1>1, <1>2 DEF SourceInv, CallInv

LEMMA SourceKept ==
  ASSUME UNCHANGED given
  PROVE  /\ env' = env /\ method' = method /\ Source' = Source
         /\ (Accountless' <=> Accountless) /\ (Uncontested' <=> Uncontested)
         /\ \A label : Reads(label)' <=> Reads(label)
BY DEF given, Uncontested, Source, ConfiguredSource, FirstDefault, Accountless, Reads, SourceOf

LEMMA CacheKept ==
  ASSUME UNCHANGED given, UNCHANGED cacheVars, CacheInv
  PROVE  CacheInv'
BY SourceKept DEF cacheVars, CacheInv, JsonMatchesClient

(* What a step of a call is to show.                                       *)
KeepsSource(c) == Others(c) /\ CacheInv' /\ Reads(pc[Me(c)])' /\ CallInv(c)'

LEMMA PlainSource ==
  ASSUME SearchInv, SourceInv, Uncontested, UNCHANGED given, CacheInv', NEW c \in Call,
         NEW label, Await(Me(c), label), Reads(label),
         label = "probing" => Source = "gce",
         label \in Holding => pc[Me(c)] \in Holding,
         label \in {"probingForAccount", "account"} /\ method[c] = "sign" => Accountless
  PROVE  KeepsSource(c)
<1>1. ProjectOK /\ CallInv(c)
  BY TypeParts DEF SearchInv, SourceInv
<1>2. Others(c) /\ pc'[Me(c)] = label /\ returned' = returned /\ signed' = signed
  BY <1>1, PlainOthers
<1>3. CallInv(c)'
  BY <1>1, <1>2, CallInvFrom DEF CallInv
<1>4. Reads(pc[Me(c)])'
  BY <1>2, SourceKept DEF Reads, SourceOf, FileLabels
<1> QED BY <1>2, <1>3, <1>4 DEF KeepsSource

LEMMA FailSource ==
  ASSUME SearchInv, SourceInv, Uncontested, UNCHANGED given, CacheInv', NEW c \in Call,
         Fail(Me(c))
  PROVE  KeepsSource(c)
<1>1. Await(Me(c), "failed")
  BY DEF Fail, Await
<1> QED BY <1>1, PlainSource DEF Reads, FileLabels, Holding

LEMMA HoldSource ==
  ASSUME SearchInv, SourceInv, Uncontested, UNCHANGED given, CacheInv', NEW c \in Call,
         NEW client, HoldAndAskProject(c, client), client # None => client.from = Source
  PROVE  KeepsSource(c)
<1>1. /\ Others(c) /\ pc'[Me(c)] = "project"
      /\ returned'[c].client = client /\ signed' = signed
  BY TypeParts, HoldOthers DEF SearchInv
<1>2. CallInv(c)'
  BY <1>1, CallInvFrom DEF Holding
<1>3. Reads(pc[Me(c)])'
  BY <1>1 DEF Reads, FileLabels
<1> QED BY <1>1, <1>2, <1>3 DEF KeepsSource

LEMMA ReadySource ==
  ASSUME SearchInv, SourceInv, Uncontested, UNCHANGED given, CacheInv', NEW c \in Call,
         NEW client, NEW json, ClientReady(c, method[c], client, json),
         client # None, client.from = Source
  PROVE  KeepsSource(c)
<1>1. /\ Others(c) /\ returned'[c].client = client
      /\ pc'[Me(c)] # "probing" /\ pc'[Me(c)] \notin FileLabels
      /\ pc'[Me(c)] \in {"probingForAccount", "account"} => method[c] # "sign"
      /\ signed'[c] = signed[c] \/ signed'[c] = [account |-> client.from, by |-> client.from]
  BY TypeParts, ReadyOthers DEF SearchInv
<1>2. signed'[c] = signed[c] \/ (signed'[c].by = Source /\ signed'[c].account = Source)
  BY <1>1
<1>3. CallInv(c)'
  BY <1>1, <1>2, CallInvFrom
<1>4. Reads(pc[Me(c)])'
  BY <1>1 DEF Reads, FileLabels
<1> QED BY <1>1, <1>3, <1>4 DEF KeepsSource

LEMMA SignatureSource ==
  ASSUME SearchInv, SourceInv, Uncontested, UNCHANGED given, UNCHANGED cacheVars,
         NEW c \in Call, NEW account, RequestSignature(c, account), cachedCredential # None,
         pc[Me(c)] \in Holding, account = Source \/ env.keyFile = "key"
  PROVE  KeepsSource(c)
<1>1. /\ Others(c) /\ pc'[Me(c)] = "signBlob" /\ returned' = returned
      /\ signed'[c] = [account |-> account, by |-> cachedCredential.from]
  BY TypeParts, SignatureOthers DEF SearchInv
<1>2. CacheInv' /\ cachedCredential.from = Source /\ CallInv(c)
  BY CacheKept DEF SourceInv, CacheInv
<1>3. signed'[c].by = Source /\ (signed'[c].account = Source \/ env.keyFile = "key")
  BY <1>1, <1>2
<1>4. CallInv(c)'
  BY <1>1, <1>2, <1>3, CallInvFrom DEF CallInv
<1>5. Reads(pc[Me(c)])'
  BY <1>1 DEF Reads, FileLabels
<1> QED BY <1>1, <1>2, <1>4, <1>5 DEF KeepsSource

(* What the steps put into the cache.                                      *)
LEMMA CachesSource ==
  ASSUME Uncontested, UNCHANGED given, NEW source \in Sources, source = Source,
         NEW json \in Json, json = env[Source], NEW options,
         cacheClientFromJSON(source, json, options)
  PROVE  CacheInv' /\ cachedCredential'.from = Source
<1>1. /\ jsonContent' = [from |-> source, json |-> json]
      /\ cachedCredential' = [from |-> source, json |-> json, options |-> options]
  BY DEF cacheClientFromJSON, ClientOf
<1>2. json # None /\ jsonContent' # None
  <2>1. [from |-> source, json |-> json] \in [from : Sources, json : Json]
    OBVIOUS
  <2> QED BY <1>1, <2>1, NoneIsNew
<1>3. /\ jsonContent'.from = source /\ jsonContent'.json = json
      /\ cachedCredential'.from = source /\ cachedCredential'.json = json
  BY <1>1
<1>4. jsonContent' = [from |-> cachedCredential'.from, json |-> cachedCredential'.json]
  BY <1>1, <1>3
<1>5. env' = env /\ Source' = Source
  BY SourceKept
<1> QED BY <1>2, <1>3, <1>4, <1>5 DEF CacheInv, JsonMatchesClient

(* A file that is read is the source's.  If it is not JSON, it is the key  *)
(* file of the constructor.                                                *)
LEMMA StreamSource ==
  ASSUME SearchInv, CacheInv, Uncontested, UNCHANGED given, NEW label \in FileLabels,
         Reads(label), ~Unreadable(label), NEW options, fromStreamAsync(label, options)
  PROVE  CacheInv' /\ cachedCredential'.from = Source
<1>1. env \in Environment /\ CacheOK
  BY TypeParts DEF SearchInv
<1>2. SourceOf(label) = Source
  BY DEF Reads
<1>3. CASE Parses(label) /\ cacheClientFromJSON(SourceOf(label), Content(label), options)
  <2>1. SourceOf(label) \in Sources /\ Content(label) \in Json /\ Content(label) = env[Source]
    BY <1>1, <1>2, <1>3, ContentOK DEF FileLabels, Content
  <2> QED BY <1>2, <1>3, <2>1, CachesSource
<1>4. CASE ~Parses(label) /\ cachedCredential' = ClientOf("keyFile", None, "clientOptions")
           /\ UNCHANGED jsonContent
  <2>1. env.keyFile # None /\ Content(label) \notin Json /\ Content(label) # "missing"
    BY <1>4 DEF Unreadable, Parses
  <2>2. SourceOf(label) \in {"keyFile", "envFile", "wellKnownFile"}
    BY DEF FileLabels, SourceOf
  <2>3. Source = "keyFile" /\ env.credentials = None
    BY <1>2, <2>1, <2>2 DEF Source, ConfiguredSource, FirstDefault
  <2>4. env.keyFile = "key"
    <3>1. Content(label) = env.keyFile
      BY <1>2, <2>3 DEF Content
    <3>2. env.keyFile \in Json \union {"key", "missing"} \union {None}
      BY <1>1 DEF Environment, Contents
    <3> QED BY <2>1, <3>1, <3>2
  <2>5. jsonContent = None
    <3>1. jsonContent # None => env.keyFile \in Json
      BY <1>1, <2>3 DEF CacheInv, CacheOK
    <3> QED BY <2>4, <3>1 DEF Json
  <2>6. cachedCredential'.from = "keyFile" /\ cachedCredential'.json = None
    BY <1>4 DEF ClientOf
  <2>7. env' = env /\ Source' = Source /\ (Accountless' <=> Accountless)
    BY SourceKept
  <2> QED BY <1>4, <2>3, <2>4, <2>5, <2>6, <2>7 DEF CacheInv, JsonMatchesClient, Accountless
<1> QED BY <1>3, <1>4 DEF fromStreamAsync

(* The metadata server, where nothing else is configured.                  *)
LEMMA ComputeSource ==
  ASSUME SearchInv, SourceInv, Uncontested, UNCHANGED given, Source = "gce",
         NEW c \in Call, NEW m, NEW isGCE, ComputeOrFail(c, m, isGCE)
  PROVE  KeepsSource(c)
<1>1. CacheInv /\ CacheOK
  BY TypeParts DEF SearchInv, SourceInv
<1>2. CASE isGCE
  <2>1. /\ cachedCredential' = ClientOf("gce", None, OptionsFor(m))
        /\ HoldAndAskProject(c, None) /\ jsonContent' = jsonContent
    BY <1>2 DEF ComputeOrFail
  <2>2. jsonContent = None
    BY <1>1 DEF CacheInv, CacheOK, Sources
  <2>3. cachedCredential'.from = "gce" /\ cachedCredential'.json = None
    BY <2>1 DEF ClientOf
  <2>4. env' = env /\ Source' = Source
    BY SourceKept
  <2>5. CacheInv'
    BY <1>1, <2>1, <2>2, <2>3, <2>4 DEF CacheInv, JsonMatchesClient, Accountless
  <2> QED BY <2>1, <2>5, HoldSource
<1>3. CASE ~isGCE
  BY <1>1, <1>3, CacheKept, FailSource DEF ComputeOrFail
<1> QED BY <1>2, <1>3

LEMMA DefaultSource ==
  ASSUME SearchInv, SourceInv, Uncontested, UNCHANGED given,
         env.credentials = None, env.keyFile = None,
         NEW c \in Call, NEW m, getApplicationDefaultAsync(c, m)
  PROVE  KeepsSource(c)
<1>1. CacheInv
  BY DEF SourceInv
<1>2. DefaultFile = (IF Source = "gce" THEN None ELSE Source)
  BY DEF DefaultFile, Source, ConfiguredSource, FirstDefault
<1>3. CASE /\ cachedCredential # None /\ HoldAndAskProject(c, cachedCredential)
           /\ UNCHANGED cacheVars
  BY <1>1, <1>3, CacheKept, HoldSource DEF CacheInv
<1>4. CASE DefaultFile # None /\ Await(Me(c), DefaultFile) /\ UNCHANGED cacheVars
  <2>1. DefaultFile = Source /\ DefaultFile \in {"envFile", "wellKnownFile"}
    BY <1>2, <1>4 DEF DefaultFile
  <2>2. Reads(DefaultFile) /\ DefaultFile # "probing" /\ DefaultFile \notin Holding
    BY <2>1 DEF Reads, SourceOf, Holding
  <2>3. DefaultFile \notin {"probingForAccount", "account"}
    BY <2>1
  <2> QED BY <1>1, <1>4, <2>2, <2>3, CacheKept, PlainSource
<1>5. CASE Fail(Me(c)) /\ UNCHANGED cacheVars
  BY <1>1, <1>5, CacheKept, FailSource
<1>6. ASSUME DefaultFile = None
      PROVE  Source = "gce"
  BY <1>6, NoneIsNew DEF DefaultFile, Source, ConfiguredSource, FirstDefault, ProjectIds, Sources
<1>7. CASE DefaultFile = None /\ Await(Me(c), "probing") /\ UNCHANGED cacheVars
  BY <1>1, <1>6, <1>7, CacheKept, PlainSource DEF Reads, FileLabels, Holding
<1>8. CASE DefaultFile = None /\ ComputeOrFail(c, m, checkIsGCE)
  BY <1>6, <1>8, ComputeSource
<1> QED BY <1>3, <1>4, <1>5, <1>7, <1>8 DEF getApplicationDefaultAsync

LEMMA ClientSource ==
  ASSUME SearchInv, SourceInv, Uncontested, UNCHANGED given,
         NEW c \in Call, getClient(c, method[c])
  PROVE  KeepsSource(c)
<1>1. CacheInv /\ CacheOK /\ env \in Environment
  BY TypeParts DEF SearchInv, SourceInv
<1>2. CASE /\ cachedCredential # None /\ UNCHANGED cacheVars
           /\ ClientReady(c, method[c], cachedCredential, jsonContent)
  BY <1>1, <1>2, CacheKept, ReadySource DEF CacheInv
<1>3. CASE /\ jsonContent # None
           /\ cacheClientFromJSON(jsonContent.from, jsonContent.json, "clientOptions")
           /\ ClientReady(c, method[c], cachedCredential', jsonContent')
  <2>1. /\ jsonContent.from \in Sources /\ jsonContent.json \in Json
        /\ jsonContent.from = Source /\ jsonContent.json = env[Source]
    BY <1>1, <1>3 DEF CacheInv, CacheOK
  <2>2. CacheInv' /\ cachedCredential'.from = Source /\ cachedCredential' # None
    BY <1>1, <1>3, <2>1, CachesSource, CachedFromJson
  <2> QED BY <1>3, <2>2, ReadySource
<1>4. CASE /\ jsonContent = None /\ env.keyFile # None
           /\ Await(Me(c), "keyFile") /\ UNCHANGED cacheVars
  <2>1. Source = "keyFile"
    BY <1>1, <1>4 DEF CacheInv, Source, ConfiguredSource, FirstDefault
  <2> QED BY <1>1, <1>4, <2>1, CacheKept, PlainSource DEF Reads, SourceOf, Holding
<1>5. CASE jsonContent = None /\ env.keyFile = None /\ getApplicationDefaultAsync(c, method[c])
  BY <1>1, <1>5, DefaultSource DEF CacheInv
<1> QED BY <1>2, <1>3, <1>4, <1>5 DEF getClient

LEMMA BeginSource ==
  ASSUME SearchInv, SourceInv, Uncontested, NEW c \in Call, Begin(c)
  PROVE  KeepsSource(c)
<1>1. CacheInv /\ CallInv(c) /\ ProjectOK /\ UNCHANGED given
  BY TypeParts DEF SearchInv, SourceInv, Begin
<1>2. CASE getClient(c, method[c])
  BY <1>1, <1>2, ClientSource
<1>3. CASE method[c] = "getApplicationDefault" /\ getApplicationDefaultAsync(c, method[c])
  BY <1>1, <1>3, DefaultSource DEF Uncontested
<1>4. CASE /\ getProjectIdAsync(Me(c), "project")
           /\ UNCHANGED <<cacheVars, returned, signed>>
  <2>1. pc'[Me(c)] = "project" /\ Others(c)
    BY <1>1, <1>4, AskOthers DEF Others
  <2>2. CallInv(c)'
    BY <1>1, <1>4, <2>1, CallInvFrom DEF CallInv, Holding
  <2>3. Reads(pc[Me(c)])'
    BY <2>1 DEF Reads, FileLabels
  <2> QED BY <1>1, <1>4, <2>1, <2>2, <2>3, CacheKept DEF KeepsSource
<1> QED BY <1>2, <1>3, <1>4 DEF Begin

LEMMA SettledSource ==
  ASSUME SearchInv, SourceInv, Uncontested, NEW c \in Call, ProjectSettled(c)
  PROVE  KeepsSource(c)
<1>1. /\ CacheInv /\ CallInv(c) /\ CacheOK /\ ProjectOK /\ ResultsOK
      /\ UNCHANGED given /\ UNCHANGED cacheVars /\ CacheInv'
  BY TypeParts, CacheKept DEF SearchInv, SourceInv, ProjectSettled
<1>2. pc[Me(c)] \in {"project", "signProject"}
  BY DEF ProjectSettled, AwaitsProject
<1>3. pc[Me(c)] = "signProject" \/ method[c] # "getProjectId" =>
        cachedCredential # None /\ cachedCredential.from = Source
  BY <1>1, <1>2 DEF SearchInv, HasClient, WithClient, CacheInv
<1>4. CASE Fail(Me(c))
  BY <1>1, <1>4, FailSource
<1>5. CASE pc[Me(c)] = "signProject" /\ getCredentialsToSign(c)
  <2>1. CASE jsonContent = None /\ Await(Me(c), AccountOfGCE)
    <3>1. AccountOfGCE \in {"probingForAccount", "account", "failed"}
      BY DEF AccountOfGCE
    <3>2. cachedCredential.json = None
      <4>1. cachedCredential \in Client
        BY <1>1, <1>3, <1>5 DEF CacheOK
      <4>2. cachedCredential.json \in Json =>
              [from |-> cachedCredential.from, json |-> cachedCredential.json]
                \in [from : Sources \union {"gce"}, json : Json]
        BY <4>1 DEF Client
      <4>3. cachedCredential.json # None =>
              None = [from |-> cachedCredential.from, json |-> cachedCredential.json]
        BY <1>1, <1>3, <1>5, <2>1 DEF CacheInv, JsonMatchesClient
      <4> QED BY <4>1, <4>2, <4>3, NoneIsNew DEF Client
    <3>3. Accountless
      BY <1>1, <1>3, <1>5, <3>2 DEF CacheInv
    <3>4. Reads(AccountOfGCE) /\ AccountOfGCE # "probing" /\ pc[Me(c)] \in Holding
      BY <1>5, <3>1 DEF Reads, FileLabels, Holding
    <3> QED BY <1>1, <2>1, <3>3, <3>4, PlainSource
  <2>2. CASE jsonContent # None /\ RequestSignature(c, jsonContent.from)
    <3>1. jsonContent.from = Source
      BY <1>1, <2>2 DEF CacheInv
    <3>2. pc[Me(c)] \in Holding
      BY <1>5 DEF Holding
    <3> QED BY <1>1, <1>3, <1>5, <2>2, <3>1, <3>2, SignatureSource
  <2> QED BY <1>4, <1>5, <2>1, <2>2 DEF getCredentialsToSign
<1>6. CASE /\ method[c] \in Searches
           /\ ClientReady(c, method[c], cachedCredential, jsonContent)
  BY <1>1, <1>3, <1>6, ReadySource DEF Searches
<1>7. CASE /\ method[c] \in {"getProjectId", "getApplicationDefault"}
           /\ Goto(Me(c), "done") /\ UNCHANGED <<wait, signed, projectVars>>
           /\ \E client, id :
                /\ returned' = [returned EXCEPT ![c] = [client |-> client, project |-> id]]
                /\ client = IF method[c] = "getProjectId" THEN None
                            ELSE IF returned[c].client # None THEN returned[c].client
                                 ELSE cachedCredential
  <2>1. PICK client, id :
          /\ returned' = [returned EXCEPT ![c] = [client |-> client, project |-> id]]
          /\ client = IF method[c] = "getProjectId" THEN None
                      ELSE IF returned[c].client # None THEN returned[c].client
                           ELSE cachedCredential
    BY <1>7
  <2>2. /\ returned'[c].client = client
        /\ \A e \in Call : e # c => returned'[e] = returned[e]
    BY <1>1, <2>1 DEF ResultsOK
  <2>3. /\ client # None => client.from = Source
        /\ method[c] # "getProjectId" => client # None
    BY <1>1, <1>3, <2>1 DEF CallInv
  <2>4. pc'[Me(c)] = "done" /\ \A a \in Actor : a # Me(c) => pc'[a] = pc[a]
    BY <1>1, <1>7, Actors DEF Goto, ProjectOK
  <2>5. CallInv(c)'
    BY <1>1, <1>7, <2>2, <2>3, <2>4, CallInvFrom
  <2>6. Others(c) /\ Reads(pc[Me(c)])'
    BY <1>7, <2>2, <2>4 DEF Others, Reads, FileLabels
  <2> QED BY <1>1, <2>5, <2>6 DEF KeepsSource
<1> QED BY <1>4, <1>5, <1>6, <1>7 DEF ProjectSettled

LEMMA ReadSource ==
  ASSUME SearchInv, SourceInv, Uncontested, NEW c \in Call, FileRead(c)
  PROVE  KeepsSource(c)
<1>1. /\ CacheInv /\ Reads(pc[Me(c)]) /\ CacheOK /\ env \in Environment
      /\ UNCHANGED given /\ pc[Me(c)] \in FileLabels
  BY TypeParts, Actors DEF SearchInv, SourceInv, FileRead, FileReading, FileLabels
<1>2. ~Unreadable(pc[Me(c)]) /\ fromStreamAsync(pc[Me(c)], OptionsFor(method[c]))
  BY DEF FileRead
<1>3. CacheInv' /\ cachedCredential'.from = Source
  BY <1>1, <1>2, StreamSource
<1>4. cachedCredential' # None
  BY <1>1, <1>2, StreamOK, OptionsForOK DEF FileLabels
<1>5. CASE ClientReady(c, method[c], cachedCredential', jsonContent')
  BY <1>1, <1>3, <1>4, <1>5, ReadySource
<1>6. CASE HoldAndAskProject(c, cachedCredential')
  BY <1>1, <1>3, <1>6, HoldSource
<1> QED BY <1>5, <1>6 DEF FileRead

LEMMA AvailableSource ==
  ASSUME SearchInv, SourceInv, Uncontested, NEW c \in Call, IsAvailable(c)
  PROVE  KeepsSource(c)
<1>1. CacheInv /\ CallInv(c) /\ UNCHANGED given
  BY DEF SourceInv, IsAvailable
<1>2. CASE pc[Me(c)] = "probing" /\ ComputeOrFail(c, method[c], env.gce)
  BY <1>1, <1>2, ComputeSource DEF CallInv
<1>3. CASE /\ pc[Me(c)] = "probingForAccount" /\ UNCHANGED cacheVars
           /\ Await(Me(c), "account")
  BY <1>1, <1>3, CacheKept, PlainSource DEF CallInv, Reads, FileLabels, Holding
<1>4. CASE Fail(Me(c)) /\ UNCHANGED cacheVars
  BY <1>1, <1>4, CacheKept, FailSource
<1> QED BY <1>2, <1>3, <1>4 DEF IsAvailable

LEMMA EndsSource ==
  ASSUME SearchInv, SourceInv, Uncontested, NEW c \in Call,
         IsAvailableThrows(c) \/ AccountRead(c) \/ ClientAnswers(c) \/ FileError(Me(c))
  PROVE  KeepsSource(c)
<1>1. CacheInv /\ CallInv(c) /\ UNCHANGED given /\ UNCHANGED cacheVars /\ CacheInv'
  BY CacheKept DEF SourceInv, IsAvailableThrows, AccountRead, ClientAnswers, FileError
<1>2. CASE Fail(Me(c))
  BY <1>1, <1>2, FailSource
<1>3. CASE pc[Me(c)] \in Holding /\ Await(Me(c), "done")
  BY <1>1, <1>3, PlainSource DEF Reads, FileLabels
<1>4. CASE pc[Me(c)] = "account" /\ method[c] = "sign" /\ RequestSignature(c, "gce")
  <2>1. Accountless /\ pc[Me(c)] \in Holding
    BY <1>1, <1>4 DEF CallInv, Holding
  <2>2. cachedCredential # None
    BY <1>4 DEF SearchInv, HasClient, WithClient
  <2> QED BY <1>1, <1>4, <2>1, <2>2, SignatureSource DEF Accountless
<1> QED BY <1>2, <1>3, <1>4, Actors
     DEF IsAvailableThrows, AccountRead, ClientAnswers, FileError, Holding

LEMMA CallSource ==
  ASSUME SearchInv, SourceInv, NEW c \in Call, Begin(c) \/ Step(c)
  PROVE  SourceInv'
<1>1. CASE EnvStep(c)
  <2>1. UNCHANGED Searching
    BY <1>1 DEF EnvStep
  <2>2. Source' = Source /\ (Accountless' <=> Accountless) /\ (Uncontested' <=> Uncontested)
    BY <2>1 DEF Searching, Source, ConfiguredSource, FirstDefault, Accountless, Uncontested
  <2> QED BY <2>1, <2>2 DEF Searching, cacheVars, callVars, SourceInv, CacheInv,
                            JsonMatchesClient, Reads, SourceOf, CallInv
<1>2. CASE ~EnvStep(c)
  <2>1. UNCHANGED given
    BY <1>2 DEF Begin, Step, ProjectSettled, FileRead, FileError, IsAvailable,
                IsAvailableThrows, AccountRead, ClientAnswers
  <2>2. Uncontested => KeepsSource(c)
    BY <1>2, BeginSource, SettledSource, ReadSource, AvailableSource, EndsSource DEF Step
  <2>3. CASE Uncontested
    BY <2>1, <2>2, <2>3, CallKeepsSource DEF KeepsSource
  <2>4. CASE ~Uncontested
    BY <2>1, <2>4, SourceKept DEF SourceInv
  <2> QED BY <2>3, <2>4
<1> QED BY <1>1, <1>2

(* The detection reads the source's file too, or none.                     *)
LEMMA EnvFileSource ==
  ASSUME Uncontested, env.envFile # None
  PROVE  Source = "envFile" /\ env.keyFile = None
BY DEF Uncontested, Source, ConfiguredSource, FirstDefault

DetectionReads(d) ==
  \/ pc'[d] \notin FileLabels
  \/ pc'[d] = "detectFile" /\ Source = "envFile"
  \/ pc'[d] = "keyFile" /\ Source = "keyFile"

LEMMA EnvFileReads ==
  ASSUME ProjectOK, Uncontested, NEW d \in Detections, ReadEnvFile(d)
  PROVE  DetectionReads(d)
BY EnvFileSource, Actors
   DEF ReadEnvFile, Reject, Await, Goto, ProjectOK, DetectionReads, FileLabels

LEMMA ResolveReads ==
  ASSUME ProjectOK, NEW d \in Detections, NEW id, NEW label, label \notin FileLabels,
         Resolve(d, id) \/ Reject(d) \/ Await(d, label) \/ ResolveOr(d, id, label)
  PROVE  DetectionReads(d)
BY Actors DEF Resolve, Reject, Await, ResolveOr, Goto, ProjectOK, DetectionReads, FileLabels

LEMMA DetectionSource ==
  ASSUME SearchInv, SourceInv, Uncontested, NEW d \in Detections, DetectionStep(d)
  PROVE  CacheInv' /\ DetectionReads(d)
<1>1. /\ CacheInv /\ CacheOK /\ ProjectOK /\ env \in Environment /\ Reads(pc[d])
      /\ UNCHANGED given
  BY TypeParts, Actors, DetectionMoves DEF SearchInv, SourceInv
<1>2. "gcloud" \notin FileLabels /\ "metadata" \notin FileLabels /\ "external" \notin FileLabels
  BY DEF FileLabels
<1>3. ASSUME jsonContent # None
      PROVE  /\ jsonContent.from \in Sources /\ jsonContent.from = Source
             /\ jsonContent.json \in Json /\ jsonContent.json = env[Source]
  BY <1>1, <1>3 DEF CacheInv, CacheOK
<1>4. CASE DetectionStarts(d)
  <2>1. CASE Resolve(d, "variable") /\ UNCHANGED cacheVars
    BY <1>1, <1>2, <2>1, CacheKept, ResolveReads
  <2>2. CASE ResolveOr(d, ProjectOf(cachedCredential), "gcloud") /\ UNCHANGED cacheVars
    BY <1>1, <1>2, <2>2, CacheKept, ResolveReads
  <2>3. CASE ReadEnvFile(d) /\ UNCHANGED cacheVars
    BY <1>1, <2>3, CacheKept, EnvFileReads
  <2>4. CASE /\ env.keyFile # None /\ jsonContent = None
             /\ Await(d, "keyFile") /\ UNCHANGED cacheVars
    <3>1. Source = "keyFile"
      BY <1>1, <2>4 DEF CacheInv, Source, ConfiguredSource, FirstDefault
    <3>2. pc'[d] = "keyFile"
      BY <1>1, <2>4, Actors DEF Await, Goto, ProjectOK
    <3> QED BY <1>1, <2>4, <3>1, <3>2, CacheKept DEF DetectionReads
  <2>5. CASE /\ jsonContent # None
             /\ cacheClientFromJSON(jsonContent.from, jsonContent.json, "clientOptions")
             /\ \/ Resolve(d, ProjectOf(cachedCredential'))
                \/ ReadEnvFile(d)
    BY <1>1, <1>2, <1>3, <2>5, CachesSource, ResolveReads, EnvFileReads
  <2> QED BY <1>4, <2>1, <2>2, <2>3, <2>4, <2>5 DEF DetectionStarts, getFileProjectId
<1>5. CASE DetectionFileRead(d)
  <2>1. pc[d] \in FileLabels
    BY <1>5 DEF DetectionFileRead, FileReading, FileLabels
  <2>2. CacheInv'
    BY <1>1, <1>5, <2>1, StreamSource DEF DetectionFileRead, SearchInv
  <2>3. DetectionReads(d)
    BY <1>1, <1>2, <1>5, ResolveReads, EnvFileReads DEF DetectionFileRead
  <2> QED BY <2>2, <2>3
<1>6. CASE FileError(d)
  BY <1>1, <1>2, <1>6, CacheKept, ResolveReads DEF FileError, Reject
<1>7. CASE GcloudEnds(d)
  BY <1>1, <1>2, <1>7, CacheKept, ResolveReads DEF GcloudEnds
<1>8. CASE MetadataProject(d)
  <2>1. CASE /\ Resolve(d, "gce") \/ Reject(d) \/ Await(d, "external")
             /\ UNCHANGED cacheVars
    BY <1>1, <1>2, <2>1, CacheKept, ResolveReads
  <2>2. CASE /\ HasExternalJson /\ Await(d, "external")
             /\ cacheClientFromJSON(jsonContent.from, "external", "clientOptions")
    BY <1>1, <1>2, <1>3, <2>2, CachesSource, ResolveReads DEF HasExternalJson
  <2> QED BY <1>8, <2>1, <2>2 DEF MetadataProject
<1>9. CASE ExternalProject(d)
  BY <1>1, <1>2, <1>9, CacheKept, ResolveReads DEF ExternalProject
<1> QED BY <1>4, <1>5, <1>6, <1>7, <1>8, <1>9 DEF DetectionStep

LEMMA DetectionKeepsSource ==
  ASSUME SearchInv, SourceInv, NEW d \in Detections, DetectionStep(d)
  PROVE  SourceInv'
<1>1. ProjectOK /\ Moves(d) /\ UNCHANGED given
  BY TypeParts, DetectionMoves DEF SearchInv
<1>2. /\ returned' = returned /\ signed' = signed
      /\ \A a \in Actor : a # d => pc'[a] = pc[a]
  BY <1>1, Actors DEF Moves, Resolve, Reject, Await, Goto, callVars, ProjectOK
<1>3. /\ env' = env /\ method' = method /\ Source' = Source
      /\ (Accountless' <=> Accountless) /\ (Uncontested' <=> Uncontested)
  BY <1>1, SourceKept
<1> SUFFICES ASSUME Uncontested
             PROVE  /\ CacheInv'
                    /\ \A a \in Actor : Reads(pc[a])'
                    /\ \A e \in Call : CallInv(e)'
  BY <1>3 DEF SourceInv
<1>4. CacheInv' /\ DetectionReads(d)
  BY DetectionSource
<1>5. ASSUME NEW a \in Actor
      PROVE  Reads(pc[a])'
  <2>1. CASE a = d
    BY <1>3, <1>4, <2>1 DEF DetectionReads, Reads, SourceOf, FileLabels
  <2>2. CASE a # d
    BY <1>2, <1>3, <1>5, <2>2 DEF SourceInv, Reads, SourceOf, FileLabels
  <2> QED BY <2>1, <2>2
<1>6. ASSUME NEW e \in Call
      PROVE  CallInv(e)'
  <2>1. pc'[Me(e)] = pc[Me(e)]
    BY <1>2, Actors
  <2> QED BY <1>2, <1>3, <2>1 DEF SourceInv, CallInv, Holding
<1> QED BY <1>4, <1>5, <1>6

LEMMA SourceNext == SearchInv /\ SourceInv /\ [Next]_vars => SourceInv'
<1> SUFFICES ASSUME SearchInv, SourceInv, [Next]_vars
             PROVE  SourceInv'
  OBVIOUS
<1>1. CASE UNCHANGED Searching
  <2>1. Source' = Source /\ (Accountless' <=> Accountless) /\ (Uncontested' <=> Uncontested)
    BY <1>1 DEF Searching, Source, ConfiguredSource, FirstDefault, Accountless, Uncontested
  <2> QED BY <1>1, <2>1 DEF Searching, cacheVars, callVars, SourceInv, CacheInv,
                            JsonMatchesClient, Reads, SourceOf, CallInv
<1>2. CASE Clear \/ UNCHANGED vars
  BY <1>1, <1>2 DEF Clear, vars, given, Searching
<1>3. ASSUME NEW c \in Call, GetEnv(c)
      PROVE  SourceInv'
  BY <1>1, <1>3 DEF GetEnv
<1>4. ASSUME NEW c \in Call, Begin(c) \/ Step(c)
      PROVE  SourceInv'
  BY <1>4, CallSource
<1>5. ASSUME NEW d \in Detections, DetectionStep(d)
      PROVE  SourceInv'
  BY <1>5, DetectionKeepsSource
<1> QED BY <1>2, <1>3, <1>4, <1>5 DEF Next

LEMMA SourceInvariant == Spec => [](SearchInv /\ SourceInv)
BY SearchInvariant, SourceInit, SourceNext, PTL DEF Spec

-----------------------------------------------------------------------------
(* Where clients come from in any environment.                             *)

CacheOrigin ==
  /\ jsonContent # None => jsonContent.from \in Candidates
  /\ env.credentials # None => jsonContent # None
  /\ cachedCredential # None => cachedCredential.from \in Candidates

Origin(label) == label \in FileLabels => SourceOf(label) \in Candidates

CallOrigin(c) ==
  /\ pc[Me(c)] = "probing" => "gce" \in Candidates
  /\ returned[c].client # None => returned[c].client.from \in Candidates
  /\ pc[Me(c)] \in Holding /\ method[c] # "getProjectId" => returned[c].client # None

OriginInv == /\ CacheOrigin
             /\ \A a \in Actor : Origin(pc[a])
             /\ \A c \in Call : CallOrigin(c)

LEMMA OriginInit == Init => OriginInv
<1> SUFFICES ASSUME Init
             PROVE  OriginInv
  OBVIOUS
<1>1. env \in Environment
  BY SearchInit, TypeParts DEF SearchInv
<1>2. CASE env.credentials # None
  <2>1. env.credentials \in Json /\ "credentials" \in Sources /\ "credentials" \in Candidates
    BY <1>1, <1>2 DEF Environment, Sources, Candidates, ConfiguredSource
  <2>2. [from |-> "credentials", json |-> env.credentials] \in [from : Sources, json : Json]
    BY <2>1
  <2>3. jsonContent # None /\ jsonContent.from = "credentials"
    BY <1>2, <2>2, NoneIsNew DEF Init
  <2> QED BY <2>1, <2>3, Actors
          DEF Init, OriginInv, CacheOrigin, Origin, CallOrigin, FileLabels, Holding
<1>3. CASE env.credentials = None
  BY <1>3, Actors DEF Init, OriginInv, CacheOrigin, Origin, CallOrigin, FileLabels, Holding
<1> QED BY <1>2, <1>3

(* The candidates do not change: what a step of a call is to show, of the  *)
(* call and of the cache.                                                  *)
Arrives(c) ==
  /\ Others(c)
  /\ Origin(pc'[Me(c)])
  /\ pc'[Me(c)] = "probing" => "gce" \in Candidates
  /\ returned'[c].client # None => returned'[c].client.from \in Candidates
  /\ pc'[Me(c)] \in Holding /\ method[c] # "getProjectId" => returned'[c].client # None

Caches ==
  /\ jsonContent' # None => jsonContent'.from \in Candidates
  /\ env.credentials # None => jsonContent' # None
  /\ cachedCredential' # None => cachedCredential'.from \in Candidates

LEMMA CandidatesKept ==
  ASSUME UNCHANGED given
  PROVE  env' = env /\ method' = method /\ Candidates' = Candidates
BY DEF given, Candidates, ConfiguredSource, FirstDefault

LEMMA CallKeepsOrigin ==
  ASSUME SearchInv, OriginInv, NEW c \in Call, UNCHANGED given, Arrives(c), Caches
  PROVE  OriginInv'
<1>1. env' = env /\ method' = method /\ Candidates' = Candidates
  BY CandidatesKept
<1>2. CacheOrigin'
  BY <1>1 DEF Caches, CacheOrigin
<1>3. ASSUME NEW a \in Actor
      PROVE  Origin(pc[a])'
  BY <1>1, <1>3 DEF Arrives, Others, OriginInv, Origin, FileLabels, SourceOf
<1>4. ASSUME NEW e \in Call
      PROVE  CallOrigin(e)'
  <2>1. CASE e # c
    <3>1. pc'[Me(e)] = pc[Me(e)] /\ returned'[e] = returned[e]
      BY <2>1, Actors DEF Arrives, Others
    <3> QED BY <1>1, <3>1 DEF OriginInv, CallOrigin
  <2> QED BY <1>1, <2>1 DEF Arrives, CallOrigin
<1> QED BY <1>2, <1>3, <1>4 DEF OriginInv

LEMMA CachesKept ==
  ASSUME OriginInv, UNCHANGED cacheVars
  PROVE  Caches
BY DEF OriginInv, CacheOrigin, Caches, cacheVars

LEMMA PlainOrigin ==
  ASSUME SearchInv, OriginInv, NEW c \in Call, NEW label, Await(Me(c), label),
         Origin(label), label = "probing" => "gce" \in Candidates,
         label \in Holding => pc[Me(c)] \in Holding
  PROVE  Arrives(c)
<1>1. Others(c) /\ pc'[Me(c)] = label /\ returned' = returned
  BY TypeParts, PlainOthers DEF SearchInv
<1> QED BY <1>1 DEF Arrives, OriginInv, CallOrigin

LEMMA FailOrigin ==
  ASSUME SearchInv, OriginInv, NEW c \in Call, Fail(Me(c))
  PROVE  Arrives(c)
<1>1. Await(Me(c), "failed")
  BY DEF Fail, Await
<1> QED BY <1>1, PlainOrigin DEF Origin, FileLabels, Holding

LEMMA HoldOrigin ==
  ASSUME SearchInv, NEW c \in Call, NEW client, HoldAndAskProject(c, client),
         client # None => client.from \in Candidates
  PROVE  Arrives(c)
<1>1. Others(c) /\ pc'[Me(c)] = "project" /\ returned'[c].client = client
  BY TypeParts, HoldOthers DEF SearchInv
<1> QED BY <1>1 DEF Arrives, Origin, FileLabels, Holding

LEMMA ReadyOrigin ==
  ASSUME SearchInv, NEW c \in Call, NEW client, NEW json,
         ClientReady(c, method[c], client, json), client # None, client.from \in Candidates
  PROVE  Arrives(c)
<1>1. /\ Others(c) /\ returned'[c].client = client
      /\ pc'[Me(c)] # "probing" /\ pc'[Me(c)] \notin FileLabels
  BY TypeParts, ReadyOthers DEF SearchInv
<1> QED BY <1>1 DEF Arrives, Origin

LEMMA SignatureOrigin ==
  ASSUME SearchInv, OriginInv, NEW c \in Call, NEW account, RequestSignature(c, account),
         pc[Me(c)] \in Holding
  PROVE  Arrives(c)
<1>1. Others(c) /\ pc'[Me(c)] = "signBlob" /\ returned' = returned
  BY TypeParts, SignatureOthers DEF SearchInv
<1> QED BY <1>1 DEF Arrives, Origin, FileLabels, OriginInv, CallOrigin

(* What is read comes from a candidate: JSON from its file, anything else  *)
(* from the key file.                                                      *)
LEMMA JsonOrigin ==
  ASSUME NEW source \in Sources, source \in Candidates, NEW json \in Json, NEW options,
         cacheClientFromJSON(source, json, options)
  PROVE  Caches /\ cachedCredential'.from \in Candidates
<1>1. /\ jsonContent' = [from |-> source, json |-> json]
      /\ cachedCredential' = [from |-> source, json |-> json, options |-> options]
  BY DEF cacheClientFromJSON, ClientOf
<1>2. jsonContent' # None
  <2>1. [from |-> source, json |-> json] \in [from : Sources, json : Json]
    OBVIOUS
  <2> QED BY <1>1, <2>1, NoneIsNew
<1>3. jsonContent'.from = source /\ cachedCredential'.from = source
  BY <1>1
<1> QED BY <1>2, <1>3 DEF Caches

LEMMA StreamOrigin ==
  ASSUME SearchInv, OriginInv, NEW label \in FileLabels, Origin(label), ~Unreadable(label),
         NEW options, fromStreamAsync(label, options)
  PROVE  Caches /\ cachedCredential'.from \in Candidates
<1>1. env \in Environment
  BY TypeParts DEF SearchInv
<1>2. CASE Parses(label) /\ cacheClientFromJSON(SourceOf(label), Content(label), options)
  <2>1. SourceOf(label) \in Sources /\ Content(label) \in Json
    BY <1>1, <1>2, ContentOK DEF FileLabels
  <2> QED BY <1>2, <2>1, JsonOrigin DEF Origin
<1>3. CASE ~Parses(label) /\ cachedCredential' = ClientOf("keyFile", None, "clientOptions")
           /\ UNCHANGED jsonContent
  <2>1. "keyFile" \in Candidates
    BY <1>3 DEF Unreadable, Candidates
  <2>2. cachedCredential'.from = "keyFile"
    BY <1>3 DEF ClientOf
  <2> QED BY <1>3, <2>1, <2>2 DEF Caches, OriginInv, CacheOrigin
<1> QED BY <1>2, <1>3 DEF fromStreamAsync

LEMMA ComputeOrigin ==
  ASSUME SearchInv, OriginInv, "gce" \in Candidates,
         NEW c \in Call, NEW m, NEW isGCE, ComputeOrFail(c, m, isGCE)
  PROVE  Arrives(c) /\ Caches
<1>1. CASE isGCE
  <2>1. cachedCredential'.from = "gce" /\ jsonContent' = jsonContent
    BY <1>1 DEF ComputeOrFail, ClientOf
  <2>2. Caches
    BY <2>1 DEF Caches, OriginInv, CacheOrigin
  <2> QED BY <1>1, <2>2, HoldOrigin DEF ComputeOrFail
<1>2. CASE ~isGCE
  BY <1>2, CachesKept, FailOrigin DEF ComputeOrFail
<1> QED BY <1>1, <1>2

LEMMA DefaultOrigin ==
  ASSUME SearchInv, OriginInv, NEW c \in Call, NEW m, getApplicationDefaultAsync(c, m)
  PROVE  Arrives(c) /\ Caches
<1>1. CASE /\ cachedCredential # None /\ HoldAndAskProject(c, cachedCredential)
           /\ UNCHANGED cacheVars
  BY <1>1, CachesKept, HoldOrigin DEF OriginInv, CacheOrigin
<1>2. CASE DefaultFile # None /\ Await(Me(c), DefaultFile) /\ UNCHANGED cacheVars
  <2>1. DefaultFile = FirstDefault /\ DefaultFile \in {"envFile", "wellKnownFile"}
    BY <1>2 DEF DefaultFile, FirstDefault
  <2>2. Origin(DefaultFile) /\ DefaultFile # "probing" /\ DefaultFile \notin Holding
    BY <2>1 DEF Origin, SourceOf, Holding, Candidates
  <2> QED BY <1>2, <2>2, CachesKept, PlainOrigin
<1>3. CASE Fail(Me(c)) /\ UNCHANGED cacheVars
  BY <1>3, CachesKept, FailOrigin
<1>4. ASSUME DefaultFile = None
      PROVE  "gce" \in Candidates
  BY <1>4, NoneIsNew DEF DefaultFile, FirstDefault, Candidates, ProjectIds, Sources
<1>5. CASE DefaultFile = None /\ Await(Me(c), "probing") /\ UNCHANGED cacheVars
  BY <1>4, <1>5, CachesKept, PlainOrigin DEF Origin, FileLabels, Holding
<1>6. CASE DefaultFile = None /\ ComputeOrFail(c, m, checkIsGCE)
  BY <1>4, <1>6, ComputeOrigin
<1> QED BY <1>1, <1>2, <1>3, <1>5, <1>6 DEF getApplicationDefaultAsync

LEMMA ClientOrigin ==
  ASSUME SearchInv, OriginInv, NEW c \in Call, getClient(c, method[c])
  PROVE  Arrives(c) /\ Caches
<1>1. CacheOK /\ CacheOrigin
  BY TypeParts DEF SearchInv, OriginInv
<1>2. CASE /\ cachedCredential # None /\ UNCHANGED cacheVars
           /\ ClientReady(c, method[c], cachedCredential, jsonContent)
  BY <1>1, <1>2, CachesKept, ReadyOrigin DEF CacheOrigin
<1>3. CASE /\ jsonContent # None
           /\ cacheClientFromJSON(jsonContent.from, jsonContent.json, "clientOptions")
           /\ ClientReady(c, method[c], cachedCredential', jsonContent')
  <2>1. /\ jsonContent.from \in Sources /\ jsonContent.json \in Json
        /\ jsonContent.from \in Candidates
    BY <1>1, <1>3 DEF CacheOrigin, CacheOK
  <2>2. Caches /\ cachedCredential'.from \in Candidates /\ cachedCredential' # None
    BY <1>1, <1>3, <2>1, JsonOrigin, CachedFromJson
  <2> QED BY <1>3, <2>2, ReadyOrigin
<1>4. CASE env.keyFile # None /\ Await(Me(c), "keyFile") /\ UNCHANGED cacheVars
  <2>1. "keyFile" \in Candidates
    BY <1>4 DEF Candidates
  <2> QED BY <1>4, <2>1, CachesKept, PlainOrigin DEF Origin, SourceOf, Holding
<1>5. CASE getApplicationDefaultAsync(c, method[c])
  BY <1>5, DefaultOrigin
<1> QED BY <1>2, <1>3, <1>4, <1>5 DEF getClient

LEMMA SettledOrigin ==
  ASSUME SearchInv, OriginInv, NEW c \in Call, ProjectSettled(c)
  PROVE  Arrives(c)
<1>1. CacheOrigin /\ CallOrigin(c) /\ ProjectOK /\ ResultsOK
  BY TypeParts DEF SearchInv, OriginInv
<1>2. pc[Me(c)] \in {"project", "signProject"}
  BY DEF ProjectSettled, AwaitsProject
<1>3. pc[Me(c)] = "signProject" \/ method[c] # "getProjectId" =>
        cachedCredential # None /\ cachedCredential.from \in Candidates
  BY <1>1, <1>2 DEF SearchInv, HasClient, WithClient, CacheOrigin
<1>4. CASE Fail(Me(c))
  BY <1>4, FailOrigin
<1>5. CASE pc[Me(c)] = "signProject" /\ getCredentialsToSign(c)
  <2>1. AccountOfGCE \in {"probingForAccount", "account", "failed"}
    BY DEF AccountOfGCE
  <2>2. Origin(AccountOfGCE) /\ AccountOfGCE # "probing" /\ pc[Me(c)] \in Holding
    BY <1>5, <2>1 DEF Origin, FileLabels, Holding
  <2> QED BY <1>4, <1>5, <2>2, PlainOrigin, SignatureOrigin DEF getCredentialsToSign
<1>6. CASE /\ method[c] \in Searches
           /\ ClientReady(c, method[c], cachedCredential, jsonContent)
  BY <1>3, <1>6, ReadyOrigin DEF Searches
<1>7. CASE /\ Goto(Me(c), "done") /\ UNCHANGED signed
           /\ \E client, id :
                /\ returned' = [returned EXCEPT ![c] = [client |-> client, project |-> id]]
                /\ client = IF method[c] = "getProjectId" THEN None
                            ELSE IF returned[c].client # None THEN returned[c].client
                                 ELSE cachedCredential
  <2>1. PICK client, id :
          /\ returned' = [returned EXCEPT ![c] = [client |-> client, project |-> id]]
          /\ client = IF method[c] = "getProjectId" THEN None
                      ELSE IF returned[c].client # None THEN returned[c].client
                           ELSE cachedCredential
    BY <1>7
  <2>2. /\ returned'[c].client = client
        /\ \A e \in Call : e # c => returned'[e] = returned[e]
    BY <1>1, <2>1 DEF ResultsOK
  <2>3. /\ client # None => client.from \in Candidates
        /\ method[c] # "getProjectId" => client # None
    BY <1>1, <1>3, <2>1 DEF CallOrigin
  <2>4. pc'[Me(c)] = "done" /\ \A a \in Actor : a # Me(c) => pc'[a] = pc[a]
    BY <1>1, <1>7, Actors DEF Goto, ProjectOK
  <2> QED BY <1>7, <2>2, <2>3, <2>4 DEF Arrives, Others, Origin, FileLabels
<1> QED BY <1>4, <1>5, <1>6, <1>7 DEF ProjectSettled

LEMMA StepOrigin ==
  ASSUME SearchInv, OriginInv, NEW c \in Call, Begin(c) \/ (Step(c) /\ ~EnvStep(c))
  PROVE  Arrives(c) /\ Caches
<1>1. CacheOK /\ ProjectOK /\ env \in Environment /\ CallOrigin(c) /\ Origin(pc[Me(c)])
  BY TypeParts, Actors DEF SearchInv, OriginInv
<1>2. CASE Begin(c)
  <2>1. CASE /\ getProjectIdAsync(Me(c), "project")
             /\ UNCHANGED <<cacheVars, returned, signed>>
    <3>1. pc'[Me(c)] = "project" /\ Others(c)
      BY <1>1, <2>1, AskOthers DEF Others
    <3>2. Arrives(c)
      BY <1>1, <2>1, <3>1 DEF Arrives, CallOrigin, Origin, FileLabels, Holding
    <3> QED BY <2>1, <3>2, CachesKept
  <2> QED BY <1>2, <2>1, ClientOrigin, DefaultOrigin DEF Begin
<1>3. CASE ProjectSettled(c)
  BY <1>3, SettledOrigin, CachesKept DEF ProjectSettled
<1>4. CASE FileRead(c)
  <2>1. /\ pc[Me(c)] \in FileLabels /\ ~Unreadable(pc[Me(c)])
        /\ fromStreamAsync(pc[Me(c)], OptionsFor(method[c]))
    BY <1>4 DEF FileRead, FileReading, FileLabels
  <2>2. Caches /\ cachedCredential'.from \in Candidates
    BY <1>1, <2>1, StreamOrigin
  <2>3. cachedCredential' # None
    BY <1>1, <2>1, StreamOK, OptionsForOK DEF FileLabels
  <2> QED BY <1>4, <2>2, <2>3, ReadyOrigin, HoldOrigin DEF FileRead
<1>5. CASE IsAvailable(c)
  <2>1. CASE pc[Me(c)] = "probing" /\ ComputeOrFail(c, method[c], env.gce)
    BY <1>1, <2>1, ComputeOrigin DEF CallOrigin
  <2>2. CASE /\ pc[Me(c)] = "probingForAccount" /\ UNCHANGED cacheVars
             /\ Await(Me(c), "account") \/ Fail(Me(c))
    BY <2>2, CachesKept, PlainOrigin, FailOrigin DEF Origin, FileLabels, Holding
  <2> QED BY <1>5, <2>1, <2>2 DEF IsAvailable
<1>6. CASE IsAvailableThrows(c) \/ AccountRead(c) \/ ClientAnswers(c) \/ FileError(Me(c))
  <2>1. UNCHANGED cacheVars
    BY <1>6 DEF IsAvailableThrows, AccountRead, ClientAnswers, FileError
  <2>2. CASE Fail(Me(c))
    BY <2>1, <2>2, CachesKept, FailOrigin
  <2>3. CASE pc[Me(c)] \in Holding /\ Await(Me(c), "done")
    BY <2>1, <2>3, CachesKept, PlainOrigin DEF Origin, FileLabels
  <2>4. CASE pc[Me(c)] \in Holding /\ RequestSignature(c, "gce")
    BY <2>1, <2>4, CachesKept, SignatureOrigin
  <2> QED BY <1>6, <2>2, <2>3, <2>4, Actors
          DEF IsAvailableThrows, AccountRead, ClientAnswers, FileError, Holding
<1> QED BY <1>2, <1>3, <1>4, <1>5, <1>6 DEF Step

LEMMA CallNextOrigin ==
  ASSUME SearchInv, OriginInv, NEW c \in Call, Begin(c) \/ (Step(c) /\ ~EnvStep(c))
  PROVE  OriginInv'
<1>1. UNCHANGED given
  BY DEF Begin, Step, ProjectSettled, FileRead, FileError, IsAvailable,
         IsAvailableThrows, AccountRead, ClientAnswers
<1> QED BY <1>1, StepOrigin, CallKeepsOrigin

(* The detection reads a candidate's file, or none.                        *)
LEMMA EnvFileOrigin ==
  ASSUME ProjectOK, NEW d \in Detections, ReadEnvFile(d)
  PROVE  Origin(pc'[d])
<1>1. CASE env.envFile # None
  <2>1. "envFile" \in Candidates
    BY <1>1 DEF Candidates, FirstDefault
  <2> QED BY <1>1, <2>1, Actors
          DEF ReadEnvFile, Reject, Await, Goto, ProjectOK, Origin, SourceOf, FileLabels
<1>2. CASE env.envFile = None
  BY <1>2, Actors DEF ReadEnvFile, Reject, Await, Goto, ProjectOK, Origin, FileLabels
<1> QED BY <1>1, <1>2

LEMMA ResolveOrigin ==
  ASSUME ProjectOK, NEW d \in Detections, NEW id, NEW label, label \notin FileLabels,
         Resolve(d, id) \/ Reject(d) \/ Await(d, label) \/ ResolveOr(d, id, label)
  PROVE  Origin(pc'[d])
BY Actors DEF Resolve, Reject, Await, ResolveOr, Goto, ProjectOK, Origin, FileLabels

LEMMA DetectionOrigin ==
  ASSUME SearchInv, OriginInv, NEW d \in Detections, DetectionStep(d)
  PROVE  Caches /\ Origin(pc'[d])
<1>1. CacheOrigin /\ CacheOK /\ ProjectOK /\ Origin(pc[d])
  BY TypeParts, Actors DEF SearchInv, OriginInv
<1>2. "gcloud" \notin FileLabels /\ "metadata" \notin FileLabels /\ "external" \notin FileLabels
  BY DEF FileLabels
<1>3. ASSUME jsonContent # None
      PROVE  /\ jsonContent.from \in Sources /\ jsonContent.from \in Candidates
             /\ jsonContent.json \in Json
  BY <1>1, <1>3 DEF CacheOrigin, CacheOK
<1>4. CASE DetectionStarts(d)
  <2>1. CASE Resolve(d, "variable") /\ UNCHANGED cacheVars
    BY <1>1, <1>2, <2>1, CachesKept, ResolveOrigin
  <2>2. CASE ResolveOr(d, ProjectOf(cachedCredential), "gcloud") /\ UNCHANGED cacheVars
    BY <1>1, <1>2, <2>2, CachesKept, ResolveOrigin
  <2>3. CASE ReadEnvFile(d) /\ UNCHANGED cacheVars
    BY <1>1, <2>3, CachesKept, EnvFileOrigin
  <2>4. CASE env.keyFile # None /\ Await(d, "keyFile") /\ UNCHANGED cacheVars
    <3>1. "keyFile" \in Candidates
      BY <2>4 DEF Candidates
    <3>2. pc'[d] = "keyFile"
      BY <1>1, <2>4, Actors DEF Await, Goto, ProjectOK
    <3> QED BY <2>4, <3>1, <3>2, CachesKept DEF Origin, SourceOf
  <2>5. CASE /\ jsonContent # None
             /\ cacheClientFromJSON(jsonContent.from, jsonContent.json, "clientOptions")
             /\ \/ Resolve(d, ProjectOf(cachedCredential'))
                \/ ReadEnvFile(d)
    BY <1>1, <1>2, <1>3, <2>5, JsonOrigin, ResolveOrigin, EnvFileOrigin
  <2> QED BY <1>4, <2>1, <2>2, <2>3, <2>4, <2>5 DEF DetectionStarts, getFileProjectId
<1>5. CASE DetectionFileRead(d)
  <2>1. pc[d] \in FileLabels
    BY <1>5 DEF DetectionFileRead, FileReading, FileLabels
  <2>2. Caches
    BY <1>1, <1>5, <2>1, StreamOrigin DEF DetectionFileRead
  <2>3. Origin(pc'[d])
    BY <1>1, <1>2, <1>5, ResolveOrigin, EnvFileOrigin DEF DetectionFileRead
  <2> QED BY <2>2, <2>3
<1>6. CASE FileError(d)
  BY <1>1, <1>2, <1>6, CachesKept, ResolveOrigin DEF FileError, Reject
<1>7. CASE GcloudEnds(d)
  BY <1>1, <1>2, <1>7, CachesKept, ResolveOrigin DEF GcloudEnds
<1>8. CASE MetadataProject(d)
  <2>1. CASE /\ Resolve(d, "gce") \/ Reject(d) \/ Await(d, "external")
             /\ UNCHANGED cacheVars
    BY <1>1, <1>2, <2>1, CachesKept, ResolveOrigin
  <2>2. CASE /\ HasExternalJson /\ Await(d, "external")
             /\ cacheClientFromJSON(jsonContent.from, "external", "clientOptions")
    BY <1>1, <1>2, <1>3, <2>2, JsonOrigin, ResolveOrigin DEF HasExternalJson, Json
  <2> QED BY <1>8, <2>1, <2>2 DEF MetadataProject
<1>9. CASE ExternalProject(d)
  BY <1>1, <1>2, <1>9, CachesKept, ResolveOrigin DEF ExternalProject
<1> QED BY <1>4, <1>5, <1>6, <1>7, <1>8, <1>9 DEF DetectionStep

LEMMA DetectionKeepsOrigin ==
  ASSUME SearchInv, OriginInv, NEW d \in Detections, DetectionStep(d)
  PROVE  OriginInv'
<1>1. ProjectOK /\ Moves(d) /\ UNCHANGED given
  BY TypeParts, DetectionMoves DEF SearchInv
<1>2. returned' = returned /\ \A a \in Actor : a # d => pc'[a] = pc[a]
  BY <1>1, Actors DEF Moves, Resolve, Reject, Await, Goto, callVars, ProjectOK
<1>3. env' = env /\ method' = method /\ Candidates' = Candidates
  BY <1>1, CandidatesKept
<1>4. Caches /\ Origin(pc'[d])
  BY DetectionOrigin
<1>5. CacheOrigin'
  BY <1>3, <1>4 DEF Caches, CacheOrigin
<1>6. ASSUME NEW a \in Actor
      PROVE  Origin(pc[a])'
  BY <1>2, <1>3, <1>4, <1>6 DEF OriginInv, Origin, SourceOf, FileLabels
<1>7. ASSUME NEW e \in Call
      PROVE  CallOrigin(e)'
  <2>1. pc'[Me(e)] = pc[Me(e)]
    BY <1>2, Actors
  <2> QED BY <1>2, <1>3, <2>1 DEF OriginInv, CallOrigin
<1> QED BY <1>5, <1>6, <1>7 DEF OriginInv

LEMMA OriginNext == SearchInv /\ OriginInv /\ [Next]_vars => OriginInv'
<1> SUFFICES ASSUME SearchInv, OriginInv, [Next]_vars
             PROVE  OriginInv'
  OBVIOUS
<1>1. CASE UNCHANGED Searching
  <2>1. Candidates' = Candidates
    BY <1>1 DEF Searching, Candidates, ConfiguredSource, FirstDefault
  <2> QED BY <1>1, <2>1 DEF Searching, cacheVars, callVars, OriginInv, CacheOrigin,
                            Origin, SourceOf, CallOrigin
<1>2. CASE Clear \/ UNCHANGED vars
  BY <1>1, <1>2 DEF Clear, vars, given, Searching
<1>3. ASSUME NEW c \in Call, GetEnv(c) \/ EnvStep(c)
      PROVE  OriginInv'
  BY <1>1, <1>3 DEF GetEnv, EnvStep
<1>4. ASSUME NEW c \in Call, Begin(c) \/ (Step(c) /\ ~EnvStep(c))
      PROVE  OriginInv'
  BY <1>4, CallNextOrigin
<1>5. ASSUME NEW d \in Detections, DetectionStep(d)
      PROVE  OriginInv'
  BY <1>5, DetectionKeepsOrigin
<1> QED BY <1>2, <1>3, <1>4, <1>5 DEF Next

LEMMA OriginInvariant == Spec => []OriginInv
BY SearchInvariant, OriginInit, OriginNext, PTL DEF Spec

-----------------------------------------------------------------------------
(* What the invariants say of the searches.                                *)

(* The JSON that getCredentials and sign read is what the cached client    *)
(* was made of.                                                            *)
THEOREM JsonMatchesCorrect == Spec => []UncontestedJsonMatches
<1>1. SourceInv => UncontestedJsonMatches
  BY DEF SourceInv, CacheInv, UncontestedJsonMatches
<1> QED BY <1>1, SourceInvariant, PTL

(* The client of every call comes from a source that one of the two orders *)
(* of precedence puts first, in any environment, and where they do not     *)
(* compete from the one the caller configured.                             *)
THEOREM PrecedenceCorrect == Spec => []PrecedenceKept
<1>1. SourceInv /\ OriginInv => PrecedenceKept
  BY DEF SourceInv, CallInv, OriginInv, CallOrigin, PrecedenceKept, Holding, Source
<1> QED BY <1>1, SourceInvariant, OriginInvariant, PTL

(* signBlob is asked for in the name of the client that carries it.  A     *)
(* client without an account is the machine's, or a key file's.            *)
THEOREM SignsCorrect == Spec => []SignsForItsClient
<1>1. SourceInv => SignsForItsClient
  BY DEF SourceInv, CallInv, SignsForItsClient
<1> QED BY <1>1, SourceInvariant, PTL

-----------------------------------------------------------------------------
(* The promise of the project id: one result for all who ask, ever.        *)

(* A call of getProjectId asks for the id, and waits for nothing else; it  *)
(* has no id before it is done.                                            *)
ProjectCalls ==
  \A c \in Call : method[c] = "getProjectId" =>
    \/ pc[Me(c)] = "done"
    \/ pc[Me(c)] \in {"idle", "project", "failed"} /\ returned[c].project = None

(* The memoised promise of the project id, in the terms of GoogleAuth.     *)
AskedFor == [c \in Call |-> IF AsksProject(c) THEN 0 ELSE None]
Result(c) == IF method[c] = "getProjectId" /\ pc[Me(c)] = "failed" THEN "rejected"
             ELSE returned[c].project

ProjectMemoStep ==
  /\ \/ AskedFor' = AskedFor
     \/ \E c \in Call : AskedFor[c] = None /\ AskedFor' = [AskedFor EXCEPT ![c] = 0]
  /\ \/ Detected' = Detected
     \/ \E id \in ProjectIds \union {"rejected"} : Detected = {} /\ Detected' = {id}
  /\ \A c \in Call : Result(c)' # Result(c) =>
       Result(c) = None /\ AsksProject(c)' /\ Result(c)' \in Detected'

LEMMA ProjectMemoSteps == ProjectMemoStep => ProjectMemo!Next
<1> SUFFICES ASSUME ProjectMemoStep
             PROVE  ProjectMemo!Next
  OBVIOUS
<1> DEFINE ended == {<<0, id>> : id \in Detected}
           told == [c \in Call |-> Result(c)]
<1>1. ended' = ended
      \/ \E e \in 0..0, r \in ProjectIds \union {"rejected"} :
           /\ \A q \in ProjectIds \union {"rejected"} : <<e, q>> \notin ended
           /\ ended' = ended \union {<<e, r>>}
  <2>1. CASE Detected' = Detected
    BY <2>1
  <2>2. ASSUME NEW id \in ProjectIds \union {"rejected"}, Detected = {}, Detected' = {id}
        PROVE  ended = {} /\ ended' = {<<0, id>>} /\ 0 \in 0..0
    BY <2>2
  <2> QED BY <2>1, <2>2 DEF ProjectMemoStep
<1>2. ASSUME NEW c \in Call, told'[c] # told[c]
      PROVE  told[c] = None /\ <<AskedFor'[c], told'[c]>> \in ended'
  <2>1. Result(c) = None /\ AsksProject(c)' /\ Result(c)' \in Detected'
    BY <1>2 DEF ProjectMemoStep
  <2>2. AskedFor'[c] = 0
    BY <2>1 DEF AskedFor
  <2> QED BY <2>1, <2>2
<1>3. told' = [c \in Call |-> told'[c]]
  OBVIOUS
<1> QED
  BY <1>1, <1>2, <1>3
  DEF ProjectMemoStep, ProjectMemo!Next, ProjectMemo!Ask, ProjectMemo!End,
      ProjectMemo!Tell, AskedFor, Result

LEMMA ProjectMemoInit == Init => ProjectMemo!Init
<1> SUFFICES ASSUME Init
             PROVE  ProjectMemo!Init
  OBVIOUS
<1>1. \A c \in Call : /\ pc[Me(c)] = "idle" /\ returned[c].project = None
                      /\ ~AsksProject(c)
  BY Actors DEF Init, AsksProject
<1>2. Detected = {} \/ Detected = {"option"}
  BY NoneIsNew DEF Init, Detected
<1>3. {<<0, id>> : id \in Detected} \in
        {{}} \union {{<<0, r>>} : r \in ProjectIds \union {"rejected"}}
  <2>1. "option" \in ProjectIds
    BY DEF ProjectIds
  <2>2. CASE Detected = {}
    BY <2>2
  <2>3. CASE Detected = {"option"}
    <3>1. {<<0, id>> : id \in Detected} = {<<0, "option">>}
      BY <2>3
    <3> QED BY <2>1, <3>1
  <2> QED BY <1>2, <2>2, <2>3
<1> QED BY <1>1, <1>3 DEF ProjectMemo!Init

(* A step of a call leaves the other calls' results alone.                 *)
LEMMA DefaultOthers ==
  ASSUME ProjectOK, ResultsOK, NEW c \in Call, NEW m, getApplicationDefaultAsync(c, m)
  PROVE  Others(c)
BY HoldOthers, FailOthers, PlainOthers DEF getApplicationDefaultAsync, ComputeOrFail

LEMMA ClientOthers ==
  ASSUME ProjectOK, ResultsOK, NEW c \in Call, NEW m, getClient(c, m)
  PROVE  Others(c)
BY ReadyOthers, PlainOthers, DefaultOthers DEF getClient

LEMMA SettledOthers ==
  ASSUME ProjectOK, ResultsOK, NEW c \in Call, ProjectSettled(c)
  PROVE  Others(c)
<1> DEFINE id == ProjectIdFor(Me(c))
           held == IF returned[c].client # None THEN returned[c].client ELSE cachedCredential
<1>1. CASE Fail(Me(c))
  BY <1>1, FailOthers
<1>2. CASE getCredentialsToSign(c)
  BY <1>2, PlainOthers, SignatureOthers, FailOthers DEF getCredentialsToSign
<1>3. CASE ClientReady(c, method[c], cachedCredential, jsonContent)
  BY <1>3, ReadyOthers
<1>4. CASE /\ Goto(Me(c), "done")
           /\ returned' = [returned EXCEPT ![c] =
                [client |-> IF method[c] = "getProjectId" THEN None ELSE held,
                 project |-> id]]
           /\ UNCHANGED <<wait, signed, projectVars>>
  <2> HIDE DEF id, held
  <2> QED BY <1>4, Actors DEF Goto, ProjectOK, ResultsOK, Others
<1> QED BY <1>1, <1>2, <1>3, <1>4 DEF ProjectSettled

LEMMA CallOthers ==
  ASSUME SearchInv, NEW c \in Call, Begin(c) \/ Step(c)
  PROVE  Others(c)
<1>1. ProjectOK /\ ResultsOK
  BY TypeParts DEF SearchInv
<1>2. CASE Begin(c)
  <2>1. CASE getProjectIdAsync(Me(c), "project") /\ UNCHANGED <<returned, signed>>
    BY <1>1, <2>1, AskOthers DEF Others
  <2> QED BY <1>1, <1>2, <2>1, ClientOthers, DefaultOthers DEF Begin
<1>3. CASE ProjectSettled(c)
  BY <1>1, <1>3, SettledOthers
<1>4. CASE FileRead(c)
  BY <1>1, <1>4, ReadyOthers, HoldOthers DEF FileRead
<1>5. CASE FileError(Me(c))
  BY <1>1, <1>5, Actors, FailOthers DEF FileError
<1>6. CASE IsAvailable(c)
  BY <1>1, <1>6, PlainOthers, FailOthers, HoldOthers DEF IsAvailable, ComputeOrFail
<1>7. CASE IsAvailableThrows(c) \/ AccountRead(c) \/ ClientAnswers(c)
  BY <1>1, <1>7, PlainOthers, FailOthers, SignatureOthers
     DEF IsAvailableThrows, AccountRead, ClientAnswers
<1>8. CASE EnvStep(c)
  BY <1>8 DEF EnvStep, Searching, callVars, Others
<1> QED BY <1>2, <1>3, <1>4, <1>5, <1>6, <1>7, <1>8 DEF Step

(* What a call of getProjectId does: it asks, and is told or fails.        *)
Asks(c) ==
  pc[Me(c)] = "idle" /\ pc'[Me(c)] = "project" /\ returned'[c] = returned[c]
IsTold(c) ==
  /\ pc[Me(c)] = "project" /\ ProjectIdFor(Me(c)) # "pending"
  /\ UNCHANGED projectVars
  /\ \/ /\ pc'[Me(c)] = "failed" /\ ProjectIdFor(Me(c)) = "rejected"
        /\ returned'[c] = returned[c]
     \/ pc'[Me(c)] = "done" /\ returned'[c].project = ProjectIdFor(Me(c))

LEMMA ProjectCallStep ==
  ASSUME SearchInv, ProjectCalls, NEW c \in Call, method[c] = "getProjectId",
         Begin(c) \/ Step(c)
  PROVE  Asks(c) \/ IsTold(c) \/ UNCHANGED Searching
<1>1. ProjectOK /\ ResultsOK
  BY TypeParts DEF SearchInv
<1>2. pc[Me(c)] \in {"idle", "project", "done", "failed"}
  BY DEF ProjectCalls
<1>3. CASE Begin(c)
  BY <1>1, <1>3, AskOthers DEF Begin, Searches, Asks
<1>4. CASE ProjectSettled(c)
  <2> DEFINE id == ProjectIdFor(Me(c))
  <2>1. pc[Me(c)] = "project" /\ id # "pending"
    BY <1>2, <1>4 DEF ProjectSettled, AwaitsProject
  <2>2. CASE id = "rejected" /\ Fail(Me(c))
    BY <1>1, <2>1, <2>2, FailOthers DEF IsTold, Fail
  <2>3. CASE /\ Goto(Me(c), "done")
             /\ returned' = [returned EXCEPT ![c] = [client |-> None, project |-> id]]
             /\ UNCHANGED projectVars
    <3> HIDE DEF id
    <3>1. pc'[Me(c)] = "done" /\ returned'[c].project = id
      BY <1>1, <2>3, Actors DEF Goto, ProjectOK, ResultsOK
    <3> QED BY <2>1, <2>3, <3>1 DEF IsTold, id
  <2> QED BY <1>4, <2>1, <2>2, <2>3 DEF ProjectSettled, Searches
<1>5. CASE EnvStep(c)
  BY <1>5 DEF EnvStep
<1>6. ~(FileRead(c) \/ FileError(Me(c)) \/ IsAvailable(c) \/ IsAvailableThrows(c)
        \/ AccountRead(c) \/ ClientAnswers(c))
  BY <1>2 DEF FileRead, FileError, FileReading, IsAvailable, IsAvailableThrows,
              AccountRead, ClientAnswers
<1> QED BY <1>3, <1>4, <1>5, <1>6 DEF Step

(* Any other call that returns an id asks for it in the same step.         *)
LEMMA OtherCallStep ==
  ASSUME SearchInv, ProjectInv, NEW c \in Call, method[c] # "getProjectId",
         Begin(c) \/ Step(c)
  PROVE  \/ returned'[c].project = returned[c].project
         \/ /\ returned[c].project = None /\ returned'[c].project # None
            /\ returned'[c].project \in Detected
<1>1. SearchesOn /\ ResultsStay /\ ProjectOK
  BY CallSearches, TypeParts DEF SearchInv
<1>2. cachedProjectId' = cachedProjectId
  BY <1>1 DEF SearchesOn, NoDetection, StartsDetection, projectVars
<1>3. cachedProjectId # None => cachedProjectId \in Detected
  BY <1>1, NoneIsNew DEF ProjectOK, Detected, ProjectIds, Sources
<1> QED BY <1>1, <1>2, <1>3 DEF ResultsStay, ProjectInv, OneProjectId

LEMMA CallMemo ==
  ASSUME SearchInv, ProjectInv, ProjectCalls, NEW c \in Call, Begin(c) \/ Step(c)
  PROVE  ProjectMemoStep /\ ProjectCalls'
<1>1. ProjectOK /\ ResultsOK /\ Others(c) /\ SearchesOn /\ method' = method
  <2>1. method' = method
    BY DEF Begin, Step, ProjectSettled, FileRead, FileError, IsAvailable, IsAvailableThrows,
           AccountRead, ClientAnswers, EnvStep, Searching, given
  <2> QED BY <2>1, TypeParts, CallOthers, CallSearches DEF SearchInv
<1>2. Detected' = Detected
  BY <1>1 DEF SearchesOn, NoDetection, StartsDetection, projectVars, Detected
<1>3. ASSUME NEW e \in Call, e # c \/ UNCHANGED Searching
      PROVE  /\ pc'[Me(e)] = pc[Me(e)] /\ returned'[e] = returned[e]
             /\ (AsksProject(e)' <=> AsksProject(e)) /\ Result(e)' = Result(e)
  <2>1. pc'[Me(e)] = pc[Me(e)] /\ returned'[e] = returned[e]
    BY <1>1, <1>3, Actors DEF Others, Searching, callVars
  <2> QED BY <1>1, <2>1 DEF AsksProject, Result
<1>4. (\A e \in Call : e # c => (AsksProject(e)' <=> AsksProject(e))) =>
        \/ AsksProject(c) /\ AsksProject(c)' /\ AskedFor' = AskedFor
        \/ ~AsksProject(c) /\ ~AsksProject(c)' /\ AskedFor' = AskedFor
        \/ /\ ~AsksProject(c) /\ AsksProject(c)'
           /\ AskedFor[c] = None /\ AskedFor' = [AskedFor EXCEPT ![c] = 0]
        \/ AsksProject(c) /\ ~AsksProject(c)'
  BY DEF AskedFor
<1>5. CASE UNCHANGED Searching
  BY <1>1, <1>2, <1>3, <1>5 DEF ProjectMemoStep, ProjectCalls, AskedFor
<1>6. CASE method[c] # "getProjectId"
  <2>1. ProjectCalls'
    BY <1>1, <1>3, <1>6 DEF ProjectCalls
  <2>2. \/ Result(c)' = Result(c) /\ (AsksProject(c)' <=> AsksProject(c))
        \/ /\ Result(c) = None /\ ~AsksProject(c)
           /\ AsksProject(c)' /\ Result(c)' \in Detected
    BY <1>1, <1>6, OtherCallStep DEF Result, AsksProject
  <2> QED BY <1>2, <1>3, <1>4, <2>1, <2>2 DEF ProjectMemoStep
<1>7. CASE method[c] = "getProjectId" /\ Asks(c)
  <2>1. /\ ~AsksProject(c) /\ AsksProject(c)' /\ Result(c) = None /\ Result(c)' = None
        /\ pc'[Me(c)] = "project" /\ returned'[c].project = None
    BY <1>1, <1>7 DEF Asks, AsksProject, Result, ProjectCalls
  <2> QED BY <1>1, <1>2, <1>3, <1>4, <2>1 DEF ProjectMemoStep, ProjectCalls
<1>8. CASE method[c] = "getProjectId" /\ IsTold(c)
  <2>1. /\ AsksProject(c) /\ AsksProject(c)' /\ Result(c) = None
        /\ returned[c].project = None
    BY <1>1, <1>8 DEF IsTold, AsksProject, Result, ProjectCalls
  <2>2. /\ Result(c)' = ProjectIdFor(Me(c))
        /\ pc'[Me(c)] = "done" \/ (pc'[Me(c)] = "failed" /\ returned'[c].project = None)
    BY <1>1, <1>8, <2>1 DEF IsTold, Result
  <2>3. ProjectIdFor(Me(c)) # None => ProjectIdFor(Me(c)) \in Detected
    <3>1. wait[Me(c)] \in Detections \union {None}
      BY <1>1, Actors DEF ProjectOK
    <3> QED BY <1>8, <3>1 DEF IsTold, ProjectIdFor, Detected, ProjectOK
  <2> QED BY <1>1, <1>2, <1>3, <1>4, <2>1, <2>2, <2>3 DEF ProjectMemoStep, ProjectCalls
<1> QED BY <1>5, <1>6, <1>7, <1>8, ProjectCallStep

(* The detection ends while nothing is known.                              *)
LEMMA DetectionMemo ==
  ASSUME SearchInv, ProjectInv, ProjectCalls, NEW d \in Detections, DetectionStep(d)
  PROVE  ProjectMemoStep /\ ProjectCalls'
<1>1. ProjectOK /\ ResultsOK /\ Moves(d) /\ UNCHANGED given
  BY DetectionMoves, TypeParts DEF SearchInv
<1>2. pc[d] \notin Ended
  BY DEF DetectionStep, DetectionStarts, DetectionFileRead, FileError, GcloudEnds,
         MetadataProject, ExternalProject, FileReading, Ended
<1>3. cachedProjectId = None /\ \A e \in Detections : outcome[e] = "pending"
  BY <1>2 DEF ProjectInv
<1>4. Detected = {}
  BY <1>3 DEF Detected
<1>5. /\ \A c \in Call : pc'[Me(c)] = pc[Me(c)]
      /\ returned' = returned /\ method' = method
  BY <1>1, MovesOK DEF Moves, Resolve, Reject, Await, callVars, given
<1>6. AskedFor' = AskedFor /\ \A c \in Call : Result(c)' = Result(c)
  BY <1>5 DEF AskedFor, Result, AsksProject
<1>7. Detected' = Detected
      \/ \E id \in ProjectIds \union {"rejected"} : Detected' = {id}
  <2>1. ASSUME NEW id \in ProjectIds \union {"rejected"}, outcome' = [outcome EXCEPT ![d] = id],
               cachedProjectId' = id \/ (cachedProjectId' = None /\ id = "rejected")
        PROVE  Detected' = {id}
    <3>1. outcome'[d] = id /\ \A e \in Detections : e # d => outcome'[e] = "pending"
      BY <1>1, <1>3, <2>1 DEF ProjectOK
    <3>2. id \notin {None, "pending"}
      BY NoneIsNew DEF ProjectIds, Sources
    <3> QED BY <2>1, <3>1, <3>2 DEF Detected
  <2>2. ASSUME NEW id \in ProjectIds, Resolve(d, id)
        PROVE  Detected' = {id}
    BY <2>1, <2>2 DEF Resolve
  <2>3. CASE Reject(d)
    BY <1>3, <2>1, <2>3 DEF Reject
  <2>4. ASSUME NEW label, Await(d, label)
        PROVE  Detected' = Detected
    BY <2>4 DEF Await, projectVars, Detected
  <2> QED BY <1>1, <2>2, <2>3, <2>4 DEF Moves
<1> QED BY <1>4, <1>5, <1>6, <1>7 DEF ProjectMemoStep, ProjectCalls

LEMMA ProjectMemoNext ==
  SearchInv /\ ProjectInv /\ ProjectCalls /\ [Next]_vars
    => [ProjectMemo!Next]_(ProjectMemo!vars) /\ ProjectCalls'
<1> SUFFICES ASSUME SearchInv, ProjectInv, ProjectCalls, [Next]_vars
             PROVE  [ProjectMemo!Next]_(ProjectMemo!vars) /\ ProjectCalls'
  OBVIOUS
<1>1. ASSUME NEW c \in Call, Begin(c) \/ Step(c)
      PROVE  [ProjectMemo!Next]_(ProjectMemo!vars) /\ ProjectCalls'
  BY <1>1, CallMemo, ProjectMemoSteps
<1>2. ASSUME NEW d \in Detections, DetectionStep(d)
      PROVE  [ProjectMemo!Next]_(ProjectMemo!vars) /\ ProjectCalls'
  BY <1>2, DetectionMemo, ProjectMemoSteps
<1>3. CASE UNCHANGED Searching
  BY <1>3 DEF Searching, projectVars, callVars, ProjectMemo!vars, ProjectCalls, AsksProject,
              Detected
<1>4. ASSUME NEW c \in Call, GetEnv(c)
      PROVE  UNCHANGED Searching
  BY <1>4 DEF GetEnv
<1>5. CASE Clear \/ UNCHANGED vars
  BY <1>3, <1>5 DEF Clear, vars, given, Searching
<1> QED BY <1>1, <1>2, <1>3, <1>4, <1>5 DEF Next

(* What getProjectId tells its callers is one result, found once: an id or *)
(* a failure, for any calls and in any environment.                        *)
THEOREM MemoisesProjectId == Spec => ProjectMemoised
<1>1. Init => ProjectCalls
  BY Actors DEF Init, ProjectCalls
<1> QED
  BY <1>1, SearchInvariant, ProjectInit, ProjectNext, ProjectMemoInit, ProjectMemoNext, PTL
  DEF Spec, ProjectMemoised, ProjectMemo!Spec
=============================================================================
