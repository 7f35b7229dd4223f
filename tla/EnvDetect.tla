------------------------------ MODULE EnvDetect ------------------------------
(***************************************************************************)
(* The detection of the compute environment (src/auth/envDetect.ts).  The  *)
(* promise of the first getEnv is kept in a variable of the module and     *)
(* given to every later caller, whether it is pending, resolved or         *)
(* rejected, until clear() forgets it.  A detection that is in flight then *)
(* goes on, and answers those who hold its promise.                        *)
(***************************************************************************)
EXTENDS Naturals

CONSTANTS
  Caller,     \* the calls of getEnv, each made once
  Machines,   \* the machines the process may run on
  MaxClears,  \* bound on the number of calls of clear
  None        \* an absent value

(* The environment variables of App Engine, Cloud Functions and knative,   *)
(* and what the metadata server knows.                                     *)
Machine == [appEngine : BOOLEAN, function : BOOLEAN, knative : BOOLEAN,
            computeEngine : BOOLEAN, kubernetes : BOOLEAN]

ASSUME MachinesOk == /\ Machines \subseteq Machine
                     /\ MaxClears \in Nat
                     /\ None \notin Caller

VARIABLES
  machine,     \* where the process runs, which does not change
  clears,      \* how often clear was called
  envPromise,  \* the caller whose detection is kept, or None
  detection,   \* what the detection a caller started awaits or ended with
  joined       \* the detection a caller was given, and clears at that time

envDetectVars == <<machine, clears, envPromise, detection, joined>>

GCPEnv == {"APP_ENGINE", "KUBERNETES_ENGINE", "CLOUD_FUNCTIONS",
           "COMPUTE_ENGINE", "CLOUD_RUN", "NONE"}
Outcome == GCPEnv \union {"rejected"}

ASSUME NoneIsNoOutcome == None \notin Outcome \union [by : Caller, at : Nat]

EnvInit ==
  /\ machine \in Machines
  /\ clears = 0
  /\ envPromise = None
  /\ detection = [c \in Caller |-> None]
  /\ joined = [c \in Caller |-> None]

(* getEnvMemoized up to its first await.                                   *)
getEnvMemoized ==
  CASE machine.appEngine -> "APP_ENGINE"
    [] ~machine.appEngine /\ machine.function -> "CLOUD_FUNCTIONS"
    [] OTHER -> "isComputeEngine"

Join(c, d) == joined' = [joined EXCEPT ![c] = [by |-> d, at |-> clears]]

(* Variant: the detection's result is kept, not its promise.               *)
getEnvKeepingResults(c) ==
  /\ joined[c] = None
  /\ IF envPromise # None /\ detection[envPromise] \in Outcome
     THEN Join(c, envPromise) /\ UNCHANGED <<envPromise, detection>>
     ELSE /\ Join(c, c)
          /\ envPromise' = c
          /\ detection' = [detection EXCEPT ![c] = getEnvMemoized]
  /\ UNCHANGED <<machine, clears>>

getEnv(c) ==
  /\ joined[c] = None
  /\ IF envPromise # None
     THEN Join(c, envPromise) /\ UNCHANGED <<envPromise, detection>>
     ELSE /\ Join(c, c)
          /\ envPromise' = c
          /\ detection' = [detection EXCEPT ![c] = getEnvMemoized]
  /\ UNCHANGED <<machine, clears>>

(* Clearing when nothing is kept changes nothing.                          *)
clear ==
  /\ clears < MaxClears /\ envPromise # None
  /\ clears' = clears + 1
  /\ envPromise' = None
  /\ UNCHANGED <<machine, detection, joined>>

Detect(c, result) ==
  /\ detection' = [detection EXCEPT ![c] = result]
  /\ UNCHANGED <<machine, clears, envPromise, joined>>

(* gcpMetadata.isAvailable answers, or throws.                             *)
isComputeEngine(c) ==
  /\ detection[c] = "isComputeEngine"
  /\ \/ Detect(c, IF machine.computeEngine THEN "isKubernetesEngine" ELSE "NONE")
     \/ Detect(c, "rejected")

isCloudRun == machine.knative

(* The name of the cluster arrives; any error is taken for its absence.    *)
isKubernetesEngine(c) ==
  /\ detection[c] = "isKubernetesEngine"
  /\ \/ machine.kubernetes /\ Detect(c, "KUBERNETES_ENGINE")
     \/ Detect(c, IF isCloudRun THEN "CLOUD_RUN" ELSE "COMPUTE_ENGINE")

EnvAnswers(c) == isComputeEngine(c) \/ isKubernetesEngine(c)

EnvNext == clear \/ \E c \in Caller : getEnv(c) \/ EnvAnswers(c)

EnvSpec == EnvInit /\ [][EnvNext]_envDetectVars

-----------------------------------------------------------------------------
(* Properties.                                                             *)

(* Every variable of the detection has its shape.                          *)
EnvTypeOK ==
  /\ machine \in Machines
  /\ clears \in Nat
  /\ envPromise \in Caller \union {None}
  /\ detection \in [Caller -> {None, "isComputeEngine", "isKubernetesEngine"}
                              \union Outcome]
  /\ joined \in [Caller -> [by : Caller, at : Nat] \union {None}]

(* What a caller of getEnv was answered, once it was.                      *)
Answer(c) == IF joined[c] = None THEN None ELSE detection[joined[c].by]

(* getEnv (lines 33-39): callers between whom nobody called clear get the  *)
(* same answer, or all the same failure, although the metadata server may  *)
(* answer differently each time it is asked, and whatever detections that  *)
(* began before a clear end with.                                          *)
OneEnvironment ==
  \A c, d \in Caller :
    /\ Answer(c) \in Outcome /\ Answer(d) \in Outcome
    /\ joined[c].at = joined[d].at
    => Answer(c) = Answer(d)

(* getEnv is a memoised promise, which clear() forgets.                    *)
EnvMemo == INSTANCE MemoisedPromise WITH
  Result <- Outcome,
  epoch <- clears,
  asked <- [c \in Caller |-> IF joined[c] = None THEN None ELSE joined[c].at],
  ended <- {<<joined[c].at, Answer(c)>> : c \in {d \in Caller : Answer(d) \in Outcome}},
  told <- [c \in Caller |-> IF Answer(c) \in Outcome THEN Answer(c) ELSE None]

(* getEnv implements the promise: between two clears one detection ends    *)
(* once, and a detection from before a clear answers its own callers only. *)
EnvMemoised == EnvMemo!Spec
=============================================================================
