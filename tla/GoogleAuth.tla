----------------------------- MODULE GoogleAuth -----------------------------
(***************************************************************************)
(* GoogleAuth (src/auth/googleauth.ts): the search for credentials and for *)
(* the project id, under concurrent calls, and what is built on it: sign,  *)
(* the requests it delegates, getEnv.  cachedCredential, jsonContent and   *)
(* checkIsGCE are shared and written by every call that gets that far; the *)
(* project id is looked for once, by a promise that is kept.               *)
(*                                                                         *)
(* The actors are the calls and the detection of the project id a call may *)
(* start: the detection reads files and calls getClient itself.  An actor  *)
(* runs from one await to the next in one step, and an I/O event comes     *)
(* only when no actor is ready.                                            *)
(***************************************************************************)
EXTENDS EnvDetect

CONSTANTS
  Call,           \* the method calls the application makes, each once
  Scenarios       \* what the process finds around it, and what it calls

(* A "request" is any of request, getAccessToken, getRequestHeaders and    *)
(* authorizeRequest: each asks the client for the same.                    *)
AllMethods == {"getClient", "getProjectId", "getApplicationDefault",
               "getCredentials", "getIdTokenClient", "request", "sign"}
Searches == AllMethods \ {"getProjectId", "getApplicationDefault"}

Json == {"user", "service", "external"}   \* kinds of credential JSON
Sources == {"credentials", "keyFile", "envFile", "wellKnownFile"}
Contents == Json \union {"key", "missing"} \* a key is a file that is not JSON

(* credentials, keyFile and projectId are options of the constructor; the  *)
(* others are what the process finds around it.                            *)
Environment ==
  [credentials : Json \union {None}, keyFile : Contents \union {None},
   envFile : Contents \union {None}, wellKnownFile : Json \union {"key", None},
   projectId : BOOLEAN, projectVar : BOOLEAN, gcloud : BOOLEAN, gce : BOOLEAN]

(* An environment, the method of each call, or "getEnv", or None where the *)
(* call is not made, and the machine that getEnv is to detect.             *)
Scenario ==
  [env : Environment, method : [Call -> AllMethods \union {"getEnv", None}],
   machine : Machines]

ASSUME ScenariosOk ==
  /\ Scenarios \subseteq Scenario
  /\ Caller = Call
  /\ None \notin AllMethods \union Call

Actor == Call \X {"call", "detection"}
Me(c) == <<c, "call">>
Detection(a) == <<a[1], "detection">>
Detections == Call \X {"detection"}

(* A client: where it comes from, what JSON it was made of, and the        *)
(* options its constructor was given.                                      *)
Client == [from : Sources \union {"gce"}, json : Json \union {None},
           options : {"clientOptions", "argument", "none"}]

ProjectIds == Sources \union {"option", "variable", "gcloud", "gce", "external"}

ASSUME NoneIsNew ==
  None \notin Client \union [from : Sources \union {"gce"}, json : Json] \union Json
               \union ProjectIds \union {"pending", "rejected"} \union Detections

VARIABLES
  env,                \* the environment, which does not change
  method,             \* which method each call is of, which does not either
  cachedCredential,   \* this.cachedCredential
  jsonContent,        \* this.jsonContent and where it comes from
  checkIsGCE,         \* this.checkIsGCE, None while undefined
  cachedProjectId,    \* this._cachedProjectId
  promise,            \* this._getDefaultProjectIdPromise: its detection
  outcome,            \* what each detection ended with, or "pending"
  pc,                 \* where each actor stands
  wait,               \* the detection an actor awaits; None: resolved already
  returned,           \* the client a call holds, the project id it got
  signed              \* sign: the account named, the client that signs for it

cacheVars == <<cachedCredential, jsonContent>>
projectVars == <<cachedProjectId, promise, outcome>>
callVars == <<wait, returned, signed>>
given == <<env, method, envDetectVars>>
vars == <<given, cacheVars, checkIsGCE, projectVars, pc, callVars>>

Init ==
  /\ EnvInit
  /\ \E s \in Scenarios : env = s.env /\ method = s.method /\ machine = s.machine
  /\ cachedCredential = None
  /\ jsonContent = IF env.credentials = None THEN None
                   ELSE [from |-> "credentials", json |-> env.credentials]
  /\ checkIsGCE = None
  /\ cachedProjectId = IF env.projectId THEN "option" ELSE None
  /\ promise = None
  /\ outcome = [d \in Detections |-> "pending"]
  /\ pc = [a \in Actor |-> "idle"]
  /\ wait = [a \in Actor |-> None]
  /\ returned = [c \in Call |-> [client |-> None, project |-> None]]
  /\ signed = [c \in Call |-> None]

Settled == {"done", "failed"}

(* An actor that goes on without any I/O.                                  *)
Starting == \E d \in Detections : pc[d] = "start"
AwaitsProject(a) == pc[a] \in {"project", "signProject"}
Ready == \/ Starting
         \/ \E a \in Actor : /\ AwaitsProject(a)
                             /\ wait[a] = None \/ outcome[wait[a]] # "pending"

Goto(a, label) == pc' = [pc EXCEPT ![a] = label]

-----------------------------------------------------------------------------
(* Clients.                                                                *)

(* Variant: getApplicationDefault has no default for its argument.         *)
OptionsForOrNone(m) == IF m = "getApplicationDefault" THEN None ELSE "clientOptions"

(* The options a call's client is built with: getApplicationDefault's      *)
(* argument, or the clientOptions of the constructor.                      *)
OptionsFor(m) == IF m = "getApplicationDefault" THEN "argument" ELSE "clientOptions"

ClientOf(source, json, options) ==
  [from |-> source, json |-> json, options |-> options]

(* Variant: the client is cached, the JSON is not.                         *)
cacheClientOnly(source, json, options) ==
  /\ cachedCredential' = ClientOf(source, json, options)
  /\ UNCHANGED jsonContent

cacheClientFromJSON(source, json, options) ==
  /\ jsonContent' = [from |-> source, json |-> json]
  /\ cachedCredential' = ClientOf(source, json, options)

(* Only a service account's JSON names its project.                        *)
ProjectOf(client) == IF client.json = "service" THEN client.from ELSE None

-----------------------------------------------------------------------------
(* Pieces that the methods share.  Each of them says what it does to pc,   *)
(* callVars and projectVars.                                               *)

Fail(a) == Goto(a, "failed") /\ UNCHANGED <<callVars, projectVars>>
Await(a, label) == Goto(a, label) /\ UNCHANGED <<callVars, projectVars>>

(* getProjectIdAsync: the cached id, or the promise that is kept, or a new *)
(* promise and its detection.                                              *)
getProjectIdAsync(a, label) ==
  IF cachedProjectId # None \/ promise # None
  THEN /\ Goto(a, label)
       /\ wait' = [wait EXCEPT ![a] =
                     IF cachedProjectId # None THEN None ELSE promise]
       /\ UNCHANGED projectVars
  ELSE /\ pc' = [pc EXCEPT ![a] = label, ![Detection(a)] = "start"]
       /\ wait' = [wait EXCEPT ![a] = Detection(a)]
       /\ promise' = Detection(a)
       /\ UNCHANGED <<cachedProjectId, outcome>>

(* getApplicationDefaultAsync has a client, and asks for the project id    *)
(* before it returns.                                                      *)
HoldAndAskProject(c, client) ==
  /\ getProjectIdAsync(Me(c), "project")
  /\ returned' = [returned EXCEPT ![c].client = client]
  /\ UNCHANGED signed

(* Its last resort, once _checkIsGCE has an answer.  The client it returns *)
(* here is read from cachedCredential after the project id has come.       *)
ComputeOrFail(c, m, isGCE) ==
  IF isGCE
  THEN /\ cachedCredential' = ClientOf("gce", None, OptionsFor(m))
       /\ HoldAndAskProject(c, None)
       /\ UNCHANGED jsonContent
  ELSE Fail(Me(c)) /\ UNCHANGED cacheVars

(* Variant: the well-known file is looked at first.                        *)
FileAtWellKnownFirst ==
  IF env.wellKnownFile # None THEN "wellKnownFile"
  ELSE IF env.envFile # None THEN "envFile" ELSE None

(* The file that getApplicationDefaultAsync reads.                         *)
DefaultFile ==
  IF env.envFile # None THEN "envFile"
  ELSE IF env.wellKnownFile # None THEN "wellKnownFile" ELSE None

(* getApplicationDefaultAsync as far as it goes without I/O.               *)
getApplicationDefaultAsync(c, m) ==
  \/ /\ cachedCredential # None
     /\ HoldAndAskProject(c, cachedCredential)
     /\ UNCHANGED cacheVars
  \/ /\ cachedCredential = None /\ DefaultFile # None
     /\ IF DefaultFile = "envFile" /\ env.envFile = "missing"
        THEN Fail(Me(c)) ELSE Await(Me(c), DefaultFile)
     /\ UNCHANGED cacheVars
  \/ /\ cachedCredential = None /\ DefaultFile = None /\ checkIsGCE = None
     /\ Await(Me(c), "probing")
     /\ UNCHANGED cacheVars
  \/ /\ cachedCredential = None /\ DefaultFile = None /\ checkIsGCE # None
     /\ ComputeOrFail(c, m, checkIsGCE)

(* getCredentials without JSON: the account of the metadata server.        *)
AccountOfGCE == IF checkIsGCE = None THEN "probingForAccount"
                ELSE IF checkIsGCE THEN "account" ELSE "failed"

(* Only service accounts fetch ID tokens: JWT and Compute.                 *)
FetchesIdTokens(client) == client.json \notin {"user", "external"}

(* A client of a service account's JSON holds its key, one that was made   *)
(* of a key file does not until it is authorized.                          *)
HoldsKey(client) == client.json = "service"

(* sign has its client, and signs with its key, or goes on to the project. *)
SignWith(c, client) ==
  IF HoldsKey(client)
  THEN /\ Goto(Me(c), "done")
       /\ signed' = [signed EXCEPT ![c] = [account |-> client.from, by |-> client.from]]
       /\ UNCHANGED <<wait, projectVars>>
  ELSE getProjectIdAsync(Me(c), "signProject") /\ UNCHANGED signed

(* signBlob is asked for in the name of an account, by the client that is  *)
(* cached now.                                                             *)
RequestSignature(c, account) ==
  /\ Goto(Me(c), "signBlob")
  /\ signed' = [signed EXCEPT ![c] = [account |-> account, by |-> cachedCredential.from]]
  /\ UNCHANGED <<wait, returned, projectVars>>

(* Where a method that does not sign goes on with its client.              *)
AfterClient(m, client, json) ==
  IF m = "getCredentials" /\ json = None THEN AccountOfGCE
  ELSE IF m = "getIdTokenClient" /\ ~FetchesIdTokens(client) THEN "failed"
       ELSE IF m = "request" THEN "delegated" ELSE "done"

(* getClient has its client: what each method does with it.                *)
ClientReady(c, m, client, json) ==
  /\ returned' = [returned EXCEPT ![c].client = client]
  /\ IF m = "sign" THEN SignWith(c, client)
     ELSE /\ Goto(Me(c), AfterClient(m, client, json))
          /\ UNCHANGED <<wait, signed, projectVars>>

(* getClient as far as it goes without I/O.                                *)
getClient(c, m) ==
  \/ /\ cachedCredential # None
     /\ ClientReady(c, m, cachedCredential, jsonContent)
     /\ UNCHANGED cacheVars
  \/ /\ cachedCredential = None /\ jsonContent # None
     /\ cacheClientFromJSON(jsonContent.from, jsonContent.json, "clientOptions")
     /\ ClientReady(c, m, cachedCredential', jsonContent')
  \/ /\ cachedCredential = None /\ jsonContent = None /\ env.keyFile # None
     /\ Await(Me(c), "keyFile")
     /\ UNCHANGED cacheVars
  \/ /\ cachedCredential = None /\ jsonContent = None /\ env.keyFile = None
     /\ getApplicationDefaultAsync(c, m)

-----------------------------------------------------------------------------
(* Files.                                                                  *)

SourceOf(label) == IF label = "detectFile" THEN "envFile" ELSE label
Content(label) == env[SourceOf(label)]

(* fromStreamAsync: JSON is cached with its client; anything else is taken *)
(* for the key file of the constructor, whichever file it is, if there is  *)
(* one.                                                                    *)
Parses(label) == Content(label) \in Json
Unreadable(label) ==
  ~Parses(label) /\ (Content(label) = "missing" \/ env.keyFile = None)

fromStreamAsync(label, options) ==
  \/ /\ Parses(label)
     /\ cacheClientFromJSON(SourceOf(label), Content(label), options)
  \/ /\ ~Parses(label)
     /\ cachedCredential' = ClientOf("keyFile", None, "clientOptions")
     /\ UNCHANGED jsonContent

FileReading(a) == pc[a] \in {"keyFile", "envFile", "wellKnownFile", "detectFile"}

(* A file that a call reads has ended; getApplicationDefaultAsync goes on  *)
(* to the project id.                                                      *)
FileRead(c) ==
  LET a == Me(c) IN
  /\ ~Ready /\ FileReading(a) /\ ~Unreadable(pc[a])
  /\ fromStreamAsync(pc[a], OptionsFor(method[c]))
  /\ IF pc[a] = "keyFile"
     THEN ClientReady(c, method[c], cachedCredential', jsonContent')
     ELSE HoldAndAskProject(c, cachedCredential')
  /\ UNCHANGED <<given, checkIsGCE>>

FileError(a) ==
  /\ ~Ready /\ FileReading(a) /\ Unreadable(pc[a])
  /\ IF a \in Detections
     THEN /\ outcome' = [outcome EXCEPT ![a] = "rejected"]
          /\ Goto(a, "failed")
          /\ UNCHANGED <<cachedProjectId, promise, callVars>>
     ELSE Fail(a)
  /\ UNCHANGED <<given, cacheVars, checkIsGCE>>

-----------------------------------------------------------------------------
(* The detection of the project id.                                        *)

Resolve(d, id) ==
  /\ cachedProjectId' = id
  /\ outcome' = [outcome EXCEPT ![d] = id]
  /\ Goto(d, "done")
  /\ UNCHANGED <<promise, callVars>>

(* Variant: a promise that is rejected is not kept.                        *)
RejectAndForget(d) ==
  /\ outcome' = [outcome EXCEPT ![d] = "rejected"]
  /\ Goto(d, "failed")
  /\ promise' = None
  /\ UNCHANGED <<cachedProjectId, callVars>>

Reject(d) ==
  /\ outcome' = [outcome EXCEPT ![d] = "rejected"]
  /\ Goto(d, "failed")
  /\ UNCHANGED <<cachedProjectId, promise, callVars>>

ResolveOr(d, id, label) == IF id # None THEN Resolve(d, id) ELSE Await(d, label)

(* The file of the environment variable, read without options.             *)
ReadEnvFile(d) ==
  IF env.envFile = "missing" THEN Reject(d)
  ELSE Await(d, IF env.envFile = None THEN "gcloud" ELSE "detectFile")

(* Variant: getClient is asked without a key file too; its application     *)
(* default credentials wait for the project id.                            *)
getFileProjectIdOfAnyClient(d) ==
  /\ IF cachedCredential # None
     THEN ResolveOr(d, ProjectOf(cachedCredential), "gcloud")
     ELSE getProjectIdAsync(d, "project") /\ UNCHANGED <<returned, signed>>
  /\ UNCHANGED cacheVars

(* getFileProjectId before its first I/O.                                  *)
getFileProjectId(d) ==
  \/ /\ cachedCredential # None
     /\ ResolveOr(d, ProjectOf(cachedCredential), "gcloud")
     /\ UNCHANGED cacheVars
  \/ /\ cachedCredential = None /\ env.keyFile = None
     /\ ReadEnvFile(d)
     /\ UNCHANGED cacheVars
  \/ /\ cachedCredential = None /\ env.keyFile # None /\ jsonContent = None
     /\ Await(d, "keyFile")
     /\ UNCHANGED cacheVars
  \/ /\ cachedCredential = None /\ env.keyFile # None /\ jsonContent # None
     /\ cacheClientFromJSON(jsonContent.from, jsonContent.json, "clientOptions")
     /\ IF ProjectOf(cachedCredential') # None
        THEN Resolve(d, ProjectOf(cachedCredential')) ELSE ReadEnvFile(d)

(* What runs before getProjectIdAsync returns.                             *)
DetectionStarts(d) ==
  /\ pc[d] = "start"
  /\ IF env.projectVar
     THEN Resolve(d, "variable") /\ UNCHANGED cacheVars
     ELSE getFileProjectId(d)
  /\ UNCHANGED <<given, checkIsGCE>>

DetectionFileRead(d) ==
  /\ ~Ready /\ FileReading(d) /\ ~Unreadable(pc[d])
  /\ fromStreamAsync(pc[d], IF pc[d] = "keyFile" THEN "clientOptions" ELSE "none")
  /\ \/ /\ pc[d] = "keyFile"
        /\ IF ProjectOf(cachedCredential') # None
           THEN Resolve(d, ProjectOf(cachedCredential')) ELSE ReadEnvFile(d)
     \/ /\ pc[d] = "detectFile"
        /\ ResolveOr(d, ProjectOf(cachedCredential'), "gcloud")
  /\ UNCHANGED <<given, checkIsGCE>>

(* gcloud config config-helper: any failure gives no id.                   *)
GcloudEnds(d) ==
  /\ ~Ready /\ pc[d] = "gcloud"
  /\ ResolveOr(d, IF env.gcloud THEN "gcloud" ELSE None, "metadata")
  /\ UNCHANGED <<given, cacheVars, checkIsGCE>>

HasExternalJson == jsonContent # None /\ jsonContent.json = "external"

(* getGCEProjectId swallows every error; without an id it is the external  *)
(* account's turn, if jsonContent is one's: getClient makes its client if  *)
(* there is none.  A cached client of another kind has no getProjectId.    *)
MetadataProject(d) ==
  /\ ~Ready /\ pc[d] = "metadata"
  /\ \/ /\ env.gce
        /\ Resolve(d, "gce") /\ UNCHANGED cacheVars
     \/ /\ ~HasExternalJson
        /\ Reject(d) /\ UNCHANGED cacheVars
     \/ /\ HasExternalJson
        /\ IF cachedCredential # None
           THEN /\ UNCHANGED cacheVars
                /\ IF cachedCredential.json = "external"
                   THEN Await(d, "external") ELSE Reject(d)
           ELSE /\ cacheClientFromJSON(jsonContent.from, "external", "clientOptions")
                /\ Await(d, "external")
  /\ UNCHANGED <<given, checkIsGCE>>

(* The external account's own getProjectId, which may have none or fail.   *)
ExternalProject(d) ==
  /\ ~Ready /\ pc[d] = "external"
  /\ Resolve(d, "external") \/ Reject(d)
  /\ UNCHANGED <<given, cacheVars, checkIsGCE>>

-----------------------------------------------------------------------------
(* The calls.                                                              *)

Begin(c) ==
  LET m == method[c] IN
  /\ pc[Me(c)] = "idle" /\ ~Starting
  /\ \/ m \in Searches /\ getClient(c, m)
     \/ m = "getApplicationDefault" /\ getApplicationDefaultAsync(c, m)
     \/ /\ m = "getProjectId"
        /\ getProjectIdAsync(Me(c), "project")
        /\ UNCHANGED <<cacheVars, returned, signed>>
  /\ UNCHANGED <<given, checkIsGCE>>

(* What a promise of the project id gave an actor.                         *)
ProjectIdFor(a) == IF wait[a] = None THEN cachedProjectId ELSE outcome[wait[a]]

(* Variant: sign asks the metadata server first.                           *)
getCredentialsOfGCE(c) ==
  IF env.gce THEN RequestSignature(c, "gce") ELSE Fail(Me(c))

(* getCredentials as sign calls it, with a client that is cached: only a   *)
(* service account's JSON has a client_email.                              *)
getCredentialsToSign(c) ==
  IF jsonContent = None THEN Await(Me(c), AccountOfGCE)
  ELSE IF jsonContent.json = "service" THEN RequestSignature(c, jsonContent.from)
       ELSE Fail(Me(c))

(* The project id has come, or its detection has failed.                   *)
ProjectSettled(c) ==
  LET a == Me(c)
      id == ProjectIdFor(a)
      held == IF returned[c].client # None THEN returned[c].client
              ELSE cachedCredential
  IN
  /\ AwaitsProject(a) /\ id # "pending" /\ ~Starting
  /\ \/ id = "rejected" /\ Fail(a)
     \/ /\ id # "rejected" /\ pc[a] = "signProject"
        /\ getCredentialsToSign(c)
     \/ /\ id # "rejected" /\ pc[a] = "project" /\ method[c] \in Searches
        /\ ClientReady(c, method[c], cachedCredential, jsonContent)
     \/ /\ id # "rejected" /\ method[c] \in {"getProjectId", "getApplicationDefault"}
        /\ Goto(a, "done")
        /\ returned' = [returned EXCEPT ![c] =
             [client |-> IF method[c] = "getProjectId" THEN None ELSE held,
              project |-> id]]
        /\ UNCHANGED <<wait, signed, projectVars>>
  /\ UNCHANGED <<given, cacheVars, checkIsGCE>>

(* gcpMetadata.isAvailable answers for the environment, or throws.         *)
IsAvailable(c) ==
  /\ ~Ready
  /\ checkIsGCE' = env.gce
  /\ \/ /\ pc[Me(c)] = "probing"
        /\ ComputeOrFail(c, method[c], env.gce)
     \/ /\ pc[Me(c)] = "probingForAccount"
        /\ IF env.gce THEN Await(Me(c), "account") ELSE Fail(Me(c))
        /\ UNCHANGED cacheVars
  /\ UNCHANGED given

IsAvailableThrows(c) ==
  /\ ~Ready /\ pc[Me(c)] \in {"probing", "probingForAccount"}
  /\ Fail(Me(c))
  /\ UNCHANGED <<given, cacheVars, checkIsGCE>>

(* The service account's address, from the metadata server.                *)
AccountRead(c) ==
  /\ ~Ready /\ pc[Me(c)] = "account"
  /\ \/ IF method[c] = "sign" THEN RequestSignature(c, "gce") ELSE Await(Me(c), "done")
     \/ Fail(Me(c))
  /\ UNCHANGED <<given, cacheVars, checkIsGCE>>

(* The request, or the refresh, that the client was asked for has ended.   *)
ClientAnswers(c) ==
  /\ ~Ready /\ pc[Me(c)] \in {"delegated", "signBlob"}
  /\ Await(Me(c), "done") \/ Fail(Me(c))
  /\ UNCHANGED <<given, cacheVars, checkIsGCE>>

Searching == <<env, method, cacheVars, checkIsGCE, projectVars, pc, callVars>>

GetEnv(c) ==
  /\ method[c] = "getEnv" /\ ~Starting
  /\ getEnv(c)
  /\ UNCHANGED Searching

EnvStep(c) == ~Ready /\ EnvAnswers(c) /\ UNCHANGED Searching

Clear == clear /\ UNCHANGED Searching

Step(c) ==
  \/ ProjectSettled(c)
  \/ FileRead(c)
  \/ FileError(Me(c))
  \/ IsAvailable(c)
  \/ IsAvailableThrows(c)
  \/ AccountRead(c)
  \/ ClientAnswers(c)
  \/ EnvStep(c)

DetectionStep(d) ==
  \/ DetectionStarts(d)
  \/ DetectionFileRead(d)
  \/ FileError(d)
  \/ GcloudEnds(d)
  \/ MetadataProject(d)
  \/ ExternalProject(d)

Next ==
  \/ \E c \in Call : Begin(c) \/ GetEnv(c) \/ Step(c)
  \/ \E d \in Detections : DetectionStep(d)
  \/ Clear

Spec == Init /\ [][Next]_vars

(* Files end, commands exit and metadata requests time out.                *)
FairSpec == /\ Spec
            /\ \A c \in Call : WF_vars(Step(c))
            /\ \A d \in Detections : WF_vars(DetectionStep(d))

-----------------------------------------------------------------------------
(* Properties.                                                             *)

Labels == {"idle", "start", "keyFile", "envFile", "wellKnownFile", "detectFile",
           "probing", "probingForAccount", "account", "gcloud", "metadata",
           "external", "project", "signProject", "delegated", "signBlob"}
          \union Settled

(* Every variable of GoogleAuth, and of its calls and detections, has its  *)
(* shape (the fields of lines 95-140).                                     *)
TypeOK ==
  /\ EnvTypeOK
  /\ env \in Environment
  /\ method \in [Call -> AllMethods \union {"getEnv", None}]
  /\ cachedCredential \in Client \union {None}
  /\ jsonContent \in [from : Sources, json : Json] \union {None}
  /\ checkIsGCE \in BOOLEAN \union {None}
  /\ cachedProjectId \in ProjectIds \union {None}
  /\ promise \in Detections \union {None}
  /\ outcome \in [Detections -> ProjectIds \union {"pending", "rejected"}]
  /\ pc \in [Actor -> Labels]
  /\ wait \in [Actor -> Detections \union {None}]
  /\ returned \in [Call -> [client : Client \union {None},
                            project : ProjectIds \union {None}]]
  /\ signed \in [Call -> [account : Sources \union {"gce"},
                          by : Sources \union {"gce"}] \union {None}]

(* getProjectIdAsync (lines 168-208): whatever clients are cached in the   *)
(* meantime and whatever the concurrent calls are, all callers get the     *)
(* same project id, which is the one that is kept.                         *)
OneProjectId ==
  \A c \in Call :
    returned[c].project # None => returned[c].project = cachedProjectId

(* The first source of application default credentials.                    *)
FirstDefault ==
  IF env.envFile # None THEN "envFile"
  ELSE IF env.wellKnownFile # None THEN "wellKnownFile" ELSE "gce"

(* The source a caller that passed these options expects its client from.  *)
ConfiguredSource ==
  IF env.credentials # None THEN "credentials"
  ELSE IF env.keyFile # None THEN "keyFile" ELSE FirstDefault

(* No environment variable competes with the constructor's credentials or  *)
(* keyFile, and getApplicationDefault, which looks at neither, is not      *)
(* called beside them.                                                     *)
Uncontested ==
  \/ env.credentials = None /\ env.keyFile = None
  \/ /\ env.envFile = None
     /\ \A c \in Call : method[c] # "getApplicationDefault"

(* The sources that one method or another looks for first; a file that is  *)
(* not JSON leads to the key file.                                         *)
Candidates == {ConfiguredSource, FirstDefault}
              \union (IF env.keyFile = None THEN {} ELSE {"keyFile"})

(* getClient (lines 760-777) and getApplicationDefaultAsync (248-316): the *)
(* client of every call comes from the first source in the order of        *)
(* precedence, however the calls interleave with the detection of the      *)
(* project id.  In any environment that is the first of one of the two     *)
(* orders, never a source that has another before it in both; where the    *)
(* orders do not compete, it is the source the caller configured.          *)
PrecedenceKept ==
  \A c \in Call : pc[Me(c)] = "done" /\ method[c] # "getProjectId" =>
    /\ returned[c].client.from \in Candidates
    /\ Uncontested => returned[c].client.from = ConfiguredSource

(* _cacheClientFromJSON (lines 472-497): jsonContent, from which           *)
(* getCredentials and sign take the account's address and key, is what     *)
(* the cached client was made of.                                          *)
JsonMatchesClient ==
  cachedCredential # None =>
    jsonContent = IF cachedCredential.json = None THEN None
                  ELSE [from |-> cachedCredential.from,
                        json |-> cachedCredential.json]

(* The same, in an uncontested environment.                                *)
UncontestedJsonMatches == Uncontested => JsonMatchesClient

(* sign (lines 854-881), getCredentialsAsync (724-753): in an uncontested   *)
(* environment the account that signBlob is asked for is the one whose     *)
(* client carries the request, although sign looks at the cached client    *)
(* three times and at the JSON and the metadata server in between.  A key  *)
(* file that is not JSON is left out: its client does not know its key     *)
(* before it is authorized, and the machine's account is named instead.    *)
SignsForItsClient ==
  Uncontested /\ env.keyFile # "key" =>
    \A c \in Call : signed[c] # None => signed[c].account = signed[c].by

(* clientOptions (lines 86-89): the client that getClient returns was      *)
(* built with the constructor's clientOptions.                             *)
ClientOptionsUsed ==
  \A c \in Call :
    /\ method[c] = "getClient" /\ pc[Me(c)] = "done"
    => returned[c].client.options = "clientOptions"

(* The detection calls getClient, and getClient waits for the project id   *)
(* (lines 248-316, 641-685), and getEnv waits for another call's detection *)
(* (lines 32-38 of envDetect.ts): no circle of waits, and every call ends. *)
EveryCallSettles ==
  \A c \in Call :
    (pc[Me(c)] # "idle" \/ joined[c] # None)
    ~> (pc[Me(c)] \in Settled \/ Answer(c) \in Outcome)

(* The project id is a memoised promise that is never forgotten.  What it  *)
(* told a getProjectId that failed is "rejected".  getApplicationDefault   *)
(* asks when it is told.                                                   *)
AsksProject(c) == \/ method[c] = "getProjectId" /\ pc[Me(c)] # "idle"
                  \/ returned[c].project # None
Detected == ({cachedProjectId} \union {outcome[d] : d \in Detections})
            \ {None, "pending"}

ProjectMemo == INSTANCE MemoisedPromise WITH
  Caller <- Call,
  Result <- ProjectIds \union {"rejected"},
  epoch <- 0,
  asked <- [c \in Call |-> IF AsksProject(c) THEN 0 ELSE None],
  ended <- {<<0, id>> : id \in Detected},
  told <- [c \in Call |->
             IF method[c] = "getProjectId" /\ pc[Me(c)] = "failed" THEN "rejected"
             ELSE returned[c].project]

(* getProjectIdAsync (lines 168-208) implements the promise: the detection *)
(* ends once, with an id or in failure, and for good; all callers get that *)
(* id, which is the one that is kept, and no getProjectId fails unless the *)
(* detection has.                                                          *)
ProjectMemoised == ProjectMemo!Spec
=============================================================================
