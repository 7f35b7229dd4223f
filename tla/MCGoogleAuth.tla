---------------------------- MODULE MCGoogleAuth ----------------------------
(***************************************************************************)
(* Instances of GoogleAuth for TLC: the environments it may find, and the  *)
(* calls that are made in them.  The calls are alike, so what matters of a *)
(* workload is how many of them are of each method.                        *)
(***************************************************************************)
EXTENDS GoogleAuth, TLC

CONSTANTS c1, c2, c3

Bare == [credentials |-> None, keyFile |-> None, envFile |-> None,
         wellKnownFile |-> None, projectId |-> FALSE, projectVar |-> FALSE,
         gcloud |-> FALSE, gce |-> FALSE]

(* No option and no file: on GCE, and on a machine with nothing at all.    *)
NoFiles == {[Bare EXCEPT !.gce = g, !.gcloud = ~g] : g \in BOOLEAN} \union {Bare}

(* One explicit source, with and without another place for a project id.   *)
OneOption ==
  {[Bare EXCEPT !.credentials = j, !.gcloud = g] :
     j \in {"service", "external"}, g \in BOOLEAN}
  \union {[Bare EXCEPT !.keyFile = k, !.wellKnownFile = "user"] :
            k \in {"service", "external", "key", "missing"}}
  \union {[Bare EXCEPT !.credentials = "user", !.keyFile = "service", !.gce = TRUE]}

(* The files that application default credentials look at.                 *)
DefaultFiles ==
  {[Bare EXCEPT !.envFile = e, !.wellKnownFile = "service", !.gcloud = TRUE] :
     e \in {"user", "service", "external", "key", "missing", None}}
  \union {[Bare EXCEPT !.wellKnownFile = w, !.gce = TRUE] :
            w \in {"external", "key", "user"}}

(* Project ids that are given.                                             *)
GivenProject ==
  {[Bare EXCEPT !.envFile = "external", !.projectVar = TRUE],
   [Bare EXCEPT !.keyFile = "user", !.projectId = TRUE, !.gce = TRUE]}

(* An explicit source and the environment variable, with a well-known file *)
(* that must not be read beside them.                                      *)
Contested ==
  {[Bare EXCEPT !.keyFile = k, !.envFile = "service", !.wellKnownFile = "user"] :
     k \in {"key", "user"}}
  \union {[Bare EXCEPT !.credentials = "user", !.envFile = "service",
                       !.wellKnownFile = "user", !.gce = TRUE]}

AllEnvironments ==
  NoFiles \union OneOption \union DefaultFiles \union GivenProject \union Contested

Workload(m1, m2, m3) == [c \in Call |-> CASE c = c1 -> m1 [] c = c2 -> m2 [] OTHER -> m3]

(* Three of the four methods that search, with repetition, up to order.    *)
ThreeSearches ==
  LET order == <<"getClient", "getProjectId", "getApplicationDefault", "getCredentials">>
  IN {Workload(order[i], order[j], order[k]) : i, j, k \in 1 .. 4}
     \ {Workload(order[i], order[j], order[k]) :
          <<i, j, k>> \in {t \in (1 .. 4) \X (1 .. 4) \X (1 .. 4) :
                             t[1] > t[2] \/ t[2] > t[3]}}

(* sign beside what may replace the client it has found.                   *)
Signing ==
  {Workload("sign", m, None) : m \in {"sign", "getProjectId", "getApplicationDefault",
                                      "request", "getIdTokenClient"}}

Nowhere == [appEngine |-> FALSE, function |-> FALSE, knative |-> FALSE,
            computeEngine |-> FALSE, kubernetes |-> FALSE]
Somewhere ==
  {Nowhere, [Nowhere EXCEPT !.appEngine = TRUE],
   [Nowhere EXCEPT !.function = TRUE, !.computeEngine = TRUE],
   [Nowhere EXCEPT !.knative = TRUE, !.computeEngine = TRUE],
   [Nowhere EXCEPT !.knative = TRUE, !.computeEngine = TRUE, !.kubernetes = TRUE],
   [Nowhere EXCEPT !.computeEngine = TRUE]}

Scene(environments, workloads, machines) ==
  [env : environments, method : workloads, machine : machines]

AllScenarios ==
  Scene(AllEnvironments, ThreeSearches \union Signing, {Nowhere})
  \union Scene({Bare}, {Workload("getEnv", "getEnv", "getEnv")}, Somewhere)
  \union Scene(NoFiles, {Workload("getEnv", "getEnv", "request")}, Somewhere)

(* What the two findings need.                                             *)
ClientAndProject == {Workload("getClient", "getProjectId", None)}
KeyAndVariable ==
  Scene({[Bare EXCEPT !.keyFile = "key", !.envFile = "service"]}, ClientAndProject, {Nowhere})
VariableOnly ==
  Scene({[Bare EXCEPT !.envFile = "service"]}, ClientAndProject, {Nowhere})
=============================================================================
