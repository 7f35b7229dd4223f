--------------------------- MODULE TokenRequests ---------------------------
(***************************************************************************)
(* What the library sends to token endpoints and APIs, and what becomes of *)
(* their refusals: the subject token that AwsClient (src/auth/             *)
(* awsclient.ts) signs and StsCredentials (src/auth/stscredentials.ts)     *)
(* exchanges, the consent URL and the code that OAuth2Client redeems       *)
(* (src/auth/oauth2client.ts), and requests that are made again and again  *)
(* with one options object.  ExternalAccountClient models when requests    *)
(* are made and with which region; this module, what is in them.           *)
(*                                                                         *)
(* Between two steps of a call the clock moves, the AWS instance gets      *)
(* another role or newer keys, and other calls change the objects they     *)
(* share with it.                                                          *)
(***************************************************************************)
EXTENDS OAuthRequests

CONSTANTS
  Call,      \* the calls, each of which does one job
  Setups,    \* who the client is and what the calls are to do
  Role,      \* the roles the AWS instance may be given
  Region,    \* its region
  Audience,  \* the audience of the exchange
  App,       \* the application's product in a User-Agent
  DayLength, \* how many values of the clock make a day
  MaxNow,    \* bound on the clock
  MaxKeys,   \* bound on how often the keys of a role are replaced
  MaxSends   \* bound on how often a call uses its options object

INSTANCE AwsRequestSigner

(* keyVars: which AWS variables the environment has: none, the two of a    *)
(* permanent key, or the session token too.  auth: the client's            *)
(* credentials at the STS endpoint.  Of a job: the OAuth2Client, the       *)
(* options object, the redirect URI the application passes, and which of   *)
(* code_challenge_method and code_challenge.                               *)
Jobs == [does : {"exchange", "consent", "request"},
         client : [id : STRING, secret : STRING, redirect : STRING],
         object : STRING, redirect : STRING \union {None},
         pkce : {"none", "method", "both"}, given : SUBSET STRING]

ASSUME SetupsOk ==
  /\ {MaxNow, MaxKeys, MaxSends} \subseteq Nat
  /\ DayLength \in Nat \ {0}
  /\ \A s \in Setups : /\ s.keyVars \in {"none", "permanent", "session"}
                       /\ s.auth \in ClientAuthentication \union {None}
                       /\ s.auth # None => Basic(s.auth) # None
                       /\ s.jobs \in [Call -> Jobs]
  /\ Node # Auth
  /\ None \notin {"verifier"} \X Call

VARIABLES
  setup,    \* the configuration and the jobs, which do not change
  now,      \* the clock
  role,     \* the role of the AWS instance
  keys,     \* how often its keys were replaced
  pc,       \* what each call waits for
  asked,    \* the role whose keys a call asks for
  signing,  \* the credentials and the time a call signs with
  urlOpts,  \* the options objects of generateAuthUrl
  code,     \* the code a call was given: what the server knows of it
  options,  \* the options objects of requests
  sends,    \* how often a call has sent its request
  posted,   \* the options of the request a call has sent
  answered, \* the response a call got
  thrown    \* the error a call ended with

awsVars == <<role, keys, asked, signing>>
consentVars == <<urlOpts, code>>
requestVars == <<options, sends>>
sentVars == <<posted, answered, thrown>>
vars == <<setup, now, awsVars, pc, consentVars, requestVars, sentVars>>

Object == {setup.jobs[c].object : c \in Call}

NoHeaders == [userAgent |-> <<>>, apiClient |-> <<>>]
NoRequest == [method |-> "POST", contentType |-> "form", serialized |-> TRUE,
              authorization |-> None, body |-> [p \in {} |-> None],
              headers |-> NoHeaders, given |-> {}]

Init ==
  /\ setup \in Setups
  /\ now = 0 /\ role \in Role /\ keys = 0
  /\ pc = [c \in Call |-> "idle"]
  /\ asked = [c \in Call |-> None]
  /\ signing = [c \in Call |-> None]
  /\ urlOpts = [o \in Object |-> [client_id |-> None, redirect_uri |-> None,
                                  code_challenge |-> None]]
  /\ code = [c \in Call |-> None]
  /\ options = [o \in Object |-> NoRequest]
  /\ sends = [c \in Call |-> 0]
  /\ posted = [c \in Call |-> None]
  /\ answered = [c \in Call |-> None]
  /\ thrown = [c \in Call |-> None]

Goto(c, label) == pc' = [pc EXCEPT ![c] = label]
Post(c, opts) == posted' = [posted EXCEPT ![c] = configure(opts)]
Does(c, what) == setup.jobs[c].does = what

-----------------------------------------------------------------------------
(* The keys of AWS.  Keys that were replaced remain valid for a while.     *)

Temporary(r, k) == [accessKeyId |-> <<r, k>>, secretAccessKey |-> <<"secret", r, k>>,
                    token |-> <<"session", r, k>>]
Variables == [accessKeyId |-> <<"env">>, secretAccessKey |-> <<"secret", "env">>,
              token |-> IF setup.keyVars = "session" THEN <<"session", "env">> ELSE None]
Issued == {Temporary(r, k) : r \in Role, k \in 0..keys} \union {Variables}

(* The request that is signed, to the regional STS endpoint of AWS.        *)
GetCallerIdentity ==
  [url |-> [host |-> [service |-> "sts", region |-> Region], query |-> "GetCallerIdentity"],
   method |-> "POST", body |-> None, data |-> None, headers |-> Empty]

(* getRequestOptions once it has the credentials reads the clock, and      *)
(* waits for the digests.                                                  *)
StartSigning(c, credentials) ==
  /\ signing' = [signing EXCEPT ![c] = [credentials |-> credentials, time |-> now]]
  /\ Goto(c, "digest")

retrieveSubjectToken(c) ==
  /\ pc[c] = "idle" /\ Does(c, "exchange")
  /\ IF setup.keyVars # "none"
     THEN StartSigning(c, Variables)
     ELSE Goto(c, "role") /\ UNCHANGED signing
  /\ UNCHANGED <<setup, now, role, keys, asked, consentVars, requestVars, sentVars>>

getAwsRoleName(c) ==
  /\ pc[c] = "role"
  /\ asked' = [asked EXCEPT ![c] = role]
  /\ Goto(c, "keys")
  /\ UNCHANGED <<setup, now, role, keys, signing, consentVars, requestVars, sentVars>>

(* Only the keys of the role the instance has can be read.                 *)
getAwsSecurityCredentials(c) ==
  /\ pc[c] = "keys" /\ asked[c] = role
  /\ StartSigning(c, Temporary(role, keys))
  /\ UNCHANGED <<setup, now, role, keys, asked, consentVars, requestVars, sentVars>>

(* Variant: the clock is read again for the request that is sent.          *)
SignedAnew(c) ==
  LET signed == getRequestOptions(GetCallerIdentity, Region, signing[c].credentials,
                                  signing[c].time)
  IN  [signed EXCEPT !.headers[Lower("x-amz-date")] = now]

Signed(c) ==
  getRequestOptions(GetCallerIdentity, Region, signing[c].credentials, signing[c].time)

(* The token: URL, method and headers, with the audience, without a body.  *)
SubjectToken(request) ==
  [url |-> request.url, method |-> request.method, payload |-> None,
   headers |-> Assign(Only(Lower("x-goog-cloud-target-resource"), Audience),
                      request.headers)]

(* exchangeToken up to its request; it throws if the client's credentials  *)
(* have no place in it.                                                    *)
exchangeToken(c) ==
  LET opts == [NoRequest EXCEPT !.body = Only("subject_token", SubjectToken(Signed(c)))]
  IN  /\ pc[c] = "digest"
      /\ IF ThrowsForClient(opts, setup.auth, None)
         THEN Goto(c, "rejected") /\ UNCHANGED posted
         ELSE /\ Post(c, applyClientAuthenticationOptions(opts, setup.auth, None))
              /\ Goto(c, "sts")
      /\ UNCHANGED <<setup, now, awsVars, consentVars, requestVars, answered, thrown>>

-----------------------------------------------------------------------------
(* Consent.  The verifier of a call is random: it is the call's own.       *)

Verifier(c) == <<"verifier", c>>
Challenge(verifier) == [sha256 |-> verifier]

generateCodeVerifierAsync(c) ==
  /\ pc[c] = "idle" /\ Does(c, "consent")
  /\ Goto(c, "verifier")
  /\ UNCHANGED <<setup, now, awsVars, consentVars, requestVars, sentVars>>

(* What the application writes into the options object.                    *)
Wishes(c) ==
  LET job == setup.jobs[c]
  IN [urlOpts[job.object] EXCEPT
        !.redirect_uri = IF job.redirect = None THEN @ ELSE job.redirect,
        !.code_challenge = IF job.pkce = "both" THEN Challenge(Verifier(c)) ELSE None]

Or(value, default) == IF value = None THEN default ELSE value

(* Variant: what the client was made with comes before the options.        *)
WithClientFirst(opts, client) ==
  [opts EXCEPT !.client_id = client.id, !.redirect_uri = client.redirect]

(* What is missing in the options is filled in, in the object itself.      *)
WithDefaults(opts, client) ==
  [opts EXCEPT !.client_id = Or(@, client.id), !.redirect_uri = Or(@, client.redirect)]

(* The application asks for a URL and sends the user there.  The server    *)
(* will remember with the code what was in the URL.                        *)
generateAuthUrl(c) ==
  LET job == setup.jobs[c]
  IN  /\ pc[c] = "verifier"
      /\ IF job.pkce = "method"
         THEN /\ urlOpts' = [urlOpts EXCEPT ![job.object] = Wishes(c)]
              /\ Goto(c, "rejected")
              /\ UNCHANGED code
         ELSE /\ urlOpts' = [urlOpts EXCEPT
                               ![job.object] = WithDefaults(Wishes(c), job.client)]
              /\ code' = [code EXCEPT ![c] = urlOpts'[job.object]]
              /\ Goto(c, "consent")
      /\ UNCHANGED <<setup, now, awsVars, requestVars, sentVars>>

(* The user consents and the application calls getToken with the code.     *)
getTokenAsync(c) ==
  LET job == setup.jobs[c]
  IN  /\ pc[c] = "consent"
      /\ Post(c, [NoRequest EXCEPT !.body =
           [code |-> code[c], client_id |-> job.client.id,
            client_secret |-> job.client.secret,
            redirect_uri |-> Or(job.redirect, job.client.redirect),
            code_verifier |-> IF job.pkce = "both" THEN Verifier(c) ELSE None]])
      /\ Goto(c, "redeem")
      /\ UNCHANGED <<setup, now, awsVars, consentVars, requestVars, answered, thrown>>

-----------------------------------------------------------------------------
(* Requests with an options object that is kept and used again, as an      *)
(* application may, and as IdentityPoolClient does with the headers of its *)
(* credential_source.                                                      *)

(* DefaultTransporter.request configures the object before it looks for    *)
(* options it does not know.                                               *)
request(c) ==
  LET o == setup.jobs[c].object
  IN  /\ pc[c] = "idle" /\ Does(c, "request") /\ sends[c] < MaxSends
      /\ options' = [options EXCEPT ![o] =
                       configure([@ EXCEPT !.given = setup.jobs[c].given])]
      /\ IF validates(options'[o])
         THEN /\ posted' = [posted EXCEPT ![c] = options'[o]]
              /\ sends' = [sends EXCEPT ![c] = @ + 1]
              /\ Goto(c, "sent")
         ELSE Goto(c, "rejected") /\ UNCHANGED <<posted, sends>>
      /\ UNCHANGED <<setup, now, awsVars, consentVars, answered, thrown>>

(* Between two requests the application sets headers of its own.           *)
SetHeaders(o) ==
  /\ \E c \in Call : Does(c, "request") /\ setup.jobs[c].object = o /\ pc[c] = "idle"
  /\ \E name \in {"userAgent", "apiClient"} :
       options' = [options EXCEPT ![o].headers[name] = <<App>>]
  /\ UNCHANGED <<setup, now, awsVars, pc, consentVars, sends, sentVars>>

-----------------------------------------------------------------------------
(* Answers.                                                                *)

Waiting == {"role", "keys", "sts", "redeem", "sent"}

(* A grant ends the call; an application may make its request again.       *)
Granted(c) ==
  /\ pc[c] \in {"sts", "redeem", "sent"}
  /\ Goto(c, IF pc[c] = "sent" THEN "idle" ELSE "done")
  /\ UNCHANGED <<setup, now, awsVars, consentVars, requestVars, sentVars>>

(* What exchangeToken's catch makes of an error with a response.           *)
Translated(c, e) ==
  IF pc[c] = "sts" /\ e.response # None THEN getErrorFromOAuthErrorResponse(e) ELSE e

(* A request is refused with a response, or gets none.                     *)
Refused(c) ==
  \E response \in [status : {401, 503},
                     error : {"text", "object", "list", "none", "null"}] \union {None} :
    /\ pc[c] \in Waiting
    /\ answered' = [answered EXCEPT ![c] = response]
    /\ thrown' = [thrown EXCEPT ![c] = Translated(c, processError(
         IF response = None THEN NetworkError ELSE StatusError(response)))]
    /\ Goto(c, "failed")
    /\ UNCHANGED <<setup, now, awsVars, consentVars, requestVars, posted>>

-----------------------------------------------------------------------------
(* The rest of the world.                                                  *)

Tick ==
  /\ now < MaxNow
  /\ now' = now + 1
  /\ UNCHANGED <<setup, awsVars, pc, consentVars, requestVars, sentVars>>

NewKeys ==
  /\ keys < MaxKeys
  /\ keys' = keys + 1
  /\ role' \in Role
  /\ UNCHANGED <<setup, now, asked, signing, pc, consentVars, requestVars, sentVars>>

Next ==
  \/ \E c \in Call : retrieveSubjectToken(c)
  \/ \E c \in Call : getAwsRoleName(c)
  \/ \E c \in Call : getAwsSecurityCredentials(c)
  \/ \E c \in Call : exchangeToken(c)
  \/ \E c \in Call : generateCodeVerifierAsync(c)
  \/ \E c \in Call : generateAuthUrl(c)
  \/ \E c \in Call : getTokenAsync(c)
  \/ \E c \in Call : request(c)
  \/ \E o \in Object : SetHeaders(o)
  \/ \E c \in Call : Granted(c)
  \/ \E c \in Call : Refused(c)
  \/ Tick
  \/ NewKeys

Spec == Init /\ [][Next]_vars

-----------------------------------------------------------------------------
(* Properties.                                                             *)

(* Every token exchange can be granted: the subject token that             *)
(* AwsClient.retrieveSubjectToken serializes is a request that AWS accepts *)
(* although the clock, the role and its keys have changed since it was     *)
(* begun, and applyClientAuthenticationOptions has identified the client   *)
(* in exactly one way.                                                     *)
ExchangesCanBeGranted ==
  \A c \in Call : pc[c] = "sts" =>
    /\ Accepts(Issued, posted[c].body["subject_token"])
    /\ Authenticates(posted[c], setup.auth)

(* The error a caller gets tells what the server answered, after           *)
(* processError and the translation into an OAuth error, which             *)
(* requestAsync of BaseExternalAccountClient needs to tell a refused       *)
(* token, to be replaced, from other failures.  Only a body that is null   *)
(* is not translated but read, which throws.                               *)
RefusalsKeepTheirStatus ==
  \A c \in Call : pc[c] = "failed" =>
    \/ thrown[c].response = answered[c]
    \/ answered[c] # None /\ answered[c].error = "null" /\ Does(c, "exchange")

RedirectOf(job) == Or(job.redirect, job.client.redirect)

(* The jobs that have called generateAuthUrl with an options object.       *)
JobsWith(o) ==
  {setup.jobs[d] : d \in {e \in Call : /\ Does(e, "consent") /\ setup.jobs[e].object = o
                                      /\ pc[e] \notin {"idle", "verifier"}}}

(* The code that generateAuthUrl's URL leads to can be redeemed by         *)
(* getToken of that client, with the verifier made for it.  The verifier   *)
(* fits the URL's challenge whatever other calls have done with the        *)
(* options object.  The client and the redirect URI differ from the URL's  *)
(* in one case only: the object has kept those of another call with the    *)
(* same object, which wanted another client or another redirect URI.       *)
CodesAreRedeemable ==
  \A c \in Call : pc[c] = "redeem" =>
    LET job == setup.jobs[c]
        body == posted[c].body
    IN /\ \/ body.client_id = body.code.client_id
          \/ \E other \in JobsWith(job.object) :
               /\ body.code.client_id = other.client.id
               /\ other.client.id # job.client.id
       /\ \/ body.redirect_uri = body.code.redirect_uri
          \/ \E other \in JobsWith(job.object) :
               /\ body.code.redirect_uri = RedirectOf(other)
               /\ RedirectOf(other) # RedirectOf(job)
       /\ IF body.code_verifier = None THEN body.code.code_challenge = None
          ELSE body.code.code_challenge = Challenge(body.code_verifier)

Count(products, product) == {i \in DOMAIN products : products[i] = product}

(* However often an options object is used again, and whoever has written  *)
(* headers into it meanwhile, each request names the library and its       *)
(* version exactly once (DefaultTransporter.configure).                    *)
IdentifiedOnce ==
  \A c \in Call : posted[c] # None =>
    LET headers == posted[c].headers
    IN /\ \E i \in DOMAIN headers.userAgent : Count(headers.userAgent, Library) = {i}
       /\ \E i \in DOMAIN headers.apiClient : Count(headers.apiClient, Auth) = {i}
=============================================================================
