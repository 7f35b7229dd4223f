--------------------------- MODULE OAuthRequests ---------------------------
(***************************************************************************)
(* What every request of the library passes through, as operators: the     *)
(* client authentication of src/auth/oauth2common.ts, the options and the  *)
(* errors of DefaultTransporter (src/transporters.ts, src/options.ts), and *)
(* the translation of an OAuth error response into an Error.               *)
(***************************************************************************)
EXTENDS Sequences, Integers

CONSTANTS Library,   \* the product name of the library in a User-Agent
          Node,      \* gl-node/<version>
          Auth,      \* auth/<version>
          None       \* an absent value

Includes(products, product) == \E i \in DOMAIN products : products[i] = product

-----------------------------------------------------------------------------
(* DefaultTransporter.configure.  A value of User-Agent or of              *)
(* x-goog-api-client is the sequence of the products it names; a header    *)
(* that is missing or empty names none.  The options object is the         *)
(* caller's, and is changed.                                               *)

Identification(headers) ==
  [userAgent |-> IF Includes(headers.userAgent, Library) THEN headers.userAgent
                 ELSE Append(headers.userAgent, Library),
   apiClient |-> IF headers.apiClient = <<>> THEN <<Node, Auth>>
                 ELSE IF Includes(headers.apiClient, Auth) THEN headers.apiClient
                 ELSE Append(headers.apiClient, Auth)]

(* Variant: the header is appended to whether or not the version is in it. *)
configureAppending(opts) ==
  [opts EXCEPT !.headers =
    [Identification(@) EXCEPT !.apiClient =
       IF opts.headers.apiClient = <<>> THEN <<Node, Auth>>
       ELSE Append(opts.headers.apiClient, Auth)]]

configure(opts) == [opts EXCEPT !.headers = Identification(@)]

(* The names of options of the request library used before.                *)
Invalid == {"uri", "json", "qs"}

validates(opts) == opts.given \cap Invalid = {}

-----------------------------------------------------------------------------
(* OAuthClientAuthHandler.  A body is a map from parameters to values.     *)

ClientAuthentication == [type : {"basic", "request-body"}, id : STRING,
                         secret : STRING \union {None}]

SupportsBody == {"PUT", "POST", "PATCH"}

Basic(auth) == [scheme |-> "Basic", id |-> auth.id,
                secret |-> IF auth.secret = None THEN "" ELSE auth.secret]

(* The token is followed by a stray brace.                                 *)
Bearer(token) == [scheme |-> "Bearer", token |-> <<token, "}">>]

injectAuthenticatedHeaders(opts, auth, bearerToken) ==
  IF bearerToken # None
  THEN [opts EXCEPT !.authorization = Bearer(bearerToken)]
  ELSE IF auth # None /\ auth.type = "basic"
       THEN [opts EXCEPT !.authorization = Basic(auth)]
       ELSE opts

(* Which requests can carry the credentials in their body; the others make *)
(* injectAuthenticatedRequestBody throw.                                   *)
TakesCredentials(opts) ==
  opts.method \in SupportsBody /\ opts.contentType \in {"form", "json"}

(* Data that is a string is parsed if its type is "form"; of type "json"   *)
(* it stays as it is, for no property can be assigned to a string.         *)
injectAuthenticatedRequestBody(opts, auth) ==
  IF opts.contentType = "json" /\ opts.serialized THEN opts
  ELSE [opts EXCEPT !.body =
          [p \in DOMAIN opts.body \union {"client_id", "client_secret"} |->
             CASE p = "client_id" -> auth.id
               [] p = "client_secret" -> IF auth.secret = None THEN "" ELSE auth.secret
               [] OTHER -> opts.body[p]]]

InBody(auth) == auth # None /\ auth.type = "request-body"

ThrowsForClient(opts, auth, bearerToken) ==
  bearerToken = None /\ InBody(auth) /\ ~TakesCredentials(opts)

(* Variant: basic credentials are repeated in the body.                    *)
applyInBothPlaces(opts, auth, bearerToken) ==
  LET inHeader == injectAuthenticatedHeaders(opts, auth, bearerToken)
  IN  IF auth # None THEN injectAuthenticatedRequestBody(inHeader, auth) ELSE inHeader

applyClientAuthenticationOptions(opts, auth, bearerToken) ==
  LET inHeader == injectAuthenticatedHeaders(opts, auth, bearerToken)
  IN  IF bearerToken = None /\ InBody(auth)
      THEN injectAuthenticatedRequestBody(inHeader, auth)
      ELSE inHeader

(* What a token endpoint requires of the request of a client it knows:     *)
(* one method of authentication, and the right secret (RFC 6749, 2.3).     *)
Authenticates(opts, auth) ==
  LET inHeader == opts.authorization # None
      inBody == "client_secret" \in DOMAIN opts.body
      secret == IF auth = None \/ auth.secret = None THEN "" ELSE auth.secret
  IN  IF auth = None THEN ~inHeader /\ ~inBody
      ELSE /\ inHeader # inBody
           /\ inHeader => opts.authorization = [scheme |-> "Basic", id |-> auth.id,
                                                secret |-> secret]
           /\ inBody => /\ opts.body["client_id"] = auth.id
                        /\ opts.body["client_secret"] = secret

-----------------------------------------------------------------------------
(* Errors.  A response is [status, error], where error is what data.error  *)
(* is: a string ("text"), an object without or with a list of errors       *)
(* ("object", "list"), not there ("none": data is text or empty), or not   *)
(* to be asked for ("null": data is null).  An error has the response, if  *)
(* there is one, a code and a message.                                     *)

NetworkError == [response |-> None, code |-> "network", message |-> "network"]
StatusError(response) == [response |-> response, code |-> "status", message |-> "status"]

(* processError: the message and the code are those of the body.           *)
processError(e) ==
  IF e.response = None THEN e
  ELSE IF e.response.error \notin {"none", "null"} /\ e.response.status # 200
       THEN [response |-> e.response, message |-> "body",
             code |-> IF e.response.error = "text" THEN "status" ELSE "body"]
       ELSE IF e.response.status >= 400
            THEN [response |-> e.response, message |-> "data", code |-> "status"]
            ELSE e

(* Variant: the new Error has only the code of the original one.           *)
ErrorWithoutResponse(e) == [e EXCEPT !.message = "oauth", !.response = None]

TypeError == [response |-> None, code |-> None, message |-> "type"]

(* The properties of the original error are copied, all but its message.   *)
(* Of null there is no error to read.                                      *)
getErrorFromOAuthErrorResponse(e) ==
  IF e.response.error = "null" THEN TypeError ELSE [e EXCEPT !.message = "oauth"]
=============================================================================
