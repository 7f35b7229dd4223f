-------------------------- MODULE AwsRequestSigner --------------------------
(***************************************************************************)
(* AwsRequestSigner (src/auth/awsrequestsigner.ts), which signs a request  *)
(* to an AWS API with the Signature Version 4 algorithm, and what AWS      *)
(* checks of the request it receives.                                      *)
(*                                                                         *)
(* A header is named by a key, which JavaScript tells apart by its case    *)
(* and AWS does not.  A hash or an HMAC is the record of what goes into    *)
(* it: two are equal only if their inputs are.                             *)
(***************************************************************************)
EXTENDS Integers

CONSTANTS DayLength,  \* how many values of the clock make a day
          None        \* an absent value

(* A key in lower case, and one in mixed case, such as "Authorization".    *)
Lower(name) == [name |-> name, lower |-> TRUE]
Mixed(name) == [name |-> name, lower |-> FALSE]

(* Object.assign, for objects that are maps from keys to values.           *)
Assign(target, source) ==
  [k \in DOMAIN target \union DOMAIN source |->
     IF k \in DOMAIN source THEN source[k] ELSE target[k]]

Empty == [k \in {} |-> None]
Only(key, value) == [k \in {key} |-> value]

(* The headers with their keys in lower case.                              *)
reformatted(headers) ==
  [k \in {Lower(h.name) : h \in DOMAIN headers} |->
     headers[CHOOSE h \in DOMAIN headers : h.name = k.name]]

Day(time) == time \div DayLength

(* The session token is sent, and signed, if the credentials have one.     *)
TokenHeader(credentials) ==
  IF credentials.token = None THEN Empty
  ELSE Only(Lower("x-amz-security-token"), credentials.token)

-----------------------------------------------------------------------------
(* The signature.                                                          *)

getSigningKey(secret, day, region, service) ==
  [secret |-> secret, day |-> day, region |-> region, service |-> service]

(* The canonical request: the names of the signed headers go into it, and  *)
(* their values.                                                           *)
canonicalRequest(request, signed) ==
  [method |-> request.method, url |-> request.url, headers |-> signed,
   payload |-> request.payload]

sign(key, time, canonical) == [key |-> key, time |-> time, canonical |-> canonical]

(* The date header of the caller takes the place of x-amz-date.            *)
DateHeader(additional, time) ==
  IF Lower("date") \in DOMAIN additional THEN Empty
  ELSE Only(Lower("x-amz-date"), time)

SignedHeaders(request, credentials, time) ==
  LET additional == Assign(reformatted(request.headers), TokenHeader(credentials))
  IN  Assign(Assign(Only(Lower("host"), request.url.host), DateHeader(additional, time)),
             additional)

(* One reading of the clock dates the header, the scope and the string to  *)
(* sign.                                                                   *)
generateAuthenticationHeaderMap(request, region, credentials, time) ==
  LET signed == SignedHeaders(request, credentials, time)
      service == request.url.host.service
      key == getSigningKey(credentials.secretAccessKey, Day(time), region, service)
  IN [accessKeyId |-> credentials.accessKeyId,
      day |-> Day(time), region |-> region, service |-> service,
      signedHeaders |-> DOMAIN signed,
      signature |-> sign(key, time, canonicalRequest(request, signed))]

(* The request as it is sent: the caller's headers keep their spelling.    *)
SentHeaders(request, credentials, time, authorization) ==
  Assign(
    Assign(
      Assign(Assign(DateHeader(reformatted(request.headers), time),
                    Only(Mixed("authorization"), authorization)),
             Only(Lower("host"), request.url.host)),
      request.headers),
    TokenHeader(credentials))

(* What getRequestOptions takes from its argument: a body comes before     *)
(* data, which is serialized, and the method is GET unless it is given.    *)
Options(amzOptions) ==
  [url |-> amzOptions.url,
   method |-> IF amzOptions.method = None THEN "GET" ELSE amzOptions.method,
   payload |-> IF amzOptions.body = None THEN amzOptions.data ELSE amzOptions.body,
   headers |-> amzOptions.headers]

getRequestOptions(amzOptions, region, credentials, time) ==
  LET request == Options(amzOptions)
      authorization ==
        generateAuthenticationHeaderMap(request, region, credentials, time)
  IN [request EXCEPT !.headers = SentHeaders(request, credentials, time, authorization)]

-----------------------------------------------------------------------------
(* AWS, which reads header names in any case.                              *)

Named(headers, name) == {k \in DOMAIN headers : k.name = name}
Values(headers, name) == {headers[k] : k \in Named(headers, name)}

(* The headers that the names in the signature stand for.                  *)
Covered(headers, names) ==
  [n \in names |-> headers[CHOOSE k \in Named(headers, n.name) : TRUE]]

(* The time of the request is its x-amz-date or else its date.             *)
RequestTime(headers) ==
  IF Named(headers, "x-amz-date") # {}
  THEN headers[CHOOSE k \in Named(headers, "x-amz-date") : TRUE]
  ELSE headers[CHOOSE k \in Named(headers, "date") : TRUE]

(* AWS accepts a request that names one of the keys it has issued, with    *)
(* the session token of that key, and whose signature it can compute from  *)
(* what it received: every signed header arrives once, the host is among   *)
(* them, and the scope is of the day and the place of the request.         *)
Accepts(issued, request) ==
  \E c \in issued : \E a \in Values(request.headers, "authorization") :
    /\ a.accessKeyId = c.accessKeyId
    /\ Values(request.headers, "x-amz-security-token") = {c.token} \ {None}
    /\ \A n \in a.signedHeaders : \E k \in DOMAIN request.headers :
         Named(request.headers, n.name) = {k}
    /\ Lower("host") \in a.signedHeaders
    /\ Values(request.headers, "host") = {request.url.host}
    /\ a.service = request.url.host.service
    /\ a.region = request.url.host.region
    /\ a.day = Day(RequestTime(request.headers))
    /\ a.signature =
         sign(getSigningKey(c.secretAccessKey, a.day, a.region, a.service),
              RequestTime(request.headers),
              canonicalRequest(request, Covered(request.headers, a.signedHeaders)))
=============================================================================
