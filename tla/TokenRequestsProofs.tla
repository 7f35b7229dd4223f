------------------------ MODULE TokenRequestsProofs ------------------------
(***************************************************************************)
(* Theorems about AwsRequestSigner, OAuthRequests and TokenRequests.       *)
(***************************************************************************)
EXTENDS TokenRequests, TLAPS

-----------------------------------------------------------------------------
(* The signature.                                                          *)

Protected == {"host", "authorization", "x-amz-date", "x-amz-security-token"}

(* Headers a caller may give: each in one spelling, none that the signer   *)
(* sets itself, and a date only if it is the time of signing.              *)
Additional(headers, time) ==
  /\ \A h, k \in DOMAIN headers : h.name = k.name => h = k
  /\ \A h \in DOMAIN headers : h.name \notin Protected
  /\ \A h \in DOMAIN headers : h.name = "date" => headers[h] = time

(* Headers that are added after the request was signed: no name is one of  *)
(* the request's.                                                          *)
Extra(extra, headers) ==
  \A e \in DOMAIN extra : /\ e.name \notin Protected
                          /\ \A h \in DOMAIN headers : h.name # e.name

LEMMA LowerName == \A n : Lower(n).name = n /\ Mixed(n).name = n
BY DEF Lower, Mixed

LEMMA ReformattedFacts ==
  ASSUME NEW headers, NEW time, Additional(headers, time)
  PROVE  /\ DOMAIN reformatted(headers) = {Lower(h.name) : h \in DOMAIN headers}
         /\ \A h \in DOMAIN headers : reformatted(headers)[Lower(h.name)] = headers[h]
<1>1. DOMAIN reformatted(headers) = {Lower(h.name) : h \in DOMAIN headers}
  BY DEF reformatted
<1>2. ASSUME NEW h \in DOMAIN headers
      PROVE  reformatted(headers)[Lower(h.name)] = headers[h]
  <2>1. \A g \in DOMAIN headers : g.name = Lower(h.name).name <=> g = h
    BY LowerName DEF Additional
  <2>2. (CHOOSE g \in DOMAIN headers : g.name = Lower(h.name).name) = h
    BY <2>1
  <2>3. Lower(h.name) \in {Lower(g.name) : g \in DOMAIN headers}
    OBVIOUS
  <2> QED BY <2>2, <2>3 DEF reformatted
<1> QED BY <1>1, <1>2

LEMMA DatedIff ==
  ASSUME NEW headers, NEW time, Additional(headers, time)
  PROVE  Lower("date") \in DOMAIN reformatted(headers)
         <=> \E h \in DOMAIN headers : h.name = "date"
<1>1. \A h \in DOMAIN headers : Lower("date") = Lower(h.name) <=> h.name = "date"
  BY LowerName
<1>2. DOMAIN reformatted(headers) = {Lower(h.name) : h \in DOMAIN headers}
  BY ReformattedFacts
<1> QED BY <1>1, <1>2

(* Every header that is signed is sent, with the value that was signed.    *)
LEMMA SignedAreSent ==
  ASSUME NEW plain, NEW credentials, NEW time, NEW authorization,
         Additional(plain.headers, time)
  PROVE  \A n \in DOMAIN SignedHeaders(plain, credentials, time) :
           \E k \in DOMAIN SentHeaders(plain, credentials, time, authorization) :
             /\ k.name = n.name
             /\ SentHeaders(plain, credentials, time, authorization)[k]
                  = SignedHeaders(plain, credentials, time)[n]
<1> DEFINE H == plain.headers
           R == reformatted(H)
           T == TokenHeader(credentials)
           A == Assign(R, T)
           D == DateHeader(R, time)
<1>0. DateHeader(A, time) = D
  <2>1. Lower("date") \notin DOMAIN T
    BY LowerName DEF TokenHeader, Only, Empty
  <2>2. Lower("date") \in DOMAIN A <=> Lower("date") \in DOMAIN R
    BY <2>1 DEF Assign
  <2> QED BY <2>2 DEF DateHeader
<1>1. /\ DOMAIN T \subseteq {Lower("x-amz-security-token")}
      /\ DOMAIN D \subseteq {Lower("x-amz-date")}
  BY DEF TokenHeader, DateHeader, Only, Empty
<1>2. DOMAIN Only(Lower("host"), plain.url.host) = {Lower("host")}
      /\ Only(Lower("host"), plain.url.host)[Lower("host")] = plain.url.host
  BY DEF Only
<1>3. DOMAIN Only(Mixed("authorization"), authorization) = {Mixed("authorization")}
  BY DEF Only
<1> DEFINE G == SignedHeaders(plain, credentials, time)
           O == Only(Lower("host"), plain.url.host)
           Z == Only(Mixed("authorization"), authorization)
           S == SentHeaders(plain, credentials, time, authorization)
<1>4. G = Assign(Assign(O, D), A)
  BY <1>0 DEF SignedHeaders
<1>5. S = Assign(Assign(Assign(Assign(D, Z), O), H), T)
  BY DEF SentHeaders
<1> HIDE DEF T, D, O, Z, G, S
<1>6. /\ DOMAIN G = DOMAIN O \union DOMAIN D \union DOMAIN R \union DOMAIN T
      /\ \A n \in DOMAIN T : G[n] = T[n]
      /\ \A n \in DOMAIN R \ DOMAIN T : G[n] = R[n]
      /\ \A n \in DOMAIN D \ (DOMAIN R \union DOMAIN T) : G[n] = D[n]
      /\ \A n \in DOMAIN O \ (DOMAIN D \union DOMAIN R \union DOMAIN T) : G[n] = O[n]
  BY <1>4 DEF Assign
<1>7. /\ DOMAIN S = DOMAIN D \union DOMAIN Z \union DOMAIN O \union DOMAIN H \union DOMAIN T
      /\ \A k \in DOMAIN T : S[k] = T[k]
      /\ \A k \in DOMAIN H \ DOMAIN T : S[k] = H[k]
      /\ \A k \in DOMAIN O \ (DOMAIN H \union DOMAIN T) : S[k] = O[k]
      /\ \A k \in DOMAIN D \ (DOMAIN Z \union DOMAIN O \union DOMAIN H \union DOMAIN T) :
           S[k] = D[k]
  BY <1>5 DEF Assign
<1>8. \A h \in DOMAIN H : h \notin DOMAIN T \union DOMAIN O \union DOMAIN D \union DOMAIN Z
                          /\ Lower(h.name) \notin DOMAIN T
  BY <1>1, <1>2, <1>3, LowerName DEF Additional, Protected, T, D, O, Z
<1>9. /\ DOMAIN R = {Lower(h.name) : h \in DOMAIN H}
      /\ \A h \in DOMAIN H : R[Lower(h.name)] = H[h]
  BY ReformattedFacts
<1>10. DOMAIN T \intersect (DOMAIN O \union DOMAIN D) = {}
       /\ DOMAIN D \intersect (DOMAIN O \union DOMAIN Z \union DOMAIN R) = {}
       /\ DOMAIN O \intersect DOMAIN R = {}
  <2>1. \A n \in DOMAIN R : n.name \notin Protected
    BY <1>9, LowerName DEF Additional
  <2> QED BY <1>1, <1>2, <1>3, <2>1, LowerName DEF Protected, T, D, O, Z
<1> SUFFICES ASSUME NEW n \in DOMAIN G
             PROVE  \E k \in DOMAIN S : k.name = n.name /\ S[k] = G[n]
  BY DEF G, S
<1>11. CASE n \in DOMAIN T
  BY <1>6, <1>7, <1>11
<1>12. CASE n \in DOMAIN R
  <2>1. PICK h \in DOMAIN H : n = Lower(h.name)
    BY <1>9, <1>12
  <2>2. G[n] = H[h] /\ S[h] = H[h] /\ n.name = h.name /\ h \in DOMAIN S
    BY <2>1, <1>6, <1>7, <1>8, <1>9, <1>12, LowerName
  <2> QED BY <2>2
<1>13. CASE n \in DOMAIN D
  BY <1>6, <1>7, <1>8, <1>10, <1>13
<1>14. CASE n \in DOMAIN O
  BY <1>6, <1>7, <1>8, <1>10, <1>14
<1> QED BY <1>6, <1>11, <1>12, <1>13, <1>14

(* What is sent: each name in one spelling, and the values of the headers  *)
(* that the signer sets.                                                   *)
LEMMA SentFacts ==
  ASSUME NEW plain, NEW credentials, NEW time, NEW authorization,
         Additional(plain.headers, time)
  PROVE  LET S == SentHeaders(plain, credentials, time, authorization)
         IN /\ \A k, l \in DOMAIN S : k.name = l.name => k = l
            /\ \A k \in DOMAIN S : k.name \in Protected \/ k \in DOMAIN plain.headers
            /\ Mixed("authorization") \in DOMAIN S
            /\ S[Mixed("authorization")] = authorization
            /\ Lower("host") \in DOMAIN S
            /\ S[Lower("host")] = plain.url.host
            /\ IF credentials.token = None
               THEN Named(S, "x-amz-security-token") = {}
               ELSE /\ Lower("x-amz-security-token") \in DOMAIN S
                    /\ S[Lower("x-amz-security-token")] = credentials.token
            /\ IF \E h \in DOMAIN plain.headers : h.name = "date"
               THEN /\ Named(S, "x-amz-date") = {}
                    /\ \E k \in DOMAIN S : k.name = "date" /\ S[k] = time
               ELSE Lower("x-amz-date") \in DOMAIN S /\ S[Lower("x-amz-date")] = time
<1> DEFINE H == plain.headers
           D == DateHeader(reformatted(H), time)
           T == TokenHeader(credentials)
           O == Only(Lower("host"), plain.url.host)
           Z == Only(Mixed("authorization"), authorization)
           S == SentHeaders(plain, credentials, time, authorization)
<1>1. S = Assign(Assign(Assign(Assign(D, Z), O), H), T)
  BY DEF SentHeaders
<1>2. /\ DOMAIN Z = {Mixed("authorization")} /\ Z[Mixed("authorization")] = authorization
      /\ DOMAIN O = {Lower("host")} /\ O[Lower("host")] = plain.url.host
  BY DEF Only
<1>3. IF credentials.token = None THEN DOMAIN T = {}
      ELSE /\ DOMAIN T = {Lower("x-amz-security-token")}
           /\ T[Lower("x-amz-security-token")] = credentials.token
  BY DEF TokenHeader, Only, Empty
<1>4. IF \E h \in DOMAIN H : h.name = "date" THEN DOMAIN D = {}
      ELSE DOMAIN D = {Lower("x-amz-date")} /\ D[Lower("x-amz-date")] = time
  BY DatedIff DEF DateHeader, Only, Empty
<1> HIDE DEF D, T, O, Z, S
<1>5. /\ DOMAIN S = DOMAIN D \union DOMAIN Z \union DOMAIN O \union DOMAIN H \union DOMAIN T
      /\ \A k \in DOMAIN T : S[k] = T[k]
      /\ \A k \in DOMAIN H \ DOMAIN T : S[k] = H[k]
      /\ \A k \in DOMAIN O \ (DOMAIN H \union DOMAIN T) : S[k] = O[k]
      /\ \A k \in DOMAIN Z \ (DOMAIN O \union DOMAIN H \union DOMAIN T) : S[k] = Z[k]
      /\ \A k \in DOMAIN D \ (DOMAIN Z \union DOMAIN O \union DOMAIN H \union DOMAIN T) :
           S[k] = D[k]
  BY <1>1 DEF Assign
<1> DEFINE Own == DOMAIN D \union DOMAIN Z \union DOMAIN O \union DOMAIN T
<1>6. /\ Own \subseteq {Lower("x-amz-date"), Mixed("authorization"), Lower("host"),
                       Lower("x-amz-security-token")}
      /\ \A k \in Own : k.name \in Protected
      /\ \A k, l \in Own : k.name = l.name => k = l
  BY <1>2, <1>3, <1>4, LowerName DEF Protected
<1>7. \A h \in DOMAIN H : h \notin Own /\ h.name \notin Protected
  BY <1>6 DEF Additional
<1>8. \A k, l \in DOMAIN S : k.name = l.name => k = l
  <2>1. DOMAIN S = Own \union DOMAIN H
    BY <1>5
  <2>2. \A h, k \in DOMAIN H : h.name = k.name => h = k
    BY DEF Additional
  <2> QED BY <2>1, <2>2, <1>6, <1>7
<1>9. \A k \in DOMAIN S : k.name \in Protected \/ k \in DOMAIN H
  BY <1>5, <1>6
<1>10. /\ Mixed("authorization") \in DOMAIN S /\ S[Mixed("authorization")] = authorization
       /\ Lower("host") \in DOMAIN S /\ S[Lower("host")] = plain.url.host
  <2>1. Mixed("authorization") \notin DOMAIN O \union DOMAIN T
        /\ Lower("host") \notin DOMAIN T
    BY <1>2, <1>3, LowerName
  <2> QED BY <2>1, <1>2, <1>5, <1>7
<1>11. IF credentials.token = None THEN Named(S, "x-amz-security-token") = {}
       ELSE /\ Lower("x-amz-security-token") \in DOMAIN S
            /\ S[Lower("x-amz-security-token")] = credentials.token
  <2>1. CASE credentials.token = None
    BY <2>1, <1>2, <1>3, <1>4, <1>5, <1>7, LowerName DEF Named, Protected
  <2>2. CASE credentials.token # None
    BY <2>2, <1>3, <1>5
  <2> QED BY <2>1, <2>2
<1>12. IF \E h \in DOMAIN H : h.name = "date"
       THEN /\ Named(S, "x-amz-date") = {}
            /\ \E k \in DOMAIN S : k.name = "date" /\ S[k] = time
       ELSE Lower("x-amz-date") \in DOMAIN S /\ S[Lower("x-amz-date")] = time
  <2>1. ASSUME NEW h \in DOMAIN H, h.name = "date"
        PROVE  /\ Named(S, "x-amz-date") = {}
               /\ \E k \in DOMAIN S : k.name = "date" /\ S[k] = time
    <3>1. DOMAIN D = {}
      BY <2>1, <1>4
    <3>2. Named(S, "x-amz-date") = {}
      BY <3>1, <1>2, <1>3, <1>5, <1>7, LowerName DEF Named, Protected
    <3>3. S[h] = time /\ h \in DOMAIN S
      BY <2>1, <1>5, <1>7 DEF Additional
    <3> QED BY <3>2, <3>3, <2>1
  <2>2. ASSUME ~ \E h \in DOMAIN H : h.name = "date"
        PROVE  Lower("x-amz-date") \in DOMAIN S /\ S[Lower("x-amz-date")] = time
    <3>1. Lower("x-amz-date") \notin DOMAIN Z \union DOMAIN O \union DOMAIN T
      BY <1>2, <1>3, LowerName
    <3>2. Lower("x-amz-date") \in Own
      BY <2>2, <1>4
    <3> QED BY <3>1, <3>2, <2>2, <1>4, <1>5, <1>7
  <2> QED BY <2>1, <2>2
<1> QED BY <1>8, <1>9, <1>10, <1>11, <1>12 DEF S

(* AwsRequestSigner.getRequestOptions: AWS accepts whatever it signs, for  *)
(* any method, body, region, credentials that AWS has issued and time of   *)
(* signing, with any headers a caller may give, and whatever other headers *)
(* are added to the signed request afterwards.                             *)
THEOREM SignedRequestsAreAccepted ==
  ASSUME NEW amzOptions, NEW credentials, NEW time, NEW extra, NEW issued,
         credentials \in issued,
         Additional(amzOptions.headers, time),
         Extra(extra, amzOptions.headers)
  PROVE  Accepts(issued,
           [getRequestOptions(amzOptions, amzOptions.url.host.region, credentials, time)
              EXCEPT !.headers = Assign(extra, @)])
<1> DEFINE req == Options(amzOptions)
           region == amzOptions.url.host.region
           a == generateAuthenticationHeaderMap(req, region, credentials, time)
           S == SentHeaders(req, credentials, time, a)
           G == SignedHeaders(req, credentials, time)
           E == Assign(extra, S)
           sent == [getRequestOptions(amzOptions, region, credentials, time)
                      EXCEPT !.headers = Assign(extra, @)]
<1>1. /\ req.headers = amzOptions.headers /\ req.url = amzOptions.url
      /\ req = [url |-> req.url, method |-> req.method,
                    payload |-> req.payload, headers |-> req.headers]
  BY DEF Options
<1>2. sent = [url |-> req.url, method |-> req.method,
              payload |-> req.payload, headers |-> E]
  <2>1. getRequestOptions(amzOptions, region, credentials, time)
          = [req EXCEPT !.headers = S]
    BY DEF getRequestOptions
  <2>2. [req EXCEPT !.headers = S]
          = [url |-> req.url, method |-> req.method, payload |-> req.payload, headers |-> S]
    BY DEF Options
  <2> HIDE DEF req, S, E
  <2>3. sent = [[url |-> req.url, method |-> req.method, payload |-> req.payload,
                 headers |-> S] EXCEPT !.headers = Assign(extra, S)]
    BY <2>1, <2>2
  <2> QED BY <2>3 DEF E
<1>3. /\ a.accessKeyId = credentials.accessKeyId
      /\ a.day = Day(time) /\ a.region = region /\ a.service = req.url.host.service
      /\ a.signedHeaders = DOMAIN G
      /\ a.signature = sign(getSigningKey(credentials.secretAccessKey, Day(time), region,
                                          req.url.host.service),
                            time, canonicalRequest(req, G))
  BY DEF generateAuthenticationHeaderMap
<1> HIDE DEF req, a, S, G, sent
<1>4. /\ \A k, l \in DOMAIN S : k.name = l.name => k = l
      /\ \A k \in DOMAIN S : k.name \in Protected \/ k \in DOMAIN req.headers
      /\ Mixed("authorization") \in DOMAIN S /\ S[Mixed("authorization")] = a
      /\ Lower("host") \in DOMAIN S /\ S[Lower("host")] = req.url.host
      /\ IF credentials.token = None
         THEN Named(S, "x-amz-security-token") = {}
         ELSE /\ Lower("x-amz-security-token") \in DOMAIN S
              /\ S[Lower("x-amz-security-token")] = credentials.token
      /\ IF \E h \in DOMAIN req.headers : h.name = "date"
         THEN /\ Named(S, "x-amz-date") = {}
              /\ \E k \in DOMAIN S : k.name = "date" /\ S[k] = time
         ELSE Lower("x-amz-date") \in DOMAIN S /\ S[Lower("x-amz-date")] = time
  BY <1>1, SentFacts DEF S
<1>5. \A n \in DOMAIN G : \E k \in DOMAIN S : k.name = n.name /\ S[k] = G[n]
  BY <1>1, SignedAreSent DEF S, G
<1>6. /\ DOMAIN E = DOMAIN extra \union DOMAIN S
      /\ \A k \in DOMAIN S : E[k] = S[k]
  BY DEF Assign
<1> HIDE DEF E
<1>7. \A k \in DOMAIN E, l \in DOMAIN S : k.name = l.name => k = l
  BY <1>1, <1>4, <1>6 DEF Extra
<1>8. \A l \in DOMAIN S : Named(E, l.name) = {l}
  BY <1>6, <1>7 DEF Named
<1>9. \A n \in DOMAIN G : \E k \in DOMAIN E : Named(E, n.name) = {k} /\ E[k] = G[n]
  <2> SUFFICES ASSUME NEW n \in DOMAIN G
               PROVE  \E k \in DOMAIN E : Named(E, n.name) = {k} /\ E[k] = G[n]
    OBVIOUS
  <2>1. PICK k \in DOMAIN S : k.name = n.name /\ S[k] = G[n]
    BY <1>5
  <2> QED BY <2>1, <1>6, <1>8
<1>10. Covered(E, DOMAIN G) = G
  <2>1. \A n \in DOMAIN G : E[CHOOSE k \in Named(E, n.name) : TRUE] = G[n]
    BY <1>9
  <2>2. G = [n \in DOMAIN G |-> G[n]]
    BY DEF G, SignedHeaders, Assign
  <2> QED BY <2>1, <2>2 DEF Covered
<1>11. /\ Values(E, "authorization") = {a}
       /\ Values(E, "host") = {req.url.host}
       /\ Values(E, "x-amz-security-token") = {credentials.token} \ {None}
  <2>1. Named(E, "authorization") = {Mixed("authorization")} /\ Named(E, "host") = {Lower("host")}
    BY <1>4, <1>8, LowerName
  <2>2. /\ Values(E, "authorization") = {a}
        /\ Values(E, "host") = {req.url.host}
    BY <2>1, <1>4, <1>6 DEF Values
  <2>3. CASE credentials.token = None
    <3>1. Named(E, "x-amz-security-token") = {}
      BY <2>3, <1>4, <1>6 DEF Named, Extra, Protected
    <3> QED BY <3>1, <2>2, <2>3 DEF Values
  <2>4. CASE credentials.token # None
    <3>1. Named(E, "x-amz-security-token") = {Lower("x-amz-security-token")}
      BY <2>4, <1>4, <1>8, LowerName
    <3>2. Values(E, "x-amz-security-token") = {credentials.token}
      BY <3>1, <2>4, <1>4, <1>6 DEF Values
    <3>3. {credentials.token} \ {None} = {credentials.token}
      BY <2>4
    <3> QED BY <3>2, <3>3, <2>2
  <2> QED BY <2>3, <2>4
<1>12. RequestTime(E) = time
  <2>1. CASE \E h \in DOMAIN req.headers : h.name = "date"
    <3>1. Named(E, "x-amz-date") = {}
      BY <2>1, <1>4, <1>6 DEF Named, Extra, Protected
    <3>2. PICK k \in DOMAIN S : k.name = "date" /\ S[k] = time
      BY <2>1, <1>4
    <3>3. Named(E, "date") = {k}
      BY <3>2, <1>8
    <3> QED BY <3>1, <3>2, <3>3, <1>6 DEF RequestTime
  <2>2. CASE ~ \E h \in DOMAIN req.headers : h.name = "date"
    <3>1. Named(E, "x-amz-date") = {Lower("x-amz-date")}
      BY <2>2, <1>4, <1>8, LowerName
    <3> QED BY <3>1, <2>2, <1>4, <1>6 DEF RequestTime
  <2> QED BY <2>1, <2>2
<1>13. Lower("host") \in DOMAIN G
  BY DEF G, SignedHeaders, Assign, Only
<1>14. canonicalRequest(sent, Covered(E, DOMAIN G)) = canonicalRequest(req, G)
  BY <1>2, <1>10 DEF canonicalRequest
<1>15. /\ sent.headers = E /\ sent.url = req.url
       /\ \A n \in a.signedHeaders : \E k \in DOMAIN E : Named(E, n.name) = {k}
       /\ region = sent.url.host.region
  BY <1>1, <1>2, <1>3, <1>9
<1>16. Accepts(issued, sent)
  <2>1. a \in Values(sent.headers, "authorization")
    BY <1>11, <1>15
  <2>2. /\ a.accessKeyId = credentials.accessKeyId
        /\ Values(sent.headers, "x-amz-security-token") = {credentials.token} \ {None}
        /\ \A n \in a.signedHeaders : \E k \in DOMAIN sent.headers :
             Named(sent.headers, n.name) = {k}
        /\ Lower("host") \in a.signedHeaders
        /\ Values(sent.headers, "host") = {sent.url.host}
        /\ a.service = sent.url.host.service
        /\ a.region = sent.url.host.region
        /\ a.day = Day(RequestTime(sent.headers))
    BY <1>3, <1>11, <1>12, <1>13, <1>15
  <2>3. a.signature =
          sign(getSigningKey(credentials.secretAccessKey, a.day, a.region, a.service),
               RequestTime(sent.headers),
               canonicalRequest(sent, Covered(sent.headers, a.signedHeaders)))
    BY <1>3, <1>12, <1>14, <1>15
  <2> QED BY <2>1, <2>2, <2>3 DEF Accepts
<1> QED BY <1>16 DEF sent

-----------------------------------------------------------------------------
(* The state machine.  The domains of its functions, which every step      *)
(* keeps; the order of the conjuncts is that of VARIABLES.                 *)

Labels == {"idle", "role", "keys", "digest", "sts", "verifier", "consent", "redeem",
           "sent", "done", "failed", "rejected"}

Shape ==
  /\ setup \in Setups
  /\ now \in Nat /\ role \in Role /\ keys \in Nat
  /\ pc \in [Call -> Labels]
  /\ DOMAIN asked = Call /\ DOMAIN signing = Call
  /\ DOMAIN urlOpts = Object /\ DOMAIN code = Call
  /\ DOMAIN options = Object /\ DOMAIN sends = Call
  /\ DOMAIN posted = Call /\ DOMAIN answered = Call /\ DOMAIN thrown = Call

LEMMA ShapeInit == Init => Shape
BY DEF Init, Shape, Labels

LEMMA ShapeNext == Shape /\ [Next]_vars => Shape'
<1> SUFFICES ASSUME Shape, [Next]_vars
             PROVE  Shape'
  OBVIOUS
<1> USE DEF Shape, Labels, Object, Goto, Post
<1>1. ASSUME NEW c \in Call, retrieveSubjectToken(c)
      PROVE  Shape'
  BY <1>1 DEF retrieveSubjectToken, StartSigning, consentVars, requestVars, sentVars
<1>2. ASSUME NEW c \in Call, getAwsRoleName(c)
      PROVE  Shape'
  BY <1>2 DEF getAwsRoleName, consentVars, requestVars, sentVars
<1>3. ASSUME NEW c \in Call, getAwsSecurityCredentials(c)
      PROVE  Shape'
  BY <1>3 DEF getAwsSecurityCredentials, StartSigning, consentVars, requestVars, sentVars
<1>4. ASSUME NEW c \in Call, exchangeToken(c)
      PROVE  Shape'
  BY <1>4 DEF exchangeToken, awsVars, consentVars, requestVars
<1>5. ASSUME NEW c \in Call, generateCodeVerifierAsync(c)
      PROVE  Shape'
  BY <1>5 DEF generateCodeVerifierAsync, awsVars, consentVars, requestVars, sentVars
<1>6. ASSUME NEW c \in Call, generateAuthUrl(c)
      PROVE  Shape'
  BY <1>6 DEF generateAuthUrl, awsVars, requestVars, sentVars
<1>7. ASSUME NEW c \in Call, getTokenAsync(c)
      PROVE  Shape'
  BY <1>7 DEF getTokenAsync, awsVars, consentVars, requestVars
<1>8. ASSUME NEW c \in Call, request(c)
      PROVE  Shape'
  BY <1>8 DEF request, awsVars, consentVars
<1>9. ASSUME NEW o \in Object, SetHeaders(o)
      PROVE  Shape'
  BY <1>9 DEF SetHeaders, awsVars, consentVars, sentVars
<1>10. ASSUME NEW c \in Call, Granted(c)
       PROVE  Shape'
  <2>1. \E label \in {"idle", "done"} : pc' = [pc EXCEPT ![c] = label]
    BY <1>10 DEF Granted
  <2> QED BY <2>1, <1>10 DEF Granted, awsVars, consentVars, requestVars, sentVars
<1>11. ASSUME NEW c \in Call, Refused(c)
       PROVE  Shape'
  <2>1. PICK response, t : /\ answered' = [answered EXCEPT ![c] = response]
                           /\ thrown' = [thrown EXCEPT ![c] = t]
                           /\ Goto(c, "failed")
                           /\ UNCHANGED <<setup, now, role, keys, asked, signing, urlOpts,
                                          code, options, sends, posted>>
    BY <1>11 DEF Refused, awsVars, consentVars, requestVars
  <2> QED BY <2>1
<1>12. ASSUME Tick
       PROVE  Shape'
  BY <1>12 DEF Tick, awsVars, consentVars, requestVars, sentVars
<1>13. ASSUME NewKeys
       PROVE  Shape'
  BY <1>13 DEF NewKeys, consentVars, requestVars, sentVars
<1>14. ASSUME UNCHANGED vars
       PROVE  Shape'
  BY <1>14 DEF vars, awsVars, consentVars, requestVars, sentVars
<1> QED BY <1>1, <1>2, <1>3, <1>4, <1>5, <1>6, <1>7, <1>8, <1>9, <1>10, <1>11,
           <1>12, <1>13, <1>14 DEF Next

-----------------------------------------------------------------------------
(* A step changes the state of one call only.                              *)

Unmoved(d) ==
  UNCHANGED <<pc[d], asked[d], signing[d], code[d], sends[d],
              posted[d], answered[d], thrown[d]>>

StepOf(d) ==
  \/ retrieveSubjectToken(d) \/ getAwsRoleName(d) \/ getAwsSecurityCredentials(d)
  \/ exchangeToken(d)
  \/ generateCodeVerifierAsync(d) \/ generateAuthUrl(d) \/ getTokenAsync(d)
  \/ request(d) \/ Granted(d) \/ Refused(d)

LEMMA SetupKept ==
  ASSUME [Next]_vars
  PROVE  /\ setup' = setup /\ Object' = Object
         /\ \A c, what : Does(c, what)' <=> Does(c, what)
<1>1. setup' = setup
  BY DEF Next, vars, retrieveSubjectToken, getAwsRoleName, getAwsSecurityCredentials,
         exchangeToken, generateCodeVerifierAsync, generateAuthUrl, getTokenAsync,
         request, SetHeaders, Granted, Refused, Tick, NewKeys
<1> QED BY <1>1 DEF Object, Does

LEMMA OthersUnmoved ==
  ASSUME Shape, [Next]_vars, NEW d \in Call
  PROVE  StepOf(d) \/ Unmoved(d)
<1> SUFFICES ASSUME ~StepOf(d)
             PROVE  Unmoved(d)
  OBVIOUS
<1> USE DEF Shape, Unmoved, StepOf, Goto, Post
<1>1. ASSUME NEW c \in Call, c # d, retrieveSubjectToken(c)
      PROVE  Unmoved(d)
  BY <1>1 DEF retrieveSubjectToken, StartSigning, consentVars, requestVars, sentVars
<1>2. ASSUME NEW c \in Call, c # d, getAwsRoleName(c)
      PROVE  Unmoved(d)
  BY <1>2 DEF getAwsRoleName, consentVars, requestVars, sentVars
<1>3. ASSUME NEW c \in Call, c # d, getAwsSecurityCredentials(c)
      PROVE  Unmoved(d)
  BY <1>3 DEF getAwsSecurityCredentials, StartSigning, consentVars, requestVars, sentVars
<1>4. ASSUME NEW c \in Call, c # d, exchangeToken(c)
      PROVE  Unmoved(d)
  BY <1>4 DEF exchangeToken, awsVars, consentVars, requestVars
<1>5. ASSUME NEW c \in Call, c # d, generateCodeVerifierAsync(c)
      PROVE  Unmoved(d)
  BY <1>5 DEF generateCodeVerifierAsync, awsVars, consentVars, requestVars, sentVars
<1>6. ASSUME NEW c \in Call, c # d, generateAuthUrl(c)
      PROVE  Unmoved(d)
  BY <1>6 DEF generateAuthUrl, awsVars, requestVars, sentVars
<1>7. ASSUME NEW c \in Call, c # d, getTokenAsync(c)
      PROVE  Unmoved(d)
  BY <1>7 DEF getTokenAsync, awsVars, consentVars, requestVars
<1>8. ASSUME NEW c \in Call, c # d, request(c)
      PROVE  Unmoved(d)
  BY <1>8 DEF request, awsVars, consentVars
<1>9. ASSUME NEW o \in Object, SetHeaders(o)
      PROVE  Unmoved(d)
  BY <1>9 DEF SetHeaders, awsVars, consentVars, sentVars
<1>10. ASSUME NEW c \in Call, c # d, Granted(c)
       PROVE  Unmoved(d)
  BY <1>10 DEF Granted, awsVars, consentVars, requestVars, sentVars
<1>11. ASSUME NEW c \in Call, c # d, Refused(c)
       PROVE  Unmoved(d)
  <2>1. PICK response, t : /\ answered' = [answered EXCEPT ![c] = response]
                           /\ thrown' = [thrown EXCEPT ![c] = t]
                           /\ Goto(c, "failed")
                           /\ UNCHANGED <<asked, signing, code, sends, posted>>
    BY <1>11 DEF Refused, awsVars, consentVars, requestVars
  <2> QED BY <2>1, <1>11
<1>12. ASSUME Tick
       PROVE  Unmoved(d)
  BY <1>12 DEF Tick, awsVars, consentVars, requestVars, sentVars
<1>13. ASSUME NewKeys
       PROVE  Unmoved(d)
  BY <1>13 DEF NewKeys, consentVars, requestVars, sentVars
<1>14. ASSUME UNCHANGED vars
       PROVE  Unmoved(d)
  BY <1>14 DEF vars, awsVars, consentVars, requestVars, sentVars
<1> QED BY <1>1, <1>2, <1>3, <1>4, <1>5, <1>6, <1>7, <1>8, <1>9, <1>10, <1>11,
           <1>12, <1>13, <1>14 DEF Next

-----------------------------------------------------------------------------
(* Where a call is shows which job it does.                                *)

Working ==
  \A c \in Call :
    /\ pc[c] \in {"role", "keys", "digest", "sts"} => Does(c, "exchange")
    /\ pc[c] \in {"verifier", "consent", "redeem"} => Does(c, "consent")
    /\ pc[c] = "sent" => Does(c, "request")

LEMMA WorkingInit == Init => Working
BY DEF Init, Working

LEMMA WorkingNext == Shape /\ Working /\ [Next]_vars => Working'
<1> SUFFICES ASSUME Shape, Working, [Next]_vars, NEW d \in Call
             PROVE  /\ pc'[d] \in {"role", "keys", "digest", "sts"} => Does(d, "exchange")
                    /\ pc'[d] \in {"verifier", "consent", "redeem"} => Does(d, "consent")
                    /\ pc'[d] = "sent" => Does(d, "request")
  BY SetupKept DEF Working
<1>1. CASE Unmoved(d)
  BY <1>1 DEF Unmoved, Working
<1>2. CASE StepOf(d)
  <2>1. CASE retrieveSubjectToken(d) \/ getAwsRoleName(d) \/ getAwsSecurityCredentials(d)
             \/ exchangeToken(d)
    BY <2>1 DEF retrieveSubjectToken, getAwsRoleName, getAwsSecurityCredentials,
                StartSigning, exchangeToken, Goto, Shape, Working
  <2>2. CASE generateCodeVerifierAsync(d) \/ generateAuthUrl(d) \/ getTokenAsync(d)
    BY <2>2 DEF generateCodeVerifierAsync, generateAuthUrl, getTokenAsync,
                Goto, Shape, Working
  <2>3. CASE request(d) \/ Granted(d) \/ Refused(d)
    BY <2>3 DEF request, Granted, Refused, Goto, Shape
  <2> QED BY <1>2, <2>1, <2>2, <2>3 DEF StepOf
<1> QED BY <1>1, <1>2, OthersUnmoved

-----------------------------------------------------------------------------
(* Refusals.                                                               *)

(* processError and the translation keep the response.                     *)
LEMMA ErrorsKeepResponse ==
  ASSUME NEW c \in Call, NEW response
  PROVE  LET e == IF response = None THEN NetworkError ELSE StatusError(response)
             t == Translated(c, processError(e))
         IN \/ t.response = response
            \/ response # None /\ response.error = "null" /\ pc[c] = "sts"
<1> DEFINE e == IF response = None THEN NetworkError ELSE StatusError(response)
           p == processError(e)
<1>1. PICK k, m : e = [response |-> response, code |-> k, message |-> m]
  BY DEF NetworkError, StatusError
<1> HIDE DEF e
<1>2. \E l, n : p = [response |-> response, code |-> l, message |-> n]
  BY <1>1 DEF processError
<1> HIDE DEF p
<1>3. \/ Translated(c, p).response = response
      \/ response # None /\ response.error = "null" /\ pc[c] = "sts"
  BY <1>2 DEF Translated, getErrorFromOAuthErrorResponse
<1> QED BY <1>3 DEF p, e

LEMMA RefusalsNext ==
  Shape /\ Working /\ RefusalsKeepTheirStatus /\ [Next]_vars => RefusalsKeepTheirStatus'
<1> SUFFICES ASSUME Shape, Working, RefusalsKeepTheirStatus, [Next]_vars,
                    NEW d \in Call, pc'[d] = "failed"
             PROVE  \/ thrown'[d].response = answered'[d]
                    \/ /\ answered'[d] # None /\ answered'[d].error = "null"
                       /\ Does(d, "exchange")
  BY SetupKept DEF RefusalsKeepTheirStatus
<1>1. CASE Unmoved(d)
  BY <1>1 DEF Unmoved, RefusalsKeepTheirStatus
<1>2. CASE Refused(d)
  <2>1. PICK response :
          /\ answered' = [answered EXCEPT ![d] = response]
          /\ thrown' = [thrown EXCEPT ![d] = Translated(d, processError(
               IF response = None THEN NetworkError ELSE StatusError(response)))]
    BY <1>2 DEF Refused
  <2>2. /\ answered'[d] = response
        /\ thrown'[d] = Translated(d, processError(
             IF response = None THEN NetworkError ELSE StatusError(response)))
    BY <2>1 DEF Shape
  <2> QED BY <2>2, ErrorsKeepResponse DEF Working
<1>3. CASE StepOf(d) /\ ~Refused(d)
  BY <1>3 DEF StepOf, retrieveSubjectToken, getAwsRoleName, getAwsSecurityCredentials,
              StartSigning, exchangeToken, generateCodeVerifierAsync, generateAuthUrl,
              getTokenAsync, request, Granted, Goto, Shape
<1> QED BY <1>1, <1>2, <1>3, OthersUnmoved

(* The error of a refused request tells what the server answered, for any  *)
(* number of calls and jobs, unless an STS answer is null.                 *)
THEOREM RefusalsCorrect == Spec => []RefusalsKeepTheirStatus
<1>1. Init => RefusalsKeepTheirStatus
  BY DEF Init, RefusalsKeepTheirStatus
<1> QED BY <1>1, ShapeInit, ShapeNext, WorkingInit, WorkingNext, RefusalsNext, PTL DEF Spec

-----------------------------------------------------------------------------
(* Identification.                                                         *)

Names == {Library, Node, Auth, App}
Headers == [userAgent : Seq(Names), apiClient : Seq(Names)]

AtMostOnce(products, product) ==
  \A i, j \in DOMAIN products : products[i] = product /\ products[j] = product => i = j

(* The library is not named twice, yet it need not be named.               *)
Unrepeated(headers) ==
  /\ headers \in Headers
  /\ AtMostOnce(headers.userAgent, Library) /\ AtMostOnce(headers.apiClient, Auth)

Identified(headers) ==
  /\ \E i \in DOMAIN headers.userAgent : Count(headers.userAgent, Library) = {i}
  /\ \E i \in DOMAIN headers.apiClient : Count(headers.apiClient, Auth) = {i}

LEMMA AppendOnce ==
  ASSUME NEW s \in Seq(Names), NEW p \in Names, ~Includes(s, p)
  PROVE  /\ Append(s, p) \in Seq(Names)
         /\ AtMostOnce(Append(s, p), p)
         /\ Includes(Append(s, p), p)
<1>1. /\ Append(s, p) \in Seq(Names)
      /\ Len(Append(s, p)) = Len(s) + 1
      /\ Append(s, p)[Len(s) + 1] = p
      /\ \A i \in 1..Len(s) : Append(s, p)[i] = s[i]
  OBVIOUS
<1>2. /\ DOMAIN s = 1..Len(s) /\ Len(s) \in Nat
      /\ DOMAIN Append(s, p) = 1..(Len(s) + 1)
  BY <1>1
<1>3. \A i \in 1..(Len(s) + 1) : i \in 1..Len(s) \/ i = Len(s) + 1
  BY <1>2
<1>4. \A i \in DOMAIN Append(s, p) : Append(s, p)[i] = p => i = Len(s) + 1
  BY <1>1, <1>2, <1>3 DEF Includes
<1>5. AtMostOnce(Append(s, p), p)
  BY <1>4 DEF AtMostOnce
<1>6. Includes(Append(s, p), p)
  BY <1>1, <1>2 DEF Includes
<1> QED BY <1>1, <1>5, <1>6

LEMMA OnceCounted ==
  ASSUME NEW s, NEW p, AtMostOnce(s, p), Includes(s, p)
  PROVE  \E i \in DOMAIN s : Count(s, p) = {i}
BY DEF AtMostOnce, Includes, Count

LEMMA Identifies ==
  ASSUME NEW headers, Unrepeated(headers)
  PROVE  Unrepeated(Identification(headers)) /\ Identified(Identification(headers))
<1> DEFINE u == headers.userAgent
           a == headers.apiClient
           h == Identification(headers)
<1>1. u \in Seq(Names) /\ a \in Seq(Names) /\ AtMostOnce(u, Library) /\ AtMostOnce(a, Auth)
  BY DEF Unrepeated, Headers
<1>2. /\ h.userAgent \in Seq(Names)
      /\ AtMostOnce(h.userAgent, Library) /\ Includes(h.userAgent, Library)
  <2>1. CASE Includes(u, Library)
    BY <1>1, <2>1 DEF Identification
  <2>2. CASE ~Includes(u, Library)
    <3>1. h.userAgent = Append(u, Library)
      BY <2>2 DEF Identification
    <3> QED BY <1>1, <2>2, <3>1, AppendOnce DEF Names
  <2> QED BY <2>1, <2>2
<1>3. /\ h.apiClient \in Seq(Names)
      /\ AtMostOnce(h.apiClient, Auth) /\ Includes(h.apiClient, Auth)
  <2>1. CASE a = <<>>
    <3>1. h.apiClient = <<Node, Auth>>
      BY <2>1 DEF Identification
    <3>2. <<Node, Auth>> \in Seq(Names)
      BY DEF Names
    <3>3. AtMostOnce(<<Node, Auth>>, Auth)
      BY SetupsOk DEF AtMostOnce
    <3>4. Includes(<<Node, Auth>>, Auth)
      BY DEF Includes
    <3> QED BY <3>1, <3>2, <3>3, <3>4
  <2>2. CASE a # <<>> /\ Includes(a, Auth)
    BY <1>1, <2>2 DEF Identification
  <2>3. CASE a # <<>> /\ ~Includes(a, Auth)
    <3>1. h.apiClient = Append(a, Auth)
      BY <2>3 DEF Identification
    <3> QED BY <1>1, <2>3, <3>1, AppendOnce DEF Names
  <2> QED BY <2>1, <2>2, <2>3
<1>4. h \in Headers
  BY <1>2, <1>3 DEF Identification, Headers
<1> HIDE DEF h
<1>5. Unrepeated(h) /\ Identified(h)
  BY <1>2, <1>3, <1>4, OnceCounted DEF Unrepeated, Identified
<1> QED BY <1>5 DEF h

(* DefaultTransporter.configure: options that were configured before are   *)
(* not changed by it.                                                      *)
THEOREM ConfigureIdempotent ==
  ASSUME NEW opts, "headers" \in DOMAIN opts, opts = [k \in DOMAIN opts |-> opts[k]],
         Unrepeated(opts.headers)
  PROVE  configure(configure(opts)) = configure(opts)
<1> DEFINE h == Identification(opts.headers)
<1>1. /\ configure(opts).headers = h /\ DOMAIN configure(opts) = DOMAIN opts
      /\ configure(opts) = [k \in DOMAIN opts |-> configure(opts)[k]]
  BY DEF configure
<1>2. Identification(h) = h
  <2>1. Includes(h.userAgent, Library) /\ Includes(h.apiClient, Auth) /\ h.apiClient # <<>>
    <3>1. Includes(h.userAgent, Library) /\ Includes(h.apiClient, Auth)
      BY Identifies DEF Identified, Includes, Count
    <3> QED BY <3>1 DEF Includes
  <2>2. h = [userAgent |-> h.userAgent, apiClient |-> h.apiClient]
    BY DEF Identification
  <2> HIDE DEF h
  <2>3. Identification(h) = [userAgent |-> h.userAgent, apiClient |-> h.apiClient]
    BY <2>1 DEF Identification
  <2> QED BY <2>2, <2>3
<1> HIDE DEF h
<1>3. configure(configure(opts)) = [configure(opts) EXCEPT !.headers = h]
  BY <1>1, <1>2 DEF configure
<1> QED BY <1>1, <1>3

(* What is written into options objects, by requests and by the            *)
(* application, does not repeat the library's name.                        *)
OptionsUnrepeated ==
  \A o \in Object : "headers" \in DOMAIN options[o] /\ Unrepeated(options[o].headers)

LEMMA NoRequestHeaders ==
  /\ "headers" \in DOMAIN NoRequest
  /\ Unrepeated(NoRequest.headers)
  /\ \A body : /\ "headers" \in DOMAIN [NoRequest EXCEPT !.body = body]
               /\ [NoRequest EXCEPT !.body = body].headers = NoRequest.headers
<1>1. <<>> \in Seq(Names)
  OBVIOUS
<1> QED BY <1>1 DEF NoRequest, NoHeaders, Unrepeated, Headers, AtMostOnce

LEMMA Configured ==
  ASSUME NEW opts, "headers" \in DOMAIN opts
  PROVE  /\ configure(opts).headers = Identification(opts.headers)
         /\ DOMAIN configure(opts) = DOMAIN opts
BY DEF configure

LEMMA AppsHeaders ==
  ASSUME NEW headers, Unrepeated(headers), NEW name \in {"userAgent", "apiClient"}
  PROVE  Unrepeated([headers EXCEPT ![name] = <<App>>])
<1>1. <<App>> \in Seq(Names)
  BY DEF Names
<1>2. AtMostOnce(<<App>>, Library) /\ AtMostOnce(<<App>>, Auth)
  BY DEF AtMostOnce
<1> QED BY <1>1, <1>2 DEF Unrepeated, Headers

LEMMA OptionsNext == Shape /\ OptionsUnrepeated /\ [Next]_vars => OptionsUnrepeated'
<1> SUFFICES ASSUME Shape, OptionsUnrepeated, [Next]_vars, NEW o \in Object
             PROVE  "headers" \in DOMAIN options'[o] /\ Unrepeated(options'[o].headers)
  BY SetupKept DEF OptionsUnrepeated
<1>1. CASE options' = options
  BY <1>1 DEF OptionsUnrepeated
<1>2. ASSUME NEW c \in Call, request(c)
      PROVE  "headers" \in DOMAIN options'[o] /\ Unrepeated(options'[o].headers)
  <2> DEFINE p == setup.jobs[c].object
             opts == [options[p] EXCEPT !.given = setup.jobs[c].given]
  <2>1. options' = [options EXCEPT ![p] = configure(opts)] /\ p \in Object
    BY <1>2 DEF request, Object
  <2>2. "headers" \in DOMAIN opts /\ opts.headers = options[p].headers
    BY <2>1 DEF OptionsUnrepeated
  <2> HIDE DEF opts, p
  <2>3. CASE o = p
    <3>1. options'[o] = configure(opts) /\ Unrepeated(opts.headers)
      BY <2>1, <2>2, <2>3 DEF Shape, OptionsUnrepeated
    <3> QED BY <3>1, <2>2, Configured, Identifies
  <2>4. CASE o # p
    BY <2>1, <2>4 DEF Shape, OptionsUnrepeated
  <2> QED BY <2>3, <2>4
<1>3. ASSUME NEW p \in Object, SetHeaders(p)
      PROVE  "headers" \in DOMAIN options'[o] /\ Unrepeated(options'[o].headers)
  <2>1. PICK name \in {"userAgent", "apiClient"} :
          options' = [options EXCEPT ![p].headers[name] = <<App>>]
    BY <1>3 DEF SetHeaders
  <2>2. CASE o = p
    <3>1. /\ options'[o].headers = [options[o].headers EXCEPT ![name] = <<App>>]
          /\ DOMAIN options'[o] = DOMAIN options[o]
      BY <2>1, <2>2 DEF Shape, OptionsUnrepeated
    <3>2. "headers" \in DOMAIN options[o] /\ Unrepeated(options[o].headers)
      BY DEF OptionsUnrepeated
    <3>3. Unrepeated([options[o].headers EXCEPT ![name] = <<App>>])
      BY <3>2, AppsHeaders
    <3> QED BY <3>1, <3>2, <3>3
  <2>3. CASE o # p
    BY <2>1, <2>3 DEF Shape, OptionsUnrepeated
  <2> QED BY <2>2, <2>3
<1> QED BY <1>1, <1>2, <1>3
        DEF Next, vars, requestVars, retrieveSubjectToken, getAwsRoleName,
            getAwsSecurityCredentials, exchangeToken, generateCodeVerifierAsync,
            generateAuthUrl, getTokenAsync, Granted, Refused, Tick, NewKeys

(* Client authentication leaves the identifying headers alone.             *)
LEMMA AuthenticationKeepsHeaders ==
  ASSUME NEW opts, "headers" \in DOMAIN opts, NEW auth
  PROVE  LET applied == applyClientAuthenticationOptions(opts, auth, None)
         IN  "headers" \in DOMAIN applied /\ applied.headers = opts.headers
BY DEF applyClientAuthenticationOptions, injectAuthenticatedHeaders,
       injectAuthenticatedRequestBody

LEMMA IdentifiedNext ==
  Shape /\ OptionsUnrepeated /\ IdentifiedOnce /\ [Next]_vars => IdentifiedOnce'
<1> SUFFICES ASSUME Shape, OptionsUnrepeated, IdentifiedOnce, [Next]_vars,
                    NEW d \in Call, posted'[d] # None
             PROVE  Identified(posted'[d].headers)
  BY DEF IdentifiedOnce, Identified
<1>1. CASE posted'[d] = posted[d]
  BY <1>1 DEF IdentifiedOnce, Identified
<1>2. CASE exchangeToken(d)
  <2> DEFINE opts == [NoRequest EXCEPT !.body = Only("subject_token", SubjectToken(Signed(d)))]
             applied == applyClientAuthenticationOptions(opts, setup.auth, None)
  <2>1. CASE posted' = [posted EXCEPT ![d] = configure(applied)]
    <3>1. posted'[d] = configure(applied)
      BY <2>1 DEF Shape
    <3>2. "headers" \in DOMAIN opts /\ Unrepeated(opts.headers)
      BY NoRequestHeaders
    <3>3. "headers" \in DOMAIN applied /\ applied.headers = opts.headers
      BY <3>2, AuthenticationKeepsHeaders
    <3> HIDE DEF applied, opts
    <3> QED BY <3>1, <3>2, <3>3, Configured, Identifies
  <2> QED BY <2>1, <1>1, <1>2 DEF exchangeToken, Post
<1>3. CASE getTokenAsync(d)
  <2>1. PICK body : posted' = [posted EXCEPT ![d] =
                                 configure([NoRequest EXCEPT !.body = body])]
    BY <1>3 DEF getTokenAsync, Post
  <2>2. posted'[d] = configure([NoRequest EXCEPT !.body = body])
    BY <2>1 DEF Shape
  <2> QED BY <2>2, NoRequestHeaders, Configured, Identifies
<1>4. CASE request(d)
  <2> DEFINE p == setup.jobs[d].object
             opts == [options[p] EXCEPT !.given = setup.jobs[d].given]
  <2>1. options' = [options EXCEPT ![p] = configure(opts)] /\ p \in Object
    BY <1>4 DEF request, Object
  <2>2. "headers" \in DOMAIN opts /\ Unrepeated(opts.headers)
    BY <2>1 DEF OptionsUnrepeated
  <2>3. posted'[d] = posted[d] \/ posted'[d] = options'[p]
    BY <1>4 DEF request, Shape
  <2>4. options'[p] = configure(opts)
    BY <2>1 DEF Shape
  <2> HIDE DEF p, opts
  <2> QED BY <1>1, <2>2, <2>3, <2>4, Configured, Identifies
<1>5. CASE StepOf(d) /\ ~exchangeToken(d) /\ ~getTokenAsync(d) /\ ~request(d)
  BY <1>1, <1>5 DEF StepOf, retrieveSubjectToken, getAwsRoleName, getAwsSecurityCredentials,
     generateCodeVerifierAsync, generateAuthUrl, Granted, Refused, sentVars
<1> QED BY <1>1, <1>2, <1>3, <1>4, <1>5, OthersUnmoved DEF Unmoved

(* Every request names the library and its version exactly once, for any   *)
(* number of calls, objects and requests with each of them.                *)
THEOREM IdentifiedCorrect == Spec => []IdentifiedOnce
<1>1. Init => OptionsUnrepeated /\ IdentifiedOnce
  BY NoRequestHeaders DEF Init, OptionsUnrepeated, IdentifiedOnce
<1> QED BY <1>1, ShapeInit, ShapeNext, OptionsNext, IdentifiedNext, PTL DEF Spec

-----------------------------------------------------------------------------
(* Consent.                                                                *)

(* A call that has made its URL does not go back, so its job remains one   *)
(* of those that have used the object.                                     *)
LEMMA JobsGrow ==
  ASSUME Shape, Working, [Next]_vars, NEW o
  PROVE  JobsWith(o) \subseteq JobsWith(o)'
<1> SUFFICES ASSUME NEW d \in Call, Does(d, "consent"), setup.jobs[d].object = o,
                    pc[d] \notin {"idle", "verifier"}
             PROVE  pc'[d] \notin {"idle", "verifier"}
  BY SetupKept DEF JobsWith
<1>1. CASE Unmoved(d)
  BY <1>1 DEF Unmoved
<1>2. CASE StepOf(d)
  <2>1. CASE retrieveSubjectToken(d) \/ getAwsRoleName(d) \/ getAwsSecurityCredentials(d)
             \/ exchangeToken(d)
    BY <2>1 DEF retrieveSubjectToken, getAwsRoleName, getAwsSecurityCredentials,
                StartSigning, exchangeToken, Goto, Shape
  <2>2. CASE generateCodeVerifierAsync(d) \/ generateAuthUrl(d) \/ getTokenAsync(d)
    BY <2>2 DEF generateCodeVerifierAsync, generateAuthUrl, getTokenAsync, Goto, Shape
  <2>3. CASE request(d) \/ Granted(d) \/ Refused(d)
    <3>1. pc[d] # "sent"
      BY DEF Working, Does
    <3> QED BY <2>3, <3>1 DEF request, Granted, Refused, Goto, Shape
  <2> QED BY <1>2, <2>1, <2>2, <2>3 DEF StepOf
<1> QED BY <1>1, <1>2, OthersUnmoved

LEMMA JobsOfGrow ==
  ASSUME Shape, Working, [Next]_vars, NEW c \in Call
  PROVE  JobsWith(setup.jobs[c].object) \subseteq JobsWith(setup.jobs[c].object)'
<1>1. ASSUME NEW o, setup.jobs[c].object = o
      PROVE  JobsWith(setup.jobs[c].object) \subseteq JobsWith(setup.jobs[c].object)'
  <2>1. setup'.jobs[c].object = o
    BY <1>1, SetupKept
  <2>2. JobsWith(setup.jobs[c].object)' = JobsWith(o)'
    BY <2>1 DEF JobsWith
  <2> QED BY <1>1, <2>2, JobsGrow
<1> QED BY <1>1

(* An options object holds nothing but the values of jobs that have used   *)
(* it, if it holds any.                                                    *)
UrlOptsUsed ==
  \A o \in Object :
    /\ DOMAIN urlOpts[o] = {"client_id", "redirect_uri", "code_challenge"}
    /\ urlOpts[o].client_id # None =>
         \E job \in JobsWith(o) : urlOpts[o].client_id = job.client.id
    /\ urlOpts[o].redirect_uri # None =>
         \E job \in JobsWith(o) : urlOpts[o].redirect_uri = RedirectOf(job)

ChallengeOf(c) == IF setup.jobs[c].pkce = "both" THEN Challenge(Verifier(c)) ELSE None

(* What the server knows of the code of a call: the client and redirect    *)
(* URI of some job with the same object, and the call's own challenge.     *)
CodesUsed ==
  \A c \in Call : pc[c] = "consent" =>
    LET jobs == JobsWith(setup.jobs[c].object)
    IN /\ \E job \in jobs : code[c].client_id = job.client.id
       /\ \E job \in jobs : code[c].redirect_uri = RedirectOf(job)
       /\ code[c].code_challenge = ChallengeOf(c)

(* The object after the application has written into it, and after         *)
(* generateAuthUrl has.                                                    *)
LEMMA UrlOfJobs ==
  ASSUME Shape, Working, UrlOptsUsed, [Next]_vars, NEW c \in Call, generateAuthUrl(c)
  PROVE  LET job == setup.jobs[c]
             jobs == JobsWith(job.object)'
             wishes == Wishes(c)
             url == WithDefaults(wishes, job.client)
         IN /\ DOMAIN wishes = {"client_id", "redirect_uri", "code_challenge"}
            /\ DOMAIN url = {"client_id", "redirect_uri", "code_challenge"}
            /\ wishes.client_id # None => \E j \in jobs : wishes.client_id = j.client.id
            /\ wishes.redirect_uri # None => \E j \in jobs : wishes.redirect_uri = RedirectOf(j)
            /\ \E j \in jobs : url.client_id = j.client.id
            /\ \E j \in jobs : url.redirect_uri = RedirectOf(j)
            /\ url.code_challenge = ChallengeOf(c)
<1> DEFINE job == setup.jobs[c]
           jobs == JobsWith(job.object)'
           old == urlOpts[job.object]
           wishes == Wishes(c)
           url == WithDefaults(wishes, job.client)
<1>1. job \in jobs
  <2>1. Does(c, "consent") /\ pc'[c] \in {"consent", "rejected"}
    BY DEF generateAuthUrl, Working, Goto, Shape
  <2> QED BY <2>1, SetupKept DEF JobsWith
<1>2. JobsWith(job.object) \subseteq jobs
  BY JobsOfGrow
<1>3. /\ DOMAIN old = {"client_id", "redirect_uri", "code_challenge"}
      /\ old.client_id # None => \E j \in jobs : old.client_id = j.client.id
      /\ old.redirect_uri # None => \E j \in jobs : old.redirect_uri = RedirectOf(j)
  BY <1>2 DEF UrlOptsUsed, Object
<1>4. /\ DOMAIN wishes = DOMAIN old
      /\ wishes.client_id = old.client_id
      /\ wishes.redirect_uri = IF job.redirect = None THEN old.redirect_uri ELSE job.redirect
      /\ wishes.code_challenge = ChallengeOf(c)
  BY <1>3 DEF Wishes, ChallengeOf
<1> HIDE DEF wishes, old, jobs, job
<1>5. /\ DOMAIN url = DOMAIN wishes
      /\ url.client_id = Or(wishes.client_id, job.client.id)
      /\ url.redirect_uri = Or(wishes.redirect_uri, job.client.redirect)
      /\ url.code_challenge = wishes.code_challenge
  BY <1>3, <1>4 DEF WithDefaults
<1> HIDE DEF url
<1>6. wishes.redirect_uri # None => \E j \in jobs : wishes.redirect_uri = RedirectOf(j)
  BY <1>1, <1>3, <1>4 DEF RedirectOf, Or
<1>7. \E j \in jobs : url.client_id = j.client.id
  BY <1>1, <1>3, <1>4, <1>5 DEF Or
<1>8. \E j \in jobs : url.redirect_uri = RedirectOf(j)
  <2>1. CASE wishes.redirect_uri = None
    <3>1. job.redirect = None
      BY <2>1, <1>4
    <3> QED BY <2>1, <3>1, <1>1, <1>5 DEF RedirectOf, Or
  <2>2. CASE wishes.redirect_uri # None
    BY <2>2, <1>5, <1>6 DEF Or
  <2> QED BY <2>1, <2>2
<1> QED BY <1>3, <1>4, <1>5, <1>6, <1>7, <1>8 DEF url, wishes, jobs, job

LEMMA UrlOptsNext ==
  Shape /\ Working /\ UrlOptsUsed /\ [Next]_vars => UrlOptsUsed'
<1> SUFFICES ASSUME Shape, Working, UrlOptsUsed, [Next]_vars, NEW o \in Object
             PROVE  LET opts == urlOpts'[o]
                        jobs == JobsWith(o)'
                    IN /\ DOMAIN opts = {"client_id", "redirect_uri", "code_challenge"}
                       /\ opts.client_id # None => \E j \in jobs : opts.client_id = j.client.id
                       /\ opts.redirect_uri # None =>
                            \E j \in jobs : opts.redirect_uri = RedirectOf(j)
  BY SetupKept DEF UrlOptsUsed, RedirectOf
<1>1. JobsWith(o) \subseteq JobsWith(o)'
  BY JobsGrow
<1>2. CASE urlOpts'[o] = urlOpts[o]
  BY <1>1, <1>2 DEF UrlOptsUsed
<1>3. ASSUME NEW d \in Call, generateAuthUrl(d), setup.jobs[d].object = o
      PROVE  LET opts == urlOpts'[o]
                 jobs == JobsWith(o)'
             IN /\ DOMAIN opts = {"client_id", "redirect_uri", "code_challenge"}
                /\ opts.client_id # None => \E j \in jobs : opts.client_id = j.client.id
                /\ opts.redirect_uri # None =>
                     \E j \in jobs : opts.redirect_uri = RedirectOf(j)
  <2>1. \/ urlOpts'[o] = Wishes(d)
        \/ urlOpts'[o] = WithDefaults(Wishes(d), setup.jobs[d].client)
    BY <1>3 DEF generateAuthUrl, Shape
  <2>2. JobsWith(setup.jobs[d].object)' = JobsWith(o)'
    BY <1>3, SetupKept DEF JobsWith
  <2> QED BY <2>1, <2>2, <1>3, UrlOfJobs
<1>4. ASSUME NEW d \in Call, generateAuthUrl(d), setup.jobs[d].object # o
      PROVE  urlOpts'[o] = urlOpts[o]
  BY <1>4 DEF generateAuthUrl, Shape
<1> QED BY <1>2, <1>3, <1>4
        DEF Next, vars, consentVars, retrieveSubjectToken, getAwsRoleName,
            getAwsSecurityCredentials, exchangeToken, generateCodeVerifierAsync,
            getTokenAsync, request, SetHeaders, Granted, Refused, Tick, NewKeys

LEMMA CodesNext ==
  Shape /\ Working /\ UrlOptsUsed /\ CodesUsed /\ [Next]_vars => CodesUsed'
<1> SUFFICES ASSUME Shape, Working, UrlOptsUsed, CodesUsed, [Next]_vars,
                    NEW d \in Call, pc'[d] = "consent"
             PROVE  LET jobs == JobsWith(setup.jobs[d].object)'
                    IN /\ \E job \in jobs : code'[d].client_id = job.client.id
                       /\ \E job \in jobs : code'[d].redirect_uri = RedirectOf(job)
                       /\ code'[d].code_challenge = ChallengeOf(d)
  BY SetupKept DEF CodesUsed, ChallengeOf
<1>1. CASE Unmoved(d)
  BY <1>1, JobsOfGrow DEF Unmoved, CodesUsed
<1>2. CASE generateAuthUrl(d)
  <2>1. setup.jobs[d].object \in Object
    BY DEF Object
  <2>2. code'[d] = WithDefaults(Wishes(d), setup.jobs[d].client)
    BY <1>2, <2>1 DEF generateAuthUrl, Goto, Shape
  <2> QED BY <1>2, <2>2, UrlOfJobs
<1>3. CASE StepOf(d) /\ ~generateAuthUrl(d)
  BY <1>3 DEF StepOf, retrieveSubjectToken, StartSigning, getAwsRoleName,
     getAwsSecurityCredentials, exchangeToken, generateCodeVerifierAsync, getTokenAsync,
     request, Granted, Refused, Goto, Shape
<1> QED BY <1>1, <1>2, <1>3, OthersUnmoved

(* CodesAreRedeemable of one call, with the jobs that explain a difference.*)
Redeemable(c, body, jobs) ==
  LET job == setup.jobs[c]
  IN /\ \/ body.client_id = body.code.client_id
        \/ \E other \in jobs : /\ body.code.client_id = other.client.id
                               /\ other.client.id # job.client.id
     /\ \/ body.redirect_uri = body.code.redirect_uri
        \/ \E other \in jobs : /\ body.code.redirect_uri = RedirectOf(other)
                               /\ RedirectOf(other) # RedirectOf(job)
     /\ IF body.code_verifier = None THEN body.code.code_challenge = None
        ELSE body.code.code_challenge = Challenge(body.code_verifier)

LEMMA RedeemableNext ==
  Shape /\ Working /\ CodesUsed /\ CodesAreRedeemable /\ [Next]_vars => CodesAreRedeemable'
<1> SUFFICES ASSUME Shape, Working, CodesUsed, CodesAreRedeemable, [Next]_vars,
                    NEW d \in Call, pc'[d] = "redeem"
             PROVE  Redeemable(d, posted'[d].body, JobsWith(setup.jobs[d].object)')
  BY SetupKept DEF CodesAreRedeemable, Redeemable
<1>1. JobsWith(setup.jobs[d].object) \subseteq JobsWith(setup.jobs[d].object)'
  BY JobsOfGrow
<1>2. CASE Unmoved(d)
  <2>1. Redeemable(d, posted[d].body, JobsWith(setup.jobs[d].object))
    BY <1>2 DEF Unmoved, CodesAreRedeemable, Redeemable
  <2> QED BY <1>1, <1>2, <2>1 DEF Unmoved, Redeemable
<1>3. CASE getTokenAsync(d)
  <2> DEFINE job == setup.jobs[d]
             body == [code |-> code[d], client_id |-> job.client.id,
                      client_secret |-> job.client.secret,
                      redirect_uri |-> RedirectOf(job),
                      code_verifier |-> IF job.pkce = "both" THEN Verifier(d) ELSE None]
  <2>1. posted'[d] = configure([NoRequest EXCEPT !.body = body])
    BY <1>3 DEF getTokenAsync, Post, Shape, RedirectOf
  <2>2. posted'[d].body = body
    BY <2>1 DEF configure, NoRequest
  <2>3. /\ \E other \in JobsWith(job.object) : code[d].client_id = other.client.id
        /\ \E other \in JobsWith(job.object) : code[d].redirect_uri = RedirectOf(other)
        /\ code[d].code_challenge = ChallengeOf(d)
    BY <1>3 DEF getTokenAsync, CodesUsed
  <2>4. Verifier(d) # None
    BY SetupsOk DEF Verifier
  <2> QED BY <1>1, <2>2, <2>3, <2>4 DEF Redeemable, ChallengeOf
<1>4. CASE StepOf(d) /\ ~getTokenAsync(d)
  BY <1>4 DEF StepOf, retrieveSubjectToken, StartSigning, getAwsRoleName,
     getAwsSecurityCredentials, exchangeToken, generateCodeVerifierAsync, generateAuthUrl,
     request, Granted, Refused, Goto, Shape
<1> QED BY <1>2, <1>3, <1>4, OthersUnmoved

(* A code is redeemed with the verifier its URL was made for, and with the *)
(* client and redirect URI of its URL unless a call with the same options  *)
(* object wanted others, for any number of calls, clients and objects.     *)
THEOREM RedeemableCorrect == Spec => []CodesAreRedeemable
<1>1. Init => UrlOptsUsed /\ CodesUsed /\ CodesAreRedeemable
  BY DEF Init, UrlOptsUsed, CodesUsed, CodesAreRedeemable, Object
<1> QED BY <1>1, ShapeInit, ShapeNext, WorkingInit, WorkingNext, UrlOptsNext, CodesNext,
           RedeemableNext, PTL DEF Spec

-----------------------------------------------------------------------------
(* Token exchanges.                                                        *)

LEMMA IssuedGrows == ASSUME Shape, [Next]_vars PROVE Issued \subseteq Issued'
<1>1. keys' = keys \/ keys' = keys + 1
  BY DEF Next, vars, awsVars, retrieveSubjectToken, getAwsRoleName,
         getAwsSecurityCredentials, exchangeToken, generateCodeVerifierAsync,
         generateAuthUrl, getTokenAsync, request, SetHeaders, Granted, Refused, Tick, NewKeys
<1>2. 0..keys \subseteq 0..keys'
  BY <1>1 DEF Shape
<1>3. setup' = setup
  BY SetupKept
<1>4. Variables' = Variables
  BY <1>3 DEF Variables
<1> QED BY <1>2, <1>4 DEF Issued, Temporary

LEMMA AcceptsMore ==
  ASSUME NEW issued, NEW more, issued \subseteq more, NEW req, Accepts(issued, req)
  PROVE  Accepts(more, req)
BY DEF Accepts

(* A call signs with credentials that AWS has issued.                      *)
SigningIssued == \A c \in Call : pc[c] = "digest" => signing[c].credentials \in Issued

LEMMA SigningNext == Shape /\ SigningIssued /\ [Next]_vars => SigningIssued'
<1> SUFFICES ASSUME Shape, SigningIssued, [Next]_vars, NEW d \in Call, pc'[d] = "digest"
             PROVE  signing'[d].credentials \in Issued'
  BY DEF SigningIssued
<1>1. CASE Unmoved(d)
  BY <1>1, IssuedGrows DEF Unmoved, SigningIssued
<1>2. CASE retrieveSubjectToken(d)
  <2>1. signing'[d].credentials = Variables
    BY <1>2 DEF retrieveSubjectToken, StartSigning, Goto, Shape
  <2>2. Variables \in Issued
    BY DEF Issued
  <2> QED BY <2>1, <2>2, IssuedGrows
<1>3. CASE getAwsSecurityCredentials(d)
  <2>1. signing'[d].credentials = Temporary(role, keys)
    BY <1>3 DEF getAwsSecurityCredentials, StartSigning, Shape
  <2>2. Temporary(role, keys) \in Issued
    BY DEF Issued, Shape
  <2> QED BY <2>1, <2>2, IssuedGrows
<1>4. CASE StepOf(d) /\ ~retrieveSubjectToken(d) /\ ~getAwsSecurityCredentials(d)
  BY <1>4 DEF StepOf, getAwsRoleName, exchangeToken, generateCodeVerifierAsync,
     generateAuthUrl, getTokenAsync, request, Granted, Refused, Goto, Shape
<1> QED BY <1>1, <1>2, <1>3, <1>4, OthersUnmoved

(* What retrieveSubjectToken returns is a request that AWS accepts.        *)
LEMMA SubjectTokenAccepted ==
  ASSUME NEW c \in Call, signing[c].credentials \in Issued
  PROVE  Accepts(Issued, SubjectToken(Signed(c)))
<1> DEFINE extra == Only(Lower("x-goog-cloud-target-resource"), Audience)
           signed == Signed(c)
<1>1. /\ GetCallerIdentity.url.host.region = Region
      /\ DOMAIN GetCallerIdentity.headers = {}
  BY DEF GetCallerIdentity, Empty
<1>2. Additional(GetCallerIdentity.headers, signing[c].time)
  BY <1>1 DEF Additional
<1>3. Extra(extra, GetCallerIdentity.headers)
  BY <1>1, LowerName DEF Extra, Only, Protected
<1>4. Accepts(Issued, [signed EXCEPT !.headers = Assign(extra, @)])
  BY <1>1, <1>2, <1>3, SignedRequestsAreAccepted DEF Signed
<1>5. PICK url, method, headers :
        signed = [url |-> url, method |-> method, payload |-> None, headers |-> headers]
  <2> DEFINE url == GetCallerIdentity.url
             method == IF GetCallerIdentity.method = None THEN "GET" ELSE GetCallerIdentity.method
  <2>1. Options(GetCallerIdentity)
          = [url |-> url, method |-> method, payload |-> None, headers |-> Empty]
    BY DEF Options, GetCallerIdentity
  <2> DEFINE a == generateAuthenticationHeaderMap(Options(GetCallerIdentity), Region,
                    signing[c].credentials, signing[c].time)
             headers == SentHeaders(Options(GetCallerIdentity), signing[c].credentials,
                                    signing[c].time, a)
  <2>2. signed = [Options(GetCallerIdentity) EXCEPT !.headers = headers]
    BY DEF Signed, getRequestOptions
  <2>3. signed = [url |-> url, method |-> method, payload |-> None, headers |-> headers]
    <3> HIDE DEF signed, headers, url, method
    <3>1. signed = [[url |-> url, method |-> method, payload |-> None, headers |-> Empty]
                     EXCEPT !.headers = headers]
      BY <2>1, <2>2
    <3> QED BY <3>1
  <2> HIDE DEF signed, headers, url, method
  <2> QED BY <2>3
<1> HIDE DEF signed, extra
<1>6. [url |-> signed.url, method |-> signed.method, payload |-> None,
       headers |-> Assign(extra, signed.headers)]
        = [signed EXCEPT !.headers = Assign(extra, @)]
  BY <1>5
<1> QED BY <1>4, <1>6 DEF signed, extra, SubjectToken

(* applyClientAuthenticationOptions identifies the client in one way, and  *)
(* keeps what is in the body.                                              *)
LEMMA ClientAuthenticated ==
  ASSUME Shape, NEW token
  PROVE  LET opts == [NoRequest EXCEPT !.body = Only("subject_token", token)]
             applied == applyClientAuthenticationOptions(opts, setup.auth, None)
         IN /\ {"body", "authorization", "headers"} \subseteq DOMAIN applied
            /\ applied.body["subject_token"] = token
            /\ Authenticates(applied, setup.auth)
<1> DEFINE auth == setup.auth
           opts == [NoRequest EXCEPT !.body = Only("subject_token", token)]
           applied == applyClientAuthenticationOptions(opts, auth, None)
<1>1. /\ {"body", "authorization", "headers"} \subseteq DOMAIN opts
      /\ DOMAIN opts.body = {"subject_token"} /\ opts.body["subject_token"] = token
      /\ opts.authorization = None
      /\ opts.contentType = "form"
  BY DEF NoRequest, Only
<1>2. /\ auth # None => auth.type \in {"basic", "request-body"} /\ Basic(auth) # None
      /\ \/ auth = None
         \/ auth.type = "basic"
         \/ auth.type = "request-body"
  BY SetupsOk DEF Shape, ClientAuthentication
<1> HIDE DEF opts, auth
<1>3. CASE auth = None
  <2>1. applied = opts
    BY <1>3 DEF applyClientAuthenticationOptions, injectAuthenticatedHeaders, InBody
  <2> QED BY <2>1, <1>1, <1>3 DEF Authenticates, opts, auth
<1>4. CASE auth # None /\ auth.type = "basic"
  <2>1. applied = [opts EXCEPT !.authorization = Basic(auth)]
    BY <1>4 DEF applyClientAuthenticationOptions, injectAuthenticatedHeaders, InBody
  <2> HIDE DEF applied
  <2>2. /\ DOMAIN applied = DOMAIN opts
        /\ applied.body = opts.body /\ applied.authorization = Basic(auth)
    BY <2>1, <1>1
  <2>3. Basic(auth) = [scheme |-> "Basic", id |-> auth.id,
                       secret |-> IF auth = None \/ auth.secret = None THEN ""
                                  ELSE auth.secret]
    BY <1>4 DEF Basic
  <2>4. applied.authorization # None /\ "client_secret" \notin DOMAIN applied.body
    BY <2>2, <1>1, <1>2, <1>4
  <2> HIDE DEF applied
  <2>5. Authenticates(applied, auth)
    BY <2>2, <2>3, <2>4, <1>4, Zenon DEF Authenticates
  <2> QED BY <2>2, <2>5, <1>1 DEF opts, auth, applied
<1>5. CASE auth # None /\ auth.type = "request-body"
  <2>1. applied = injectAuthenticatedRequestBody(opts, auth)
    BY <1>5 DEF applyClientAuthenticationOptions, injectAuthenticatedHeaders, InBody
  <2> HIDE DEF applied
  <2>2. /\ DOMAIN applied = DOMAIN opts /\ applied.authorization = None
        /\ DOMAIN applied.body = {"subject_token", "client_id", "client_secret"}
        /\ applied.body["subject_token"] = token
        /\ applied.body["client_id"] = auth.id
        /\ applied.body["client_secret"] = IF auth.secret = None THEN "" ELSE auth.secret
    BY <2>1, <1>1 DEF injectAuthenticatedRequestBody
  <2>3. Authenticates(applied, auth)
    BY <2>2, <1>5 DEF Authenticates
  <2> QED BY <2>2, <2>3, <1>1 DEF opts, auth, applied
<1> QED BY <1>2, <1>3, <1>4, <1>5

LEMMA ExchangesNext ==
  Shape /\ SigningIssued /\ ExchangesCanBeGranted /\ [Next]_vars => ExchangesCanBeGranted'
<1> SUFFICES ASSUME Shape, SigningIssued, ExchangesCanBeGranted, [Next]_vars,
                    NEW d \in Call, pc'[d] = "sts"
             PROVE  /\ Accepts(Issued', posted'[d].body["subject_token"])
                    /\ Authenticates(posted'[d], setup.auth)
  BY SetupKept DEF ExchangesCanBeGranted
<1>1. CASE Unmoved(d)
  <2>1. Accepts(Issued, posted'[d].body["subject_token"])
    BY <1>1 DEF Unmoved, ExchangesCanBeGranted
  <2>2. Authenticates(posted'[d], setup.auth)
    BY <1>1 DEF Unmoved, ExchangesCanBeGranted
  <2> QED BY <2>1, <2>2, IssuedGrows, AcceptsMore
<1>2. CASE exchangeToken(d)
  <2> DEFINE token == SubjectToken(Signed(d))
             applied == applyClientAuthenticationOptions(
                          [NoRequest EXCEPT !.body = Only("subject_token", token)],
                          setup.auth, None)
  <2>1. pc[d] = "digest" /\ posted'[d] = configure(applied)
    BY <1>2 DEF exchangeToken, Post, Goto, Shape
  <2>2. Accepts(Issued, token)
    BY <2>1, SubjectTokenAccepted DEF SigningIssued
  <2>3. /\ {"body", "authorization", "headers"} \subseteq DOMAIN applied
        /\ applied.body["subject_token"] = token
        /\ Authenticates(applied, setup.auth)
    BY ClientAuthenticated
  <2> HIDE DEF applied, token
  <2>4. posted'[d].body = applied.body /\ posted'[d].authorization = applied.authorization
    BY <2>1, <2>3 DEF configure
  <2>5. Authenticates(posted'[d], setup.auth)
    BY <2>3, <2>4 DEF Authenticates
  <2> QED BY <2>2, <2>3, <2>4, <2>5, IssuedGrows, AcceptsMore
<1>3. CASE StepOf(d) /\ ~exchangeToken(d)
  BY <1>3 DEF StepOf, retrieveSubjectToken, StartSigning, getAwsRoleName,
     getAwsSecurityCredentials, generateCodeVerifierAsync, generateAuthUrl, getTokenAsync,
     request, Granted, Refused, Goto, Shape
<1> QED BY <1>1, <1>2, <1>3, OthersUnmoved

(* Every token exchange can be granted, for any number of calls, roles,    *)
(* keys and times, and any client authentication.                          *)
THEOREM ExchangesCorrect == Spec => []ExchangesCanBeGranted
<1>1. Init => SigningIssued /\ ExchangesCanBeGranted
  BY DEF Init, SigningIssued, ExchangesCanBeGranted
<1> QED BY <1>1, ShapeInit, ShapeNext, SigningNext, ExchangesNext, PTL DEF Spec

-----------------------------------------------------------------------------
(* What a call holds, where it stands.                                     *)

(* The role whose keys are asked for is one the instance has had; a        *)
(* request is signed for a time that the clock has shown; what is posted   *)
(* is what was signed, and carries the code of this call's consent; a      *)
(* request that is out was counted, within the bound; and an error and its *)
(* answer are there only when the call has failed.                         *)
Holding ==
  \A c \in Call :
    /\ pc[c] = "keys" => asked[c] \in Role
    /\ pc[c] = "digest" => signing[c].time \in 0..now
    /\ pc[c] = "sts" => posted[c].body["subject_token"] = SubjectToken(Signed(c))
    /\ pc[c] = "redeem" => posted[c].body.code = code[c]
    /\ sends[c] \in 0..MaxSends
    /\ pc[c] = "sent" => sends[c] > 0
    /\ pc[c] # "failed" => answered[c] = None /\ thrown[c] = None

LEMMA HoldingInit == Init => Holding
BY SetupsOk DEF Init, Holding

LEMMA ClockAdvances == ASSUME Shape, [Next]_vars PROVE now' \in Nat /\ now <= now'
<1>1. now' = now \/ now' = now + 1
  BY DEF Next, vars, retrieveSubjectToken, getAwsRoleName,
         getAwsSecurityCredentials, exchangeToken, generateCodeVerifierAsync,
         generateAuthUrl, getTokenAsync, request, SetHeaders, Granted, Refused, Tick, NewKeys
<1> QED BY <1>1 DEF Shape

LEMMA HoldingNext == Shape /\ Working /\ Holding /\ [Next]_vars => Holding'
<1> SUFFICES ASSUME Shape, Working, Holding, [Next]_vars, NEW d \in Call
             PROVE  /\ pc'[d] = "keys" => asked'[d] \in Role
                    /\ pc'[d] = "digest" => signing'[d].time \in 0..now'
                    /\ pc'[d] = "sts" =>
                         posted'[d].body["subject_token"] = SubjectToken(Signed(d))'
                    /\ pc'[d] = "redeem" => posted'[d].body.code = code'[d]
                    /\ sends'[d] \in 0..MaxSends
                    /\ pc'[d] = "sent" => sends'[d] > 0
                    /\ pc'[d] # "failed" => answered'[d] = None /\ thrown'[d] = None
  BY DEF Holding
<1>1. /\ pc[d] = "keys" => asked[d] \in Role
      /\ pc[d] = "digest" => signing[d].time \in 0..now
      /\ pc[d] = "sts" => posted[d].body["subject_token"] = SubjectToken(Signed(d))
      /\ pc[d] = "redeem" => posted[d].body.code = code[d]
      /\ sends[d] \in 0..MaxSends
      /\ pc[d] = "sent" => sends[d] > 0
      /\ pc[d] # "failed" => answered[d] = None /\ thrown[d] = None
  BY DEF Holding
<1>2. now \in Nat /\ now' \in Nat /\ now <= now'
  BY ClockAdvances DEF Shape
<1>3. CASE Unmoved(d)
  <2>1. SubjectToken(Signed(d))' = SubjectToken(Signed(d))
    BY <1>3 DEF Unmoved, SubjectToken, Signed
  <2>2. pc'[d] = "digest" => signing'[d].time \in 0..now'
    BY <1>1, <1>2, <1>3 DEF Unmoved
  <2> QED BY <1>1, <1>3, <2>1, <2>2 DEF Unmoved
<1>4. CASE retrieveSubjectToken(d) \/ getAwsRoleName(d) \/ getAwsSecurityCredentials(d)
  BY <1>1, <1>2, <1>4 DEF retrieveSubjectToken, getAwsRoleName, getAwsSecurityCredentials,
     StartSigning, Goto, Shape, requestVars, sentVars
<1>5. CASE exchangeToken(d)
  <2> DEFINE token == SubjectToken(Signed(d))
             applied == applyClientAuthenticationOptions(
                          [NoRequest EXCEPT !.body = Only("subject_token", token)],
                          setup.auth, None)
  <2>1. /\ pc[d] = "digest" /\ pc'[d] \in {"sts", "rejected"}
        /\ pc'[d] = "sts" => posted'[d] = configure(applied)
        /\ UNCHANGED <<signing, sends, answered, thrown>>
    BY <1>5 DEF exchangeToken, Post, Goto, Shape, awsVars, requestVars
  <2>2. SubjectToken(Signed(d))' = token
    BY <2>1 DEF SubjectToken, Signed
  <2>3. "body" \in DOMAIN applied /\ applied.body["subject_token"] = token
    BY ClientAuthenticated
  <2> HIDE DEF applied, token
  <2>4. configure(applied).body = applied.body
    BY <2>3 DEF configure
  <2> QED BY <1>1, <2>1, <2>2, <2>3, <2>4
<1>6. CASE generateCodeVerifierAsync(d) \/ generateAuthUrl(d)
  BY <1>1, <1>6 DEF generateCodeVerifierAsync, generateAuthUrl, Goto, Shape,
     requestVars, sentVars
<1>7. CASE getTokenAsync(d)
  <2> DEFINE job == setup.jobs[d]
             body == [code |-> code[d], client_id |-> job.client.id,
                      client_secret |-> job.client.secret,
                      redirect_uri |-> Or(job.redirect, job.client.redirect),
                      code_verifier |-> IF job.pkce = "both" THEN Verifier(d) ELSE None]
  <2>1. /\ pc[d] = "consent" /\ pc'[d] = "redeem"
        /\ UNCHANGED <<code, sends, answered, thrown>>
        /\ posted'[d] = configure([NoRequest EXCEPT !.body = body])
    BY <1>7 DEF getTokenAsync, Post, Goto, Shape, consentVars, requestVars
  <2>2. posted'[d].body = body
    BY <2>1 DEF configure, NoRequest
  <2> QED BY <1>1, <2>1, <2>2
<1>8. CASE request(d)
  BY <1>1, <1>8, SetupsOk DEF request, Goto, Shape
<1>9. CASE Granted(d)
  BY <1>1, <1>9 DEF Granted, Goto, Shape, requestVars, sentVars
<1>10. CASE Refused(d)
  BY <1>1, <1>10 DEF Refused, Goto, Shape, requestVars
<1> QED BY <1>3, <1>4, <1>5, <1>6, <1>7, <1>8, <1>9, <1>10, OthersUnmoved DEF StepOf

(* Where a call stands shows which job it does and what it holds.          *)
Stages == Working /\ SigningIssued /\ Holding

(* For any number of calls, roles, keys and ticks: only a call with that   *)
(* job reaches its stages; a request is signed with credentials AWS issued *)
(* and a time of the clock; the token that StsCredentials posts is the one *)
(* that was signed, and the code that getToken posts is that of the call's *)
(* own consent, whatever other calls do between the steps.                 *)
THEOREM StagesCorrect == Spec => []Stages
<1>1. Init => SigningIssued
  BY DEF Init, SigningIssued
<1> QED BY <1>1, ShapeInit, ShapeNext, WorkingInit, WorkingNext, SigningNext,
           HoldingInit, HoldingNext, PTL DEF Spec, Stages

=============================================================================
