-------------------------- MODULE MCTokenRequests --------------------------
(***************************************************************************)
(* Instances of TokenRequests for TLC.                                     *)
(***************************************************************************)
EXTENDS TokenRequests, TLC

CONSTANTS c1, c2, r1, r2

Client(i) == [id |-> i, secret |-> "secret of " \o i, redirect |-> "page of " \o i]

Exchange == [does |-> "exchange", client |-> Client("a"), object |-> "o",
             redirect |-> None, pkce |-> "none", given |-> {"url"}]
Consent == [Exchange EXCEPT !.does = "consent", !.pkce = "both"]
Ask == [Exchange EXCEPT !.does = "request"]

ClientAuth == {None} \union [type : {"basic", "request-body"}, id : {"a"},
                             secret : {"s", None}]

Of(first, second, auth, vars1) ==
  [jobs |-> c1 :> first @@ c2 :> second, auth |-> auth, keyVars |-> vars1]

Exchanges ==
  {Of(Exchange, Exchange, auth, v) :
     auth \in ClientAuth, v \in {"none", "permanent", "session"}}

Consents ==
  {Of(Consent, second, None, "permanent") :
     second \in {Consent,
                 [Consent EXCEPT !.pkce = "none"],
                 [Consent EXCEPT !.pkce = "method", !.redirect = "elsewhere"],
                 [Consent EXCEPT !.client = Client("b")],
                 [Consent EXCEPT !.client = Client("b"), !.object = "p",
                                 !.redirect = "elsewhere"]}}

Asks ==
  {Of(Ask, second, None, "permanent") :
     second \in {Ask, [Ask EXCEPT !.object = "p"], [Ask EXCEPT !.given = {"url", "json"}]}}

AllSetups == Exchanges \union Consents \union Asks
=============================================================================
