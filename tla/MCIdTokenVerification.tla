----------------------- MODULE MCIdTokenVerification -----------------------
(***************************************************************************)
(* Instances of IdTokenVerification for TLC.                               *)
(***************************************************************************)
EXTENDS IdTokenVerification, TLC

CONSTANTS c1, c2, c3

Verify(k, defects, asked) == [kind |-> k, defects |-> defects, asked |-> asked]
Genuine == Verify("verifyIdToken", {}, {"issuer", "audience"})

(* Genuine tokens, and tokens with one defect or with two.                 *)
SomeJobs ==
  {Genuine,
   Verify("verifyIdToken", {"signature", "issuer"}, {"issuer"}),
   Verify("verifyIapToken", {"payload", "audience"}, {"audience"}),
   Verify("verifyIapToken", {"audience"}, {}),
   Verify("getFederatedSignonCerts", {}, {})}

NoneZeroOne == {None, 0, 1}

Calls == Permutations(Call)
=============================================================================
