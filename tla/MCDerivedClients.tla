-------------------------- MODULE MCDerivedClients --------------------------
(***************************************************************************)
(* An instance of DerivedClients for TLC.                                  *)
(***************************************************************************)
EXTENDS DerivedClients, TLC

CONSTANTS c1, c2, u1, u2

(* An access token from elsewhere, good until the clock is 3.              *)
AccessTokenOnly ==
  {[at |-> [rt |-> Unshared, serial |-> 0, deadline |-> 3], rt |-> None,
    exp |-> 3]}
AllCredentials == {Expired, Undated} \union AccessTokenOnly

Symmetry == Permutations(Call) \union Permutations(Url)
=============================================================================
