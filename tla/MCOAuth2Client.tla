--------------------------- MODULE MCOAuth2Client ---------------------------
(***************************************************************************)
(* Instances of OAuth2Client for TLC: the credentials an application       *)
(* installs, and the symmetry of the calls.                                *)
(***************************************************************************)
EXTENDS OAuth2Client, TLC

CONSTANTS a1, a2, c1, c2, c3

(* A grant made before the client was created, good until the clock is 4.  *)
OldToken(r) == [rt |-> r, serial |-> 0, deadline |-> 4]

RefreshOnly(r) == [at |-> None, rt |-> r, exp |-> 0]
Undated(r) == [at |-> OldToken(r), rt |-> r, exp |-> 0]
Dated(r) == [at |-> OldToken(r), rt |-> r, exp |-> 4]

TwoAccounts == {Undated(a1), RefreshOnly(a2)}
Switching == {RefreshOnly(a1), Dated(a2)}
UndatedOnly == {Undated(a1)}

Calls == Permutations(Call)
=============================================================================
