---------------------- MODULE MCExternalAccountClient ----------------------
(***************************************************************************)
(* Instances of ExternalAccountClient for TLC.                             *)
(***************************************************************************)
EXTENDS ExternalAccountClient, TLC

CONSTANTS c1, c2, r1, r2

FileSetup == [source |-> "file", impersonation |-> FALSE, regionVar |-> None,
              regionUrl |-> FALSE, keyVars |-> FALSE, roleUrl |-> FALSE,
              projectNumber |-> TRUE, expiresIn |-> TRUE]
UrlSetup == [FileSetup EXCEPT !.source = "url", !.impersonation = TRUE,
                              !.projectNumber = FALSE]
AwsSetup == [FileSetup EXCEPT !.source = "aws", !.regionUrl = TRUE, !.roleUrl = TRUE]
AwsVariables == [AwsSetup EXCEPT !.regionVar = r2, !.keyVars = TRUE,
                                  !.expiresIn = FALSE]

AllSetups ==
  {FileSetup, UrlSetup, AwsSetup, AwsVariables,
   [AwsSetup EXCEPT !.regionUrl = FALSE],
   [AwsSetup EXCEPT !.roleUrl = FALSE, !.regionVar = r1]}

InstalledOnce == {[at |-> [by |-> "application", deadline |-> 3], exp |-> 3]}

Calls == Permutations(Call)
=============================================================================
