----------------------------- MODULE MCAPIKeys ------------------------------
(* A small instance of APIKeys for TLC.                                     *)
EXTENDS APIKeys, TLC

Read == <<"order", "read">>
MCScopeSets == {{<<"order", "*">>, <<>>}, {<<"agent", "read">>}}
MCRequiredScopes == {}
MCRouteScopes == {Read}
Symmetry == Permutations(Requests)
=============================================================================
