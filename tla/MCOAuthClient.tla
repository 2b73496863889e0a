--------------------------- MODULE MCOAuthClient ---------------------------
(* An instance of OAuthClient for TLC.  The operator may have ended BASE_URL  *)
(* with slashes, and registered it with them or without.                     *)
EXTENDS OAuthClient, TLC

CONSTANT Origin

MCBaseUrl == {[origin |-> Origin, slashes |-> n] : n \in 0..2}

Symmetry == Permutations(Authorization) \cup Permutations(Exchange) \cup Permutations(Account)
=============================================================================
