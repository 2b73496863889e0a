--------------------------- MODULE MCClaimProving ---------------------------
(* Instances of ClaimProving for TLC.                                       *)
EXTENDS ClaimProving, TLC

Symmetry == Permutations(Challenge) \cup Permutations(Callback) \cup Permutations(User)
=============================================================================
