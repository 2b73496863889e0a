----------------------------- MODULE MCProofFlow -----------------------------
(* Instances of ProofFlow for TLC: sessions, accounts and keys are          *)
(* interchangeable; hosts, paths, deployments and signers are not.          *)
EXTENDS ProofFlow, TLC

Symmetry == Permutations(Session) \cup Permutations(User)
=============================================================================
