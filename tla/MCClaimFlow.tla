----------------------------- MODULE MCClaimFlow -----------------------------
(* Instances of ClaimFlow for TLC: ids, keys and wallets are model values,  *)
(* interchangeable wherever only safety is checked.                         *)
EXTENDS ClaimFlow, TLC

Symmetry == Permutations(Challenge) \cup Permutations(Callback)
              \cup Permutations(Pubkey) \cup Permutations(Wallet)
=============================================================================
