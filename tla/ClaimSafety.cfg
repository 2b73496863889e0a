CONSTANTS
  Challenge = {c1, c2}
  Callback = {k1, k2, k3}
  Pubkey = {p1, p2}
  Wallet = {w1, w2}
  TTL = 2
  None = None
  MaxRestarts = 1
  ClientsLeave = TRUE
SPECIFICATION Spec
SYMMETRY Symmetry
INVARIANTS Inv TypeOK SingleUse ProofMatchesRequest LiveChallengeHasSlot PopupAgrees OnlyMintedHere
PROPERTIES FinalAnswerStays ImplementsLifecycle
