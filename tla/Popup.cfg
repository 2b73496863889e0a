CONSTANTS
  Challenge = {c1}
  Callback = {k1, k2}
  Pubkey = {p1, p2}
  Wallet = {w1}
  TTL = 2
  MaxRestarts = 1
  ClientsLeave = TRUE
  None = None
SPECIFICATION PPFairSpec
INVARIANT NewsMatchesPoll
PROPERTY PopupCloses
