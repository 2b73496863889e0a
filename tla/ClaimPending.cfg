CONSTANTS
  Challenge = {c1}
  Callback = {k1}
  Pubkey = {p1, p2}
  Wallet = {w1}
  TTL = 2
  None = None
  MaxRestarts = 0
  ClientsLeave = FALSE
SPECIFICATION Spec
INVARIANT PendingMeansRunning
