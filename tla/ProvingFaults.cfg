CONSTANTS
  Challenge = {c1, c2}
  Callback = {k1}
  Pubkey = {good, bad}
  Wallet = {w1}
  TTL = 1
  None = None
  MaxRestarts = 1
  ClientsLeave = TRUE
  User = {u1}
  OffCurve = {bad}
  Host = {api}
  ApiHost = api
  Path = {user}
  UserInfoPath = user
  Deployment = {here}
  Here = here
  Signer = {notary}
  Notary = notary
  VByte = {27, 35}
  MaxDrift = 1
  MaxTime = 1
  LeafFaults = FALSE
SPECIFICATION CPFairSpec
INVARIANTS OffCurveNeverServed
PROPERTIES AcceptedIsServed PollingEnds DrainEnds
