CONSTANTS
  Challenge = {c1, c2}
  Callback = {k1, k2}
  Pubkey = {good}
  Wallet = {w1}
  TTL = 1
  None = None
  MaxRestarts = 0
  ClientsLeave = FALSE
  User = {u1, u2}
  OffCurve = {}
  Host = {api}
  ApiHost = api
  Path = {user}
  UserInfoPath = user
  Deployment = {here}
  Here = here
  Signer = {notary}
  Notary = notary
  VByte = {27}
  MaxDrift = 1
  MaxTime = 0
  LeafFaults = FALSE
SPECIFICATION CPSpec
SYMMETRY Symmetry
INVARIANTS ServedBundleIsGood BundleIsOwn
