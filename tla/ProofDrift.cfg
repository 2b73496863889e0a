CONSTANTS
  Session = {s1}
  User = {u1, u2}
  Key = {good}
  OffCurve = {}
  Wallet = {w1}
  Host = {api}
  ApiHost = api
  Path = {user}
  UserInfoPath = user
  Deployment = {here}
  Here = here
  Signer = {notary}
  Notary = notary
  VByte = {0}
  MaxDrift = 2
  MaxTime = 3
  LeafFaults = FALSE
  None = None
SPECIFICATION Spec
SYMMETRY Symmetry
INVARIANTS DriftErrorMeansExceeds
CHECK_DEADLOCK FALSE
