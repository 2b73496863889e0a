CONSTANTS
  Session = {s1}
  User = {u1, u2}
  Key = {good, bad}
  OffCurve = {bad}
  Wallet = {w1}
  Host = {api, other}
  ApiHost = api
  Path = {user, elsewhere}
  UserInfoPath = user
  Deployment = {here, there}
  Here = here
  Signer = {notary, stranger}
  Notary = notary
  VByte = {0, 1, 28, 35}
  MaxDrift = 2
  MaxTime = 3
  LeafFaults = TRUE
  None = None
SPECIFICATION Spec
SYMMETRY Symmetry
INVARIANTS TypeOK BundleIsBindable HonestAnswerAccepted
CHECK_DEADLOCK FALSE
