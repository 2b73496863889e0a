CONSTANTS
  Authorization = {a1, a2}
  Exchange = {e1, e2}
  Account = {u1, u2}
  Origin = origin
  BaseUrl <- MCBaseUrl
  None = None
SPECIFICATION Spec
SYMMETRY Symmetry
INVARIANTS OkMeansGranted TokenIsTheApprovers OwnCodeIsGranted
CHECK_DEADLOCK FALSE
