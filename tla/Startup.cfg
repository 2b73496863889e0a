CONSTANTS
  Address = {zero, a1, a2}
  Zero = zero
  NotaryHost = host
  NotaryUrl <- MCNotaryUrl
  Claim = {c1, c2}
  MaxRestarts = 1
  Malformed = malformed
  Absent = absent
  None = None
SPECIFICATION Spec
SYMMETRY Symmetry
INVARIANTS AddressTypoNeverServes DialsTheConfiguredNotary
CHECK_DEADLOCK FALSE
