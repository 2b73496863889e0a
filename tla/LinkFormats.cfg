CONSTANTS
  PubkeyText <- MCPubkeyText
  WalletText <- MCWalletText
  ChallengeHex <- MCChallengeHex
  ApiDomain <- MCApiDomain
  PubkeyBytes = 2
  WalletBytes = 1
  MaxSpaces = 2
  None = None
SPECIFICATION Spec
INVARIANTS AcceptedIffSpelled LinkLeadsBack
CHECK_DEADLOCK FALSE
