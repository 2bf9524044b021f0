SPECIFICATION Spec
CONSTANTS
  Purposes <- MCPurposes
  Emails = {e1, e2}
  Wallets = {a1, a2}
  Codes = {k1, k2}
  RequestIds = {d1}
  Gifts = {g1}
  Requests = {r1, r2}
  MaxTries = 2
  Capacity = 1
  IpBudget <- MCIp
  KeyBudget <- MCKey
  MaxIssues = 1
  SessionCap = 2
  ChallengeCap = 1
  MaxRequests = 4
  MaxCrashes = 1
  None = None
SYMMETRY Symmetry
INVARIANTS
  OnlyCurrentPassword
  OneAccountPerWallet
  AcksSurvive
  
PROPERTY
  IntentsOfBoundWallet
