CONSTANTS
  r1 = r1
  r2 = r2
  r3 = r3
  Requests = {r1, r2, r3}
  KindsOf <- MCKinds
  Seed = Seed
  AgentRow = AgentRow
  None = None
  Lines = {1, 2}
  MaxTokens = 2
SPECIFICATION Spec
INVARIANT TypeOK
INVARIANT OldPasswordRaced
INVARIANT OneSignup
INVARIANT CatalogueHolds
PROPERTY RevokedStays
CHECK_DEADLOCK FALSE
