SPECIFICATION FairSpec
CONSTANTS
  Permissions = {p1, p2}
  Activations = {a1}
  Logins = {l1}
  MaxTokens = 1
  MaxCrashes = 2
INVARIANTS
  TypeOK
  AckedIsProvisioned
  TokensAreFounded
PROPERTIES
  NothingIsUndone
  DeliverySettles
CHECK_DEADLOCK FALSE
