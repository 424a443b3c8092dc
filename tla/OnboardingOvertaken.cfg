SPECIFICATION Spec
CONSTANTS
  Permissions = {p1}
  Activations = {a1}
  Logins = {l1}
  MaxTokens = 1
  MaxCrashes = 1
INVARIANTS
  ActivatedAdminsAreActive
CHECK_DEADLOCK FALSE
