SPECIFICATION Spec
CONSTANTS
  k1 = k1
  k2 = k2
  m1 = m1
  m2 = m2
  Keys = {k1}
  DefaultKeys = {}
  Modules = {m1}
  EnabledByDefault = {m1}
  Requests = {r1}
  MaxVersion = 3
  MaxFailures = 0
INVARIANTS
  VersionBumpsAreFree
CHECK_DEADLOCK FALSE
