SPECIFICATION Spec
CONSTANTS
  k1 = k1
  k2 = k2
  m1 = m1
  m2 = m2
  Keys = {k1, k2}
  DefaultKeys = {k1, k2}
  Modules = {m1}
  EnabledByDefault = {m1}
  Requests = {r1, r2}
  MaxVersion = 2
  MaxFailures = 2
INVARIANTS
  TypeOK
  VersionsContiguous
  SeededIsComplete
PROPERTIES
  AtMostOneActive
  SeedingKeepsChoices
CHECK_DEADLOCK FALSE
SYMMETRY Interchangeable
