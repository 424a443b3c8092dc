SPECIFICATION Spec
CONSTANTS
  k1 = k1
  k2 = k2
  st1 = st1
  st2 = st2
  c1 = c1
  c2 = c2
  Structures = {s1}
  Keys = {k1}
  Students = {st2}
  Classes = {c1, c2}
  Enrolled <- MCEnrolled
  Amounts = {1, 2}
  SeedAmount <- MCSeedAmount
  Null = Null
  Requests = {r1, r2}
  MaxReceived = 3
INVARIANT BooksBalance
CHECK_DEADLOCK FALSE
