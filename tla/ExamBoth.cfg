SPECIFICATION Spec
CONSTANTS
  a = a
  b = b
  c = c
  x = x
  y = y
  Students = {a, b, c}
  Subjects = {s1}
  Enrolled = {a, b}
  Sections = {x}
  SectionOf <- MCSectionOf
  MaxMarks = 1
  Absent = Absent
  EntryBatches <- FewEntryBatches
  RecordBatches <- FewRecordBatches
  Requests = {r1, r2}
INVARIANTS
  TypeOK
  AggregatesMatchResults
  ResultsAreFounded
PROPERTIES
  MarksAreKept
  PublishedIsImmutable
CHECK_DEADLOCK FALSE
SYMMETRY RequestSymmetry
