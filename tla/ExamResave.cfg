SPECIFICATION Spec
CONSTANTS
  a = a
  b = b
  c = c
  x = x
  y = y
  Students = {a, b, c}
  Subjects = {s1}
  Enrolled = {a, b}
  Sections = {x}
  SectionOf <- MCSectionOf
  MaxMarks = 1
  Absent = Absent
  EntryBatches <- FewEntryBatches
  RecordBatches <- FewRecordBatches
  Requests = {r1}
INVARIANT RewritesNeverCollide
CHECK_DEADLOCK FALSE
