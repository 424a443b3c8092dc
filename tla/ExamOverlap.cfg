SPECIFICATION ExamSpec
CONSTANTS
  a = a
  b = b
  c = c
  x = x
  y = y
  Students = {a, b, c}
  Subjects = {s1, s2}
  Enrolled = {a, b, c}
  Sections = {x}
  SectionOf <- MCSectionOf
  MaxMarks = 2
  Absent = Absent
  EntryBatches <- RankedEntryBatches
  RecordBatches <- FewRecordBatches
  Requests = {r1, r2}
PROPERTIES
  CompetitionRanks
  PublishedFiguresCurrent
CHECK_DEADLOCK FALSE
SYMMETRY RequestSymmetry
