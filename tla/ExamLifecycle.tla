--------------------------- MODULE ExamLifecycle ---------------------------
(***************************************************************************)
(* One exam of one class: its subjects, the marks entered for it, its      *)
(* status and the results computed from the marks.  Two services of        *)
(* tenant-service write the same tables: exam.service.ts, which guards     *)
(* them with the status of the exam, and academic.service.ts, which does   *)
(* not look at the status.                                                 *)
(*                                                                         *)
(* As in FeeLedger an action is the code between two database calls of an  *)
(* async handler, and Requests are the handlers in flight.  Transactions   *)
(* run at READ COMMITTED.  The writes of a transaction are one step: they  *)
(* touch overlapping unique keys, so two of them wait for each other.      *)
(*                                                                         *)
(* A row is an element of the domain of its table.  Abstracted: grades and *)
(* GPA (functions of the percentage), class averages and section ranks     *)
(* (functions of the aggregate rows), ONGOING, COMPLETED and CANCELLED     *)
(* (every guard treats them as DRAFT), the audit event that ends every     *)
(* mutation, and the existence checks on students, classes and years.      *)
(***************************************************************************)
EXTENDS Naturals, FiniteSets

CONSTANTS
  Students,
  Subjects,
  Enrolled,     \* the students enrolled in the class of the exam
  Sections,
  SectionOf,    \* the section of each student
  MaxMarks,     \* bound on the marks and maxMarks the requests carry
  Absent,       \* a bulk entry with isAbsent set
  EntryBatches, \* the marks an enterMarks request can carry
  RecordBatches,\* the records a saveBulkMarks request can carry
  Requests      \* handlers that may be in flight at the same time

Marks == 0 .. MaxMarks
Entries == Marks \cup {Absent}

\* f is a table: a function from some of the keys of D to rows in R.
IsTable(f, D, R) == DOMAIN f \subseteq D /\ f \in [DOMAIN f -> R]

ASSUME StudentsAssumption == IsFiniteSet(Students) /\ Enrolled \subseteq Students
ASSUME SubjectsAssumption == IsFiniteSet(Subjects)
ASSUME SectionAssumption == SectionOf \in [Students -> Sections]
ASSUME MaxMarksAssumption == MaxMarks \in Nat
ASSUME AbsentAssumption == Absent \notin Nat
ASSUME BatchesAssumption ==
  /\ \A f \in EntryBatches : IsTable(f, Students, Marks)
  /\ \A f \in RecordBatches : IsTable(f, Students, Entries)

VARIABLES
  exam,         \* Exam.status; "absent" without a row, "deleted" when soft-deleted
  subject,      \* ExamSubject: subject -> [live, maxMarks]
  mark,         \* StudentMark: <<student, subject>> -> [marks, isAbsent]
  locked,       \* ExamSectionLock: the sections whose attendance is locked
  result,       \* StudentExamResult: student -> [total, percentage]
  aggregate,    \* StudentExamAggregate: student -> [total, percentage, rank]
  analytics,    \* SubjectExamAnalytics: subject -> the marks it summarises
  req           \* the handler each request slot is executing

tables == <<exam, subject, mark, locked, result, aggregate, analytics>>
vars == <<exam, subject, mark, locked, result, aggregate, analytics, req>>

Statuses == {"DRAFT", "VERIFIED", "PUBLISHED"}

SubjectRow == [live : BOOLEAN, maxMarks : Marks]
MarkRow == [marks : Marks, isAbsent : BOOLEAN]
ResultRow == [total : Nat, percentage : Nat]
AggregateRow == [total : Nat, percentage : Nat, rank : Nat \ {0}]

(***************************************************************************)
(* What a handler holds in its local variables between two awaits.         *)
(***************************************************************************)
Idle == [op |-> "idle"]

RequestOK(q) ==
  \/ q = Idle
  \/ q \in [op : {"verify", "publish", "conflict"}]
  \/ q \in [op : {"insertSubject"}, subject : Subjects, maxMarks : Marks]
  \/ q \in [op : {"totals", "processTotals"}, outOf : Nat \ {0}]
  \/ /\ q.op = "marks"
     /\ q = [op |-> q.op, subject |-> q.subject, todo |-> q.todo]
     /\ q.subject \in Subjects
     /\ IsTable(q.todo, Students, Marks)
  \/ /\ q.op = "entries"
     /\ q = [op |-> q.op, subject |-> q.subject, maxMarks |-> q.maxMarks,
             todo |-> q.todo]
     /\ q.subject \in Subjects
     /\ q.maxMarks \in Marks
     /\ IsTable(q.todo, Students, Marks)
  \/ /\ q.op \in {"write", "processWrite"}
     /\ q = [op |-> q.op, outOf |-> q.outOf, totals |-> q.totals]
     /\ q.outOf \in Nat \ {0}
     /\ IsTable(q.totals, Students, Nat)
  \/ /\ q.op = "bulk"
     /\ q = [op |-> q.op, subject |-> q.subject, section |-> q.section,
             maxMarks |-> q.maxMarks, records |-> q.records]
     /\ q.subject \in Subjects
     /\ q.section \in Sections
     /\ q.maxMarks \in Marks
     /\ IsTable(q.records, Students, Entries)
  \/ /\ q.op = "bulkWrite"
     /\ q = [op |-> q.op, subject |-> q.subject, records |-> q.records]
     /\ q.subject \in Subjects
     /\ IsTable(q.records, Students, Entries)

-----------------------------------------------------------------------------

NoRows == [k \in {} |-> k]
Row(key, row) == [k \in {key} |-> row]

\* The table with rows inserted, those with the same keys replaced.
Overwrite(rows, table) ==
  [k \in DOMAIN rows \cup DOMAIN table |->
     IF k \in DOMAIN rows THEN rows[k] ELSE table[k]]

Init ==
  /\ exam = "absent"
  /\ subject = NoRows
  /\ mark = NoRows
  /\ locked = {}
  /\ result = NoRows
  /\ aggregate = NoRows
  /\ analytics = NoRows
  /\ req = [r \in Requests |-> Idle]

Continue(r, state) == req' = [req EXCEPT ![r] = state]
Reply(r) == Continue(r, Idle)

Live == exam \in Statuses
LiveSubjects == {s \in DOMAIN subject : subject[s].live}

\* Sums, counted: a mark of n contributes the pairs <<s, 1>> .. <<s, n>>.
Total(st) ==
  Cardinality({p \in Subjects \X (1 .. MaxMarks) :
                 <<st, p[1]>> \in DOMAIN mark
                   /\ p[2] <= mark[<<st, p[1]>>].marks})

TotalMax ==
  Cardinality({p \in Subjects \X (1 .. MaxMarks) :
                 p[1] \in LiveSubjects /\ p[2] <= subject[p[1]].maxMarks})

Marked == {st \in Students : \E s \in Subjects : <<st, s>> \in DOMAIN mark}

\* The marks of one subject, from which its analytics row is computed.
Column(s) ==
  [st \in {x \in Students : <<x, s>> \in DOMAIN mark} |-> mark[<<st, s>>].marks]

\* toFixed(2): hundredths of a percent, rounded half up.
Percentage(total, outOf) == (20000 * total + outOf) \div (2 * outOf)

(***************************************************************************)
(* Exam and ExamSubject                                                    *)
(***************************************************************************)
CreateExam(r, status) ==
  /\ req[r] = Idle
  /\ exam = "absent"                    \* the unique key ignores softDelete
  /\ exam' = status
  /\ UNCHANGED <<subject, mark, locked, result, aggregate, analytics, req>>

\* updateExam writes whatever status the request carries.
UpdateExam(r, status) ==
  /\ req[r] = Idle
  /\ Live
  /\ exam' = status
  /\ UNCHANGED <<subject, mark, locked, result, aggregate, analytics, req>>

DeleteExam(r) ==
  /\ req[r] = Idle
  /\ Live
  /\ exam' = "deleted"
  /\ UNCHANGED <<subject, mark, locked, result, aggregate, analytics, req>>

\* Mutant: the status is not looked at.
AddExamSubjectUnguarded(r, s, maxMarks) ==
  /\ req[r] = Idle
  /\ Live
  /\ Continue(r, [op |-> "insertSubject", subject |-> s,
                  maxMarks |-> maxMarks])
  /\ UNCHANGED tables

AddExamSubject(r, s, maxMarks) ==
  /\ req[r] = Idle
  /\ Live
  /\ exam # "PUBLISHED"
  /\ Continue(r, [op |-> "insertSubject", subject |-> s,
                  maxMarks |-> maxMarks])
  /\ UNCHANGED tables

CreateExamSubject(r, s, maxMarks) ==
  /\ req[r] = Idle
  /\ Live
  /\ Continue(r, [op |-> "insertSubject", subject |-> s,
                  maxMarks |-> maxMarks])
  /\ UNCHANGED tables

InsertExamSubject(r) ==
  /\ req[r].op = "insertSubject"
  /\ subject' = IF req[r].subject \in DOMAIN subject
                  THEN subject          \* P2002
                  ELSE Overwrite(Row(req[r].subject,
                                     [live |-> TRUE,
                                      maxMarks |-> req[r].maxMarks]), subject)
  /\ Reply(r)
  /\ UNCHANGED <<exam, mark, locked, result, aggregate, analytics>>

UpdateExamSubject(r, s, maxMarks) ==
  /\ req[r] = Idle
  /\ s \in LiveSubjects
  /\ subject' = [subject EXCEPT ![s].maxMarks = maxMarks]
  /\ UNCHANGED <<exam, mark, locked, result, aggregate, analytics, req>>

DeleteExamSubject(r, s) ==
  /\ req[r] = Idle
  /\ s \in LiveSubjects
  /\ subject' = [subject EXCEPT ![s].live = FALSE]
  /\ UNCHANGED <<exam, mark, locked, result, aggregate, analytics, req>>

(***************************************************************************)
(* enterMarks: the status is read once, then the maximum, then the entries *)
(* are checked and upserted one by one, outside any transaction.           *)
(***************************************************************************)
\* Mutant: the status is not looked at.
EnterMarksUnguarded(r, s, entries) ==
  /\ req[r] = Idle
  /\ Live
  /\ Continue(r, [op |-> "marks", subject |-> s, todo |-> entries])
  /\ UNCHANGED tables

EnterMarks(r, s, entries) ==
  /\ req[r] = Idle
  /\ Live
  /\ exam # "PUBLISHED"
  /\ Continue(r, [op |-> "marks", subject |-> s, todo |-> entries])
  /\ UNCHANGED tables

ReadMaxMarks(r) ==
  /\ req[r].op = "marks"
  /\ IF req[r].subject \in LiveSubjects
       THEN Continue(r, [op |-> "entries", subject |-> req[r].subject,
                         maxMarks |-> subject[req[r].subject].maxMarks,
                         todo |-> req[r].todo])
       ELSE Reply(r)
  /\ UNCHANGED tables

\* ON CONFLICT DO UPDATE leaves isAbsent as it was.
Upsert(key, marks) ==
  mark' = Overwrite(Row(key, [marks |-> marks,
                              isAbsent |-> /\ key \in DOMAIN mark
                                           /\ mark[key].isAbsent]), mark)

UpsertEntry(r, st) ==
  /\ req[r].op = "entries"
  /\ st \in DOMAIN req[r].todo
  /\ LET rest == DOMAIN req[r].todo \ {st}
         entry == req[r].todo[st]
     IN  IF entry > req[r].maxMarks \/ st \notin Enrolled
           THEN /\ Reply(r)             \* the entries before it stay
                /\ UNCHANGED mark
           ELSE /\ Upsert(<<st, req[r].subject>>, entry)
                /\ Continue(r, [req[r] EXCEPT
                                  !.todo = [x \in rest |-> req[r].todo[x]]])
  /\ UNCHANGED <<exam, subject, locked, result, aggregate, analytics>>

EntriesDone(r) ==
  /\ req[r].op = "entries"
  /\ DOMAIN req[r].todo = {}
  /\ Reply(r)
  /\ UNCHANGED tables

(***************************************************************************)
(* verifyExam: the update does not repeat the check.                       *)
(***************************************************************************)
VerifyExam(r) ==
  /\ req[r] = Idle
  /\ Live
  /\ exam \notin {"PUBLISHED", "VERIFIED"}
  /\ Continue(r, [op |-> "verify"])
  /\ UNCHANGED tables

SetVerified(r) ==
  /\ req[r].op = "verify"
  /\ exam' = IF Live THEN "VERIFIED" ELSE exam
  /\ Reply(r)
  /\ UNCHANGED <<subject, mark, locked, result, aggregate, analytics>>

(***************************************************************************)
(* publishExam: the status is read before the transaction, the subjects    *)
(* and the totals are two reads inside it, and the analytics are a third.  *)
(***************************************************************************)
PublishExam(r) ==
  /\ req[r] = Idle
  /\ exam \in {"VERIFIED", "PUBLISHED"}
  /\ Continue(r, [op |-> "publish"])
  /\ UNCHANGED tables

ReadSubjects(r) ==
  /\ req[r].op = "publish"
  /\ IF TotalMax > 0
       THEN Continue(r, [op |-> "totals", outOf |-> TotalMax])
       ELSE Reply(r)
  /\ UNCHANGED tables

ReadTotals(r) ==
  /\ req[r].op = "totals"
  /\ IF Marked = {}
       THEN Reply(r)
       ELSE Continue(r, [op |-> "write", outOf |-> req[r].outOf,
                         totals |-> [st \in Marked |-> Total(st)]])
  /\ UNCHANGED tables

Results(totals, outOf) ==
  [st \in DOMAIN totals |-> [total |-> totals[st],
                             percentage |-> Percentage(totals[st], outOf)]]

\* Mutant: tied students take the last of their places.
ClassRankLast(rows, st) ==
  Cardinality({x \in DOMAIN rows : rows[x].percentage >= rows[st].percentage})

\* assignClassRank: equal percentages share a rank.
ClassRank(rows, st) ==
  1 + Cardinality({x \in DOMAIN rows : rows[x].percentage > rows[st].percentage})

Ranked(rows, rank) ==
  [st \in DOMAIN rows |-> [total |-> rows[st].total,
                           percentage |-> rows[st].percentage,
                           rank |-> rank[st]]]

\* Mutant: ON CONFLICT DO NOTHING.
WriteResultsOnce(r) ==
  /\ req[r].op = "write"
  /\ LET rows == Results(req[r].totals, req[r].outOf) IN
     /\ result' = Overwrite(result, rows)
     /\ aggregate' = Ranked(rows, [st \in DOMAIN rows |-> ClassRank(rows, st)])
  /\ analytics' = [s \in LiveSubjects |-> Column(s)]
  /\ exam' = IF Live THEN "PUBLISHED" ELSE exam
  /\ Reply(r)
  /\ UNCHANGED <<subject, mark, locked>>

WriteResults(r) ==
  /\ req[r].op = "write"
  /\ LET rows == Results(req[r].totals, req[r].outOf) IN
     /\ result' = Overwrite(rows, result)
     /\ aggregate' = Ranked(rows, [st \in DOMAIN rows |-> ClassRank(rows, st)])
  /\ analytics' = [s \in LiveSubjects |-> Column(s)]
  /\ exam' = IF Live THEN "PUBLISHED" ELSE exam
  /\ Reply(r)
  /\ UNCHANGED <<subject, mark, locked>>

(***************************************************************************)
(* saveBulkMarks.  The soft-delete middleware turns its deleteMany into an *)
(* update, so a row saved before still holds the unique key and createMany *)
(* fails with P2002; the transaction rolls back.                           *)
(***************************************************************************)
SaveBulkMarks(r, s, section, records) ==
  /\ req[r] = Idle
  /\ s \in LiveSubjects
  /\ Continue(r, [op |-> "bulk", subject |-> s, section |-> section,
                  maxMarks |-> subject[s].maxMarks, records |-> records])
  /\ UNCHANGED tables

WasAbsent(st, s) == <<st, s>> \in DOMAIN mark /\ mark[<<st, s>>].isAbsent

ChangesAbsence(records, s) ==
  \E st \in DOMAIN records : (records[st] = Absent) # WasAbsent(st, s)

ExceedsMax(records, maxMarks) ==
  \E st \in DOMAIN records : records[st] # Absent /\ records[st] > maxMarks

CheckBulkMarks(r) ==
  /\ req[r].op = "bulk"
  /\ IF \/ req[r].section \in locked
             /\ ChangesAbsence(req[r].records, req[r].subject)
        \/ ExceedsMax(req[r].records, req[r].maxMarks)
       THEN Reply(r)
       ELSE Continue(r, [op |-> "bulkWrite", subject |-> req[r].subject,
                         records |-> req[r].records])
  /\ UNCHANGED tables

\* Mutant: an absent student's marks are not set to zero.
BulkRowRaw(entry) == [marks |-> entry, isAbsent |-> entry = Absent]

BulkRow(entry) ==
  [marks |-> IF entry = Absent THEN 0 ELSE entry, isAbsent |-> entry = Absent]

\* Mutant: the delete is not rolled back.
WriteBulkMarksHalf(r) ==
  /\ req[r].op = "bulkWrite"
  /\ LET keys == (DOMAIN req[r].records) \X {req[r].subject} IN
     IF keys \cap DOMAIN mark # {}
       THEN /\ Continue(r, [op |-> "conflict"])
            /\ mark' = [k \in DOMAIN mark \ keys |-> mark[k]]
       ELSE /\ mark' = Overwrite([k \in keys |-> BulkRow(req[r].records[k[1]])], mark)
            /\ Reply(r)
  /\ UNCHANGED <<exam, subject, locked, result, aggregate, analytics>>

WriteBulkMarks(r) ==
  /\ req[r].op = "bulkWrite"
  /\ LET keys == (DOMAIN req[r].records) \X {req[r].subject} IN
     IF keys \cap DOMAIN mark # {}
       THEN /\ Continue(r, [op |-> "conflict"])
            /\ UNCHANGED mark
       ELSE /\ mark' = Overwrite([k \in keys |-> BulkRow(req[r].records[k[1]])], mark)
            /\ Reply(r)
  /\ UNCHANGED <<exam, subject, locked, result, aggregate, analytics>>

LockAttendance(r, section) ==
  /\ req[r] = Idle
  /\ Live
  /\ locked' = locked \cup {section}
  /\ UNCHANGED <<exam, subject, mark, result, aggregate, analytics, req>>

(***************************************************************************)
(* processExamResults: for every enrolled student, marks or none; its      *)
(* deleteMany calls meet the same middleware.                              *)
(***************************************************************************)
ProcessExamResults(r) ==
  /\ req[r] = Idle
  /\ Live
  /\ Enrolled # {}
  /\ TotalMax > 0
  /\ Continue(r, [op |-> "processTotals", outOf |-> TotalMax])
  /\ UNCHANGED tables

\* Mutant: students of other classes are not left out.
ReadProcessTotalsAll(r) ==
  /\ req[r].op = "processTotals"
  /\ Continue(r, [op |-> "processWrite", outOf |-> req[r].outOf,
                  totals |-> [st \in Students |-> Total(st)]])
  /\ UNCHANGED tables

ReadProcessTotals(r) ==
  /\ req[r].op = "processTotals"
  /\ Continue(r, [op |-> "processWrite", outOf |-> req[r].outOf,
                  totals |-> [st \in Enrolled |-> Total(st)]])
  /\ UNCHANGED tables

\* The places a descending sort by total can give; equal totals in any order.
Orders(totals) ==
  {rank \in [DOMAIN totals -> 1 .. Cardinality(DOMAIN totals)] :
     \A x, y \in DOMAIN totals : x # y =>
       /\ rank[x] # rank[y]
       /\ totals[x] > totals[y] => rank[x] < rank[y]}

WriteProcessed(r) ==
  /\ req[r].op = "processWrite"
  /\ LET rows == Results(req[r].totals, req[r].outOf) IN
     IF Enrolled \cap (DOMAIN result \cup DOMAIN aggregate) # {}
       THEN /\ Continue(r, [op |-> "conflict"])
            /\ UNCHANGED <<result, aggregate>>
       ELSE /\ result' = Overwrite(rows, result)
            /\ \E rank \in Orders(req[r].totals) :
                 aggregate' = Overwrite(Ranked(rows, rank), aggregate)
            /\ Reply(r)
  /\ UNCHANGED <<exam, subject, mark, locked, analytics>>

\* The unique-key error leaves the handler.
RejectConflict(r) ==
  /\ req[r].op = "conflict"
  /\ Reply(r)
  /\ UNCHANGED tables

\* Any await may reject, and the process may die between two of them.
Fail(r) ==
  /\ req[r] # Idle
  /\ Reply(r)
  /\ UNCHANGED tables

-----------------------------------------------------------------------------

\* exam.service.ts
ExamService(r) ==
  \/ CreateExam(r, "DRAFT")
  \/ \E s \in Subjects, n \in Marks \ {0} : AddExamSubject(r, s, n)
  \/ InsertExamSubject(r)
  \/ \E s \in Subjects, entries \in EntryBatches : EnterMarks(r, s, entries)
  \/ ReadMaxMarks(r)
  \/ \E st \in Students : UpsertEntry(r, st)
  \/ EntriesDone(r)
  \/ VerifyExam(r)
  \/ SetVerified(r)
  \/ PublishExam(r)
  \/ ReadSubjects(r)
  \/ ReadTotals(r)
  \/ WriteResults(r)
  \/ Fail(r)

\* academic.service.ts
AcademicService(r) ==
  \/ \E status \in Statuses : CreateExam(r, status) \/ UpdateExam(r, status)
  \/ DeleteExam(r)
  \/ \E s \in Subjects, n \in Marks :
       CreateExamSubject(r, s, n) \/ UpdateExamSubject(r, s, n)
  \/ \E s \in Subjects : DeleteExamSubject(r, s)
  \/ \E s \in Subjects, section \in Sections,
        records \in RecordBatches :
       SaveBulkMarks(r, s, section, records)
  \/ CheckBulkMarks(r)
  \/ WriteBulkMarks(r)
  \/ \E section \in Sections : LockAttendance(r, section)
  \/ ProcessExamResults(r)
  \/ ReadProcessTotals(r)
  \/ WriteProcessed(r)
  \/ RejectConflict(r)

\* The exam.service handlers alone, and both services over the same tables.
ExamNext == \E r \in Requests : ExamService(r)

ExamSpec == Init /\ [][ExamNext]_vars

Next == \E r \in Requests : ExamService(r) \/ AcademicService(r)

Spec == Init /\ [][Next]_vars

-----------------------------------------------------------------------------
(* Properties *)

TypeOK ==
  /\ exam \in Statuses \cup {"absent", "deleted"}
  /\ IsTable(subject, Subjects, SubjectRow)
  /\ IsTable(mark, Students \X Subjects, MarkRow)
  /\ locked \subseteq Sections
  /\ IsTable(result, Students, ResultRow)
  /\ IsTable(aggregate, Students, AggregateRow)
  /\ DOMAIN analytics \subseteq Subjects
  /\ \A s \in DOMAIN analytics : IsTable(analytics[s], Students, Marks)
  /\ DOMAIN req = Requests
  /\ \A r \in Requests : RequestOK(req[r])

\* The report card and the merit list agree: a student with an aggregate row
\* has a result row with the same total and percentage, whichever service
\* wrote them last and however publishExam and processExamResults overlap.
AggregatesMatchResults ==
  \A st \in DOMAIN aggregate :
    /\ st \in DOMAIN result
    /\ result[st].total = aggregate[st].total
    /\ result[st].percentage = aggregate[st].percentage

\* The merit list is fair to the enrolled students: of two, the one with the
\* better percentage has the better rank (assignClassRank and the sort of
\* processExamResults, interleaved in any way).
EnrolledRanksOrdered ==
  \A x, y \in Enrolled \cap DOMAIN aggregate :
    aggregate[x].percentage > aggregate[y].percentage =>
      aggregate[x].rank < aggregate[y].rank

\* Results are computed for the students of the exam only: those enrolled in
\* its class and those somebody entered marks for.
ResultsAreFounded == DOMAIN result \subseteq Enrolled \cup Marked

\* No request ever loses a mark: a save that fails half way, or that collides
\* with another one, leaves every earlier mark in place.
MarksAreKept == [][DOMAIN mark \subseteq DOMAIN mark']_vars

\* Competition ranking: equal percentages share a rank, and a rank counts the
\* students ahead of it.
CompetitionRanking ==
  \A x \in DOMAIN aggregate :
    LET ahead == {y \in DOMAIN aggregate : aggregate[y].rank < aggregate[x].rank}
    IN  /\ aggregate[x].rank = Cardinality(ahead) + 1
        /\ \A y \in DOMAIN aggregate :
             y \in ahead <=> aggregate[y].percentage > aggregate[x].percentage

\* Whatever rows other publications and processExamResults left behind, the
\* merit list that a publication writes is a competition ranking of all the
\* students on it (assignClassRank and the replacement of the aggregates).
CompetitionRanks ==
  [][\A r \in Requests :
       ExamService(r) /\ aggregate' # aggregate => CompetitionRanking']_vars

\* The status that the handler read of the exam still allows what it is at.
StatusStands(q) ==
  q.op \in {"insertSubject", "marks", "entries", "verify"} => exam # "PUBLISHED"

\* The sums that a publication holds are still those of the tables.
TotalsStand(q) ==
  /\ q.op \in {"totals", "write"} => q.outOf = TotalMax
  /\ q.op = "write" => q.totals = [st \in Marked |-> Total(st)]

\* "Published exam is immutable" (exam.service.ts:172 and :413): no handler of
\* exam.service changes the marks or the subjects of a published exam or takes
\* it back to VERIFIED, whatever the handlers of both services do meanwhile,
\* but for one that was overtaken by a publication after it read the status.
PublishedIsImmutable ==
  [][\A r \in Requests :
       \/ ~ StatusStands(req[r])
       \/ /\ StatusStands(req[r])'
          /\ exam = "PUBLISHED" =>
               mark' = mark /\ subject' = subject /\ exam' = "PUBLISHED"
       \/ ~ ExamService(r)]_vars

\* The results of a published exam are those of its marks: totals,
\* percentages, ranked students and subject analytics alike.
FiguresAreCurrent ==
  exam = "PUBLISHED" =>
    /\ DOMAIN aggregate = Marked
    /\ TotalMax > 0
    /\ \A st \in Marked :
         /\ result[st].total = Total(st)
         /\ result[st].percentage = Percentage(Total(st), TotalMax)
    /\ analytics = [s \in LiveSubjects |-> Column(s)]

\* No handler of exam.service makes the figures of a published exam stale or
\* publishes stale ones, but for one that was overtaken: marks entered on a
\* status that changed, or a publication whose sums changed after it read them.
PublishedFiguresCurrent ==
  [][\A r \in Requests :
       \/ ~ (StatusStands(req[r]) /\ TotalsStand(req[r]))
       \/ /\ (StatusStands(req[r]) /\ TotalsStand(req[r]))'
          /\ FiguresAreCurrent => FiguresAreCurrent'
       \/ ~ ExamService(r)]_vars

\* "Atomic delete + create inside a single transaction" and "wipe stale
\* results + write fresh ones": what was saved before is replaced, so a save
\* that nobody races with never collides with earlier rows.
RewritesNeverCollide == \A r \in Requests : req[r].op # "conflict"
=============================================================================
