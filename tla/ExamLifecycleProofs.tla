------------------------ MODULE ExamLifecycleProofs ------------------------
(***************************************************************************)
(* What holds of ExamLifecycle for any students, subjects and handlers.    *)
(***************************************************************************)
EXTENDS ExamLifecycle, FiniteSetTheorems, TLAPS

(***************************************************************************)
(* Tables.                                                                 *)
(***************************************************************************)
LEMMA NoRowsTable == ASSUME NEW D, NEW R PROVE IsTable(NoRows, D, R)
  BY DEF NoRows, IsTable

\* Writing rows over a table leaves a table.
LEMMA OverwriteTable ==
  ASSUME NEW D, NEW R, NEW f, NEW g, IsTable(f, D, R), IsTable(g, D, R)
  PROVE  /\ IsTable(Overwrite(f, g), D, R)
         /\ DOMAIN (Overwrite(f, g)) = DOMAIN f \cup DOMAIN g
         /\ \A k \in DOMAIN f : (Overwrite(f, g))[k] = f[k]
         /\ \A k \in DOMAIN g : k \notin DOMAIN f => (Overwrite(f, g))[k] = g[k]
  BY DEF IsTable, Overwrite

LEMMA OneRowTable ==
  ASSUME NEW D, NEW R, NEW k \in D, NEW v \in R
  PROVE  /\ IsTable(Row(k, v), D, R)
         /\ DOMAIN (Row(k, v)) = {k}
         /\ (Row(k, v))[k] = v
  BY DEF IsTable, Row

(***************************************************************************)
(* The numbers.                                                            *)
(***************************************************************************)
LEMMA CountedSums ==
  /\ \A st : Total(st) \in Nat
  /\ TotalMax \in Nat
<1>1. IsFiniteSet(Subjects \X (1 .. MaxMarks))
  <2>1. IsFiniteSet(1 .. MaxMarks)
    BY FS_Interval, MaxMarksAssumption
  <2> QED BY <2>1, FS_Product, SubjectsAssumption
<1>2. ASSUME NEW S \in SUBSET (Subjects \X (1 .. MaxMarks))
      PROVE  Cardinality(S) \in Nat
  BY <1>1, <1>2, FS_Subset, FS_CardinalityType
<1>3. ASSUME NEW st PROVE Total(st) \in Nat
  BY <1>2 DEF Total
<1>4. TotalMax \in Nat
  BY <1>2 DEF TotalMax
<1> QED BY <1>3, <1>4

LEMMA PercentageNat ==
  ASSUME NEW total \in Nat, NEW outOf \in Nat \ {0}
  PROVE  Percentage(total, outOf) \in Nat
  BY DEF Percentage

LEMMA ResultsTable ==
  ASSUME NEW totals, IsTable(totals, Students, Nat), NEW outOf \in Nat \ {0}
  PROVE  /\ IsTable(Results(totals, outOf), Students, ResultRow)
         /\ DOMAIN Results(totals, outOf) = DOMAIN totals
  BY PercentageNat DEF IsTable, Results, ResultRow

LEMMA RankedTable ==
  ASSUME NEW rows, IsTable(rows, Students, ResultRow),
         NEW rank, \A st \in DOMAIN rows : rank[st] \in Nat \ {0}
  PROVE  /\ IsTable(Ranked(rows, rank), Students, AggregateRow)
         /\ DOMAIN Ranked(rows, rank) = DOMAIN rows
  BY DEF IsTable, Ranked, ResultRow, AggregateRow

LEMMA ClassRankPositive ==
  ASSUME NEW rows, IsTable(rows, Students, ResultRow), NEW st
  PROVE  ClassRank(rows, st) \in Nat \ {0}
<1> DEFINE ahead == {x \in DOMAIN rows : rows[x].percentage > rows[st].percentage}
<1>1. ahead \in SUBSET Students
  BY DEF IsTable
<1>2. Cardinality(ahead) \in Nat
  BY <1>1, FS_Subset, FS_CardinalityType, StudentsAssumption
<1> QED BY <1>2 DEF ClassRank

(***************************************************************************)
(* How a request slot moves, and what its op says about it.                *)
(***************************************************************************)
SlotsOK == DOMAIN req = Requests /\ \A r \in Requests : RequestOK(req[r])

LEMMA ContinueSlot ==
  ASSUME SlotsOK, NEW r \in Requests, NEW state, RequestOK(state),
         Continue(r, state)
  PROVE  SlotsOK'
  BY DEF SlotsOK, Continue

LEMMA ReplySlot ==
  ASSUME SlotsOK, NEW r \in Requests, Reply(r)
  PROVE  SlotsOK'
  BY ContinueSlot DEF Reply, RequestOK

LEMMA RequestByOp ==
  ASSUME NEW q, RequestOK(q)
  PROVE  /\ q.op = "insertSubject" => q.subject \in Subjects /\ q.maxMarks \in Marks
         /\ q.op \in {"totals", "processTotals"} => q.outOf \in Nat \ {0}
         /\ q.op = "marks" => /\ q.subject \in Subjects
                              /\ IsTable(q.todo, Students, Marks)
         /\ q.op = "entries" =>
              /\ q.subject \in Subjects /\ q.maxMarks \in Marks
              /\ IsTable(q.todo, Students, Marks)
              /\ q = [op |-> "entries", subject |-> q.subject,
                      maxMarks |-> q.maxMarks, todo |-> q.todo]
         /\ q.op \in {"write", "processWrite"} =>
              q.outOf \in Nat \ {0} /\ IsTable(q.totals, Students, Nat)
         /\ q.op = "bulk" => /\ q.subject \in Subjects
                             /\ q.maxMarks \in Marks
                             /\ IsTable(q.records, Students, Entries)
         /\ q.op = "bulkWrite" => /\ q.subject \in Subjects
                                  /\ IsTable(q.records, Students, Entries)
  BY DEF RequestOK, Idle

-----------------------------------------------------------------------------
(* Types *)

LEMMA TypeInit == Init => TypeOK
  BY NoRowsTable DEF Init, TypeOK, RequestOK, NoRows

LEMMA TypeNext == TypeOK /\ [Next]_vars => TypeOK'
<1> SUFFICES ASSUME TypeOK, [Next]_vars PROVE TypeOK'
  OBVIOUS
<1>0. SlotsOK
  BY DEF TypeOK, SlotsOK
<1>1. CASE UNCHANGED vars
  BY <1>1 DEF vars, TypeOK
<1>2. ASSUME NEW r \in Requests, UNCHANGED tables, SlotsOK' PROVE TypeOK'
  BY <1>2 DEF TypeOK, tables, SlotsOK
\* The status, the subjects and the locks.
<1>3. ASSUME NEW r \in Requests, NEW status \in Statuses,
             CreateExam(r, status) \/ UpdateExam(r, status)
      PROVE  TypeOK'
  BY <1>3 DEF CreateExam, UpdateExam, TypeOK
<1>4. ASSUME NEW r \in Requests, DeleteExam(r) PROVE TypeOK'
  BY <1>4 DEF DeleteExam, TypeOK
<1>5. ASSUME NEW r \in Requests, NEW s \in Subjects, NEW n \in Marks,
             AddExamSubject(r, s, n) \/ CreateExamSubject(r, s, n)
      PROVE  TypeOK'
  <2>1. RequestOK([op |-> "insertSubject", subject |-> s, maxMarks |-> n])
    BY DEF RequestOK
  <2>2. SlotsOK'
    BY <1>5, <2>1, <1>0, ContinueSlot DEF AddExamSubject, CreateExamSubject
  <2> QED BY <1>5, <2>2, <1>2 DEF AddExamSubject, CreateExamSubject
<1>6. ASSUME NEW r \in Requests, InsertExamSubject(r) PROVE TypeOK'
  <2>1. SlotsOK'
    BY <1>6, <1>0, ReplySlot DEF InsertExamSubject
  <2> DEFINE s == req[r].subject
             row == [live |-> TRUE, maxMarks |-> req[r].maxMarks]
  <2>2. s \in Subjects /\ row \in SubjectRow
    BY <1>6, <1>0, RequestByOp DEF InsertExamSubject, SlotsOK, SubjectRow
  <2>3. IsTable(Row(s, row), Subjects, SubjectRow)
    BY <2>2, OneRowTable
  <2>4. IsTable(subject', Subjects, SubjectRow)
    <3>1. IsTable(subject, Subjects, SubjectRow)
      BY DEF TypeOK
    <3>2. IsTable(Overwrite(Row(s, row), subject), Subjects, SubjectRow)
      BY <2>3, <3>1, OverwriteTable
    <3> QED BY <1>6, <3>1, <3>2 DEF InsertExamSubject
  <2> QED BY <1>6, <2>1, <2>4 DEF InsertExamSubject, TypeOK, SlotsOK
<1>7. ASSUME NEW r \in Requests, NEW s \in Subjects, NEW n \in Marks,
             UpdateExamSubject(r, s, n)
      PROVE  TypeOK'
  <2>1. IsTable(subject', Subjects, SubjectRow)
    BY <1>7 DEF UpdateExamSubject, TypeOK, IsTable, SubjectRow, LiveSubjects
  <2> QED BY <1>7, <2>1 DEF UpdateExamSubject, TypeOK
<1>8. ASSUME NEW r \in Requests, NEW s \in Subjects, DeleteExamSubject(r, s)
      PROVE  TypeOK'
  <2>1. IsTable(subject', Subjects, SubjectRow)
    BY <1>8 DEF DeleteExamSubject, TypeOK, IsTable, SubjectRow, LiveSubjects
  <2> QED BY <1>8, <2>1 DEF DeleteExamSubject, TypeOK
<1>9. ASSUME NEW r \in Requests, NEW section \in Sections,
             LockAttendance(r, section)
      PROVE  TypeOK'
  BY <1>9 DEF LockAttendance, TypeOK
\* Steps that only move the handler.
<1>10. ASSUME NEW r \in Requests, NEW s \in Subjects,
              NEW entries \in EntryBatches, EnterMarks(r, s, entries)
       PROVE  TypeOK'
  <2>1. RequestOK([op |-> "marks", subject |-> s, todo |-> entries])
    BY BatchesAssumption DEF RequestOK
  <2> QED BY <1>10, <2>1, <1>0, <1>2, ContinueSlot DEF EnterMarks
<1>11. ASSUME NEW r \in Requests, ReadMaxMarks(r) PROVE TypeOK'
  <2>1. /\ req[r].subject \in Subjects
        /\ IsTable(req[r].todo, Students, Marks)
    BY <1>11, <1>0, RequestByOp DEF ReadMaxMarks, SlotsOK
  <2>2. ASSUME req[r].subject \in LiveSubjects
        PROVE  subject[req[r].subject].maxMarks \in Marks
    BY <2>2 DEF LiveSubjects, TypeOK, IsTable, SubjectRow
  <2>3. ASSUME req[r].subject \in LiveSubjects
        PROVE  RequestOK([op |-> "entries", subject |-> req[r].subject,
                          maxMarks |-> subject[req[r].subject].maxMarks,
                          todo |-> req[r].todo])
    BY <2>1, <2>2, <2>3 DEF RequestOK
  <2> QED BY <1>11, <2>3, <1>0, <1>2, ContinueSlot, ReplySlot DEF ReadMaxMarks
<1>12. ASSUME NEW r \in Requests,
              \/ EntriesDone(r) \/ Fail(r) \/ RejectConflict(r)
       PROVE  TypeOK'
  BY <1>12, <1>0, <1>2, ReplySlot DEF EntriesDone, Fail, RejectConflict
<1>13. ASSUME NEW r \in Requests, VerifyExam(r) \/ PublishExam(r) PROVE TypeOK'
  <2>1. RequestOK([op |-> "verify"]) /\ RequestOK([op |-> "publish"])
    BY DEF RequestOK
  <2> QED BY <1>13, <2>1, <1>0, <1>2, ContinueSlot DEF VerifyExam, PublishExam
<1>14. ASSUME NEW r \in Requests, ReadSubjects(r) \/ ProcessExamResults(r)
       PROVE  TypeOK'
  <2>1. ASSUME TotalMax > 0
        PROVE  /\ RequestOK([op |-> "totals", outOf |-> TotalMax])
               /\ RequestOK([op |-> "processTotals", outOf |-> TotalMax])
    BY <2>1, CountedSums DEF RequestOK
  <2>2. SlotsOK'
    BY <1>14, <2>1, <1>0, ContinueSlot, ReplySlot
    DEF ReadSubjects, ProcessExamResults
  <2> QED BY <1>14, <2>2, <1>2 DEF ReadSubjects, ProcessExamResults
<1>15. ASSUME NEW r \in Requests, ReadTotals(r) \/ ReadProcessTotals(r)
       PROVE  TypeOK'
  <2>1. req[r].outOf \in Nat \ {0}
    BY <1>15, <1>0, RequestByOp DEF ReadTotals, ReadProcessTotals, SlotsOK
  <2>2. ASSUME NEW S \in SUBSET Students
        PROVE  IsTable([st \in S |-> Total(st)], Students, Nat)
    BY CountedSums DEF IsTable
  <2>3. ASSUME NEW S \in SUBSET Students, NEW op \in {"write", "processWrite"}
        PROVE  RequestOK([op |-> op, outOf |-> req[r].outOf,
                          totals |-> [st \in S |-> Total(st)]])
    BY <2>1, <2>2 DEF RequestOK
  <2>4. Marked \in SUBSET Students /\ Enrolled \in SUBSET Students
    BY StudentsAssumption DEF Marked
  <2>5. SlotsOK'
    BY <1>15, <2>3, <2>4, <1>0, ContinueSlot, ReplySlot
    DEF ReadTotals, ReadProcessTotals
  <2> QED BY <1>15, <2>5, <1>2 DEF ReadTotals, ReadProcessTotals
<1>16. ASSUME NEW r \in Requests, NEW s \in Subjects, NEW section \in Sections,
              NEW records \in RecordBatches, SaveBulkMarks(r, s, section, records)
       PROVE  TypeOK'
  <2>1. subject[s].maxMarks \in Marks
    BY <1>16 DEF SaveBulkMarks, LiveSubjects, TypeOK, IsTable, SubjectRow
  <2>2. RequestOK([op |-> "bulk", subject |-> s, section |-> section,
                   maxMarks |-> subject[s].maxMarks, records |-> records])
    BY <2>1, BatchesAssumption DEF RequestOK
  <2> QED BY <1>16, <2>2, <1>0, <1>2, ContinueSlot DEF SaveBulkMarks
<1>17. ASSUME NEW r \in Requests, CheckBulkMarks(r) PROVE TypeOK'
  <2>1. RequestOK([op |-> "bulkWrite", subject |-> req[r].subject,
                   records |-> req[r].records])
    BY <1>17, <1>0, RequestByOp DEF CheckBulkMarks, SlotsOK, RequestOK
  <2>2. SlotsOK'
    BY <1>17, <2>1, <1>0, ContinueSlot, ReplySlot DEF CheckBulkMarks
  <2> QED BY <1>17, <2>2, <1>2 DEF CheckBulkMarks
\* Steps that write marks, the status and the results.
<1>18. ASSUME NEW r \in Requests, NEW st \in Students, UpsertEntry(r, st)
       PROVE  TypeOK'
  <2> DEFINE q == req[r]
             rest == [x \in (DOMAIN q.todo) \ {st} |-> q.todo[x]]
  <2>1. /\ q.subject \in Subjects /\ q.maxMarks \in Marks
        /\ IsTable(q.todo, Students, Marks)
        /\ q = [op |-> "entries", subject |-> q.subject,
                maxMarks |-> q.maxMarks, todo |-> q.todo]
    BY <1>18, <1>0, RequestByOp DEF UpsertEntry, SlotsOK
  <2>2. IsTable(rest, Students, Marks) /\ q.todo[st] \in Marks
    BY <1>18, <2>1 DEF IsTable, UpsertEntry
  <2>3. RequestOK([op |-> "entries", subject |-> q.subject,
                   maxMarks |-> q.maxMarks, todo |-> rest])
    BY <2>1, <2>2 DEF RequestOK
  <2>4. [q EXCEPT !.todo = rest] = [op |-> "entries", subject |-> q.subject,
                                    maxMarks |-> q.maxMarks, todo |-> rest]
    BY <2>1
  <2>5. SlotsOK'
    BY <1>18, <2>3, <2>4, <1>0, ContinueSlot, ReplySlot DEF UpsertEntry
  <2> DEFINE key == <<st, q.subject>>
             row == [marks |-> q.todo[st],
                     isAbsent |-> key \in DOMAIN mark /\ mark[key].isAbsent]
  <2>6. IsTable(mark, Students \X Subjects, MarkRow)
    BY DEF TypeOK
  <2>7. key \in Students \X Subjects /\ row \in MarkRow
    BY <2>1, <2>2, <2>6 DEF MarkRow, IsTable
  <2>8. IsTable(Overwrite(Row(key, row), mark), Students \X Subjects, MarkRow)
    BY <2>6, <2>7, OneRowTable, OverwriteTable
  <2>9. IsTable(mark', Students \X Subjects, MarkRow)
    BY <1>18, <2>6, <2>8 DEF UpsertEntry, Upsert
  <2> QED BY <1>18, <2>5, <2>9 DEF UpsertEntry, TypeOK, SlotsOK
<1>19. ASSUME NEW r \in Requests, SetVerified(r) PROVE TypeOK'
  <2>1. SlotsOK'
    BY <1>19, <1>0, ReplySlot DEF SetVerified
  <2> QED BY <1>19, <2>1 DEF SetVerified, TypeOK, SlotsOK, Statuses
<1>20. ASSUME NEW r \in Requests, WriteResults(r) PROVE TypeOK'
  <2> DEFINE rows == Results(req[r].totals, req[r].outOf)
             rank == [st \in DOMAIN rows |-> ClassRank(rows, st)]
  <2>1. IsTable(rows, Students, ResultRow)
    BY <1>20, <1>0, RequestByOp, ResultsTable DEF WriteResults, SlotsOK
  <2>2. IsTable(result', Students, ResultRow)
    BY <1>20, <2>1, OverwriteTable DEF WriteResults, TypeOK
  <2>3. \A st \in DOMAIN rows : rank[st] \in Nat \ {0}
    BY <2>1, ClassRankPositive
  <2>4. IsTable(aggregate', Students, AggregateRow)
    <3> HIDE DEF rank
    <3>1. IsTable(Ranked(rows, rank), Students, AggregateRow)
      BY <2>1, <2>3, RankedTable
    <3> QED BY <1>20, <3>1 DEF WriteResults, rank
  <2>5. ASSUME NEW s \in Subjects PROVE IsTable(Column(s), Students, Marks)
    BY <2>5 DEF Column, IsTable, TypeOK, MarkRow
  <2>6. /\ DOMAIN analytics' \subseteq Subjects
        /\ \A s \in DOMAIN analytics' : IsTable(analytics'[s], Students, Marks)
    BY <1>20, <2>5 DEF WriteResults, LiveSubjects, TypeOK, IsTable
  <2>7. SlotsOK'
    BY <1>20, <1>0, ReplySlot DEF WriteResults
  <2>8. exam' \in Statuses \cup {"absent", "deleted"}
    BY <1>20 DEF WriteResults, TypeOK, Statuses
  <2> QED BY <1>20, <2>2, <2>4, <2>6, <2>7, <2>8 DEF WriteResults, TypeOK, SlotsOK
<1>21. ASSUME NEW r \in Requests, WriteBulkMarks(r) PROVE TypeOK'
  <2> DEFINE q == req[r]
             keys == (DOMAIN q.records) \X {q.subject}
             rows == [k \in keys |-> BulkRow(q.records[k[1]])]
  <2>1. q.subject \in Subjects /\ IsTable(q.records, Students, Entries)
    BY <1>21, <1>0, RequestByOp DEF WriteBulkMarks, SlotsOK
  <2>2. ASSUME NEW entry \in Entries PROVE BulkRow(entry) \in MarkRow
    BY MaxMarksAssumption DEF BulkRow, MarkRow, Entries, Marks
  <2>3. IsTable(rows, Students \X Subjects, MarkRow)
    BY <2>1, <2>2 DEF IsTable
  <2>4. IsTable(mark', Students \X Subjects, MarkRow)
    <3>1. IsTable(mark, Students \X Subjects, MarkRow)
      BY DEF TypeOK
    <3>2. IsTable(Overwrite(rows, mark), Students \X Subjects, MarkRow)
      BY <3>1, <2>3, OverwriteTable
    <3> QED BY <1>21, <3>1, <3>2 DEF WriteBulkMarks
  <2>5. RequestOK([op |-> "conflict"])
    BY DEF RequestOK
  <2>6. SlotsOK'
    BY <1>21, <2>5, <1>0, ContinueSlot, ReplySlot DEF WriteBulkMarks
  <2> QED BY <1>21, <2>4, <2>6 DEF WriteBulkMarks, TypeOK, SlotsOK
<1>22. ASSUME NEW r \in Requests, WriteProcessed(r) PROVE TypeOK'
  <2> DEFINE rows == Results(req[r].totals, req[r].outOf)
  <2>1. /\ IsTable(rows, Students, ResultRow)
        /\ DOMAIN rows = DOMAIN req[r].totals
    BY <1>22, <1>0, RequestByOp, ResultsTable DEF WriteProcessed, SlotsOK
  <2>2. RequestOK([op |-> "conflict"])
    BY DEF RequestOK
  <2>3. SlotsOK'
    BY <1>22, <2>2, <1>0, ContinueSlot, ReplySlot DEF WriteProcessed
  <2>4. IsTable(result, Students, ResultRow) /\ IsTable(aggregate, Students, AggregateRow)
    BY DEF TypeOK
  <2>5. CASE UNCHANGED <<result, aggregate>>
    BY <1>22, <2>3, <2>5 DEF WriteProcessed, TypeOK, SlotsOK
  <2>6. CASE ~ UNCHANGED <<result, aggregate>>
    <3> HIDE DEF rows
    <3>1. PICK rank \in Orders(req[r].totals) :
            /\ aggregate' = Overwrite(Ranked(rows, rank), aggregate)
            /\ result' = Overwrite(rows, result)
      BY <1>22, <2>6 DEF WriteProcessed, rows
    <3>2. \A st \in DOMAIN rows : rank[st] \in Nat \ {0}
      BY <2>1, <3>1 DEF Orders
    <3>3. IsTable(Ranked(rows, rank), Students, AggregateRow)
      BY <2>1, <3>2, RankedTable
    <3>4. /\ IsTable(aggregate', Students, AggregateRow)
          /\ IsTable(result', Students, ResultRow)
      BY <2>1, <2>4, <3>1, <3>3, OverwriteTable
    <3> QED BY <1>22, <2>3, <3>4 DEF WriteProcessed, TypeOK, SlotsOK
  <2> QED BY <2>5, <2>6
<1> QED
  BY <1>1, <1>3, <1>4, <1>5, <1>6, <1>7, <1>8, <1>9, <1>10, <1>11, <1>12,
     <1>13, <1>14, <1>15, <1>16, <1>17, <1>18, <1>19, <1>20, <1>21, <1>22
  DEF Next, ExamService, AcademicService, Statuses

THEOREM TypeCorrect == Spec => []TypeOK
  BY TypeInit, TypeNext, PTL DEF Spec

-----------------------------------------------------------------------------
(* Marks *)

LEMMA MarksGrow == TypeOK /\ [Next]_vars => DOMAIN mark \subseteq DOMAIN mark'
<1> SUFFICES ASSUME TypeOK, [Next]_vars PROVE DOMAIN mark \subseteq DOMAIN mark'
  OBVIOUS
<1>1. CASE mark' = mark
  BY <1>1
<1>2. ASSUME NEW r \in Requests, NEW st \in Students, UpsertEntry(r, st)
      PROVE  DOMAIN mark \subseteq DOMAIN mark'
  BY <1>2 DEF UpsertEntry, Upsert, Overwrite
<1>3. ASSUME NEW r \in Requests, WriteBulkMarks(r)
      PROVE  DOMAIN mark \subseteq DOMAIN mark'
  BY <1>3 DEF WriteBulkMarks, Overwrite
<1> QED
  BY <1>1, <1>2, <1>3
  DEF Next, ExamService, AcademicService, vars, tables, CreateExam, UpdateExam,
      DeleteExam, AddExamSubject, CreateExamSubject, InsertExamSubject,
      UpdateExamSubject, DeleteExamSubject, EnterMarks, ReadMaxMarks,
      EntriesDone, VerifyExam, SetVerified, PublishExam, ReadSubjects,
      ReadTotals, WriteResults, SaveBulkMarks, CheckBulkMarks, LockAttendance,
      ProcessExamResults, ReadProcessTotals, WriteProcessed, RejectConflict, Fail

\* No request loses a mark.
THEOREM MarksKept == Spec => MarksAreKept
<1>1. TypeOK /\ [Next]_vars => [DOMAIN mark \subseteq DOMAIN mark']_vars
  BY MarksGrow
<1> QED BY <1>1, TypeCorrect, PTL DEF Spec, MarksAreKept

-----------------------------------------------------------------------------
(* Results and the merit list *)

(***************************************************************************)
(* The inductive invariant: what a computation in flight will write is     *)
(* about the right students.                                               *)
(***************************************************************************)
InFlight ==
  \A r \in Requests :
    /\ req[r].op = "write" => DOMAIN req[r].totals \subseteq Marked
    /\ req[r].op = "processWrite" => DOMAIN req[r].totals = Enrolled

ResultsInv == /\ TypeOK
              /\ InFlight
              /\ ResultsAreFounded
              /\ AggregatesMatchResults
              /\ EnrolledRanksOrdered

\* A handler's step that writes no results and prepares none.
Quiet(r) ==
  /\ UNCHANGED <<result, aggregate>>
  /\ \/ UNCHANGED req
     \/ \E state : Continue(r, state) /\ state.op \notin {"write", "processWrite"}

LEMMA QuietSteps ==
  ASSUME TypeOK, NEW r \in Requests, ExamService(r) \/ AcademicService(r)
  PROVE  Quiet(r) \/ ReadTotals(r) \/ WriteResults(r) \/ ReadProcessTotals(r)
           \/ WriteProcessed(r)
<1>1. Idle.op \notin {"write", "processWrite"}
  BY DEF Idle
<1>2. ASSUME UNCHANGED <<result, aggregate>>, Reply(r) PROVE Quiet(r)
  BY <1>1, <1>2 DEF Reply, Quiet
<1>3. ASSUME UNCHANGED <<result, aggregate>>, NEW state, Continue(r, state),
             state.op \notin {"write", "processWrite"}
      PROVE  Quiet(r)
  BY <1>3 DEF Quiet
<1>4. ASSUME UNCHANGED <<result, aggregate, req>> PROVE Quiet(r)
  BY <1>4 DEF Quiet
<1>5. ASSUME NEW status \in Statuses, CreateExam(r, status) \/ UpdateExam(r, status)
      PROVE Quiet(r)
  BY <1>4, <1>5 DEF CreateExam, UpdateExam
<1>6. ASSUME DeleteExam(r) PROVE Quiet(r)
  BY <1>4, <1>6 DEF DeleteExam
<1>7. ASSUME NEW s, NEW n, AddExamSubject(r, s, n) \/ CreateExamSubject(r, s, n)
      PROVE Quiet(r)
  BY <1>3, <1>7 DEF AddExamSubject, CreateExamSubject, tables
<1>8. ASSUME InsertExamSubject(r) PROVE Quiet(r)
  BY <1>2, <1>8 DEF InsertExamSubject
<1>9. ASSUME NEW s, NEW n, UpdateExamSubject(r, s, n) \/ DeleteExamSubject(r, s)
      PROVE Quiet(r)
  BY <1>4, <1>9 DEF UpdateExamSubject, DeleteExamSubject
<1>10. ASSUME NEW s, NEW entries, EnterMarks(r, s, entries) PROVE Quiet(r)
  BY <1>3, <1>10 DEF EnterMarks, tables
<1>11. ASSUME ReadMaxMarks(r) PROVE Quiet(r)
  BY <1>2, <1>3, <1>11 DEF ReadMaxMarks, tables
<1>12. ASSUME NEW st \in Students, UpsertEntry(r, st) PROVE Quiet(r)
  <2>1. req[r] = [op |-> "entries", subject |-> req[r].subject,
                  maxMarks |-> req[r].maxMarks, todo |-> req[r].todo]
    BY <1>12, RequestByOp DEF UpsertEntry, TypeOK
  <2>2. \A rest : [req[r] EXCEPT !.todo = rest].op = "entries"
    BY <2>1
  <2> QED BY <1>2, <1>3, <1>12, <2>2 DEF UpsertEntry
<1>13. ASSUME EntriesDone(r) \/ Fail(r) \/ RejectConflict(r) PROVE Quiet(r)
  BY <1>2, <1>13 DEF EntriesDone, Fail, RejectConflict, tables
<1>14. ASSUME VerifyExam(r) \/ PublishExam(r) PROVE Quiet(r)
  BY <1>3, <1>14 DEF VerifyExam, PublishExam, tables
<1>15. ASSUME SetVerified(r) PROVE Quiet(r)
  BY <1>2, <1>15 DEF SetVerified
<1>16. ASSUME ReadSubjects(r) \/ ProcessExamResults(r) PROVE Quiet(r)
  BY <1>2, <1>3, <1>16 DEF ReadSubjects, ProcessExamResults, tables
<1>17. ASSUME NEW s, NEW section, NEW records, SaveBulkMarks(r, s, section, records)
       PROVE Quiet(r)
  BY <1>3, <1>17 DEF SaveBulkMarks, tables
<1>18. ASSUME CheckBulkMarks(r) PROVE Quiet(r)
  BY <1>2, <1>3, <1>18 DEF CheckBulkMarks, tables
<1>19. ASSUME WriteBulkMarks(r) PROVE Quiet(r)
  BY <1>2, <1>3, <1>19 DEF WriteBulkMarks
<1>20. ASSUME NEW section, LockAttendance(r, section) PROVE Quiet(r)
  BY <1>4, <1>20 DEF LockAttendance
<1> QED
  BY <1>5, <1>6, <1>7, <1>8, <1>9, <1>10, <1>11, <1>12, <1>13, <1>14, <1>15,
     <1>16, <1>17, <1>18, <1>19, <1>20
  DEF ExamService, AcademicService, Statuses

LEMMA MarkedGrows ==
  ASSUME DOMAIN mark \subseteq DOMAIN mark'
  PROVE  Marked \subseteq Marked'
  BY DEF Marked

\* A slot that holds no totals, or the right ones, keeps InFlight.
LEMMA InFlightStep ==
  ASSUME TypeOK, InFlight, Marked \subseteq Marked',
         NEW r \in Requests, NEW state, Continue(r, state),
         state.op = "write" => DOMAIN state.totals \subseteq Marked,
         state.op = "processWrite" => DOMAIN state.totals = Enrolled
  PROVE  InFlight'
  BY DEF InFlight, Continue, TypeOK

LEMMA ResultsInit == Init => ResultsInv
  BY TypeInit
  DEF Init, ResultsInv, InFlight, ResultsAreFounded, AggregatesMatchResults,
      EnrolledRanksOrdered, NoRows, Idle

\* Equal order of totals and of percentages, whatever the rounding.
LEMMA DivisionMonotone ==
  ASSUME NEW m \in Nat, NEW n \in Nat, NEW d \in Nat \ {0}, m <= n
  PROVE  m \div d <= n \div d
<1> DEFINE q == m \div d
           p == n \div d
<1>1. q \in Nat /\ p \in Nat
  OBVIOUS
<1>2. d * q <= m /\ n < d * (p + 1)
  OBVIOUS
<1>3. ASSUME q >= p + 1 PROVE d * q >= d * (p + 1)
  BY <1>1, <1>3
<1> QED BY <1>1, <1>2, <1>3

LEMMA PercentageMonotone ==
  ASSUME NEW m \in Nat, NEW n \in Nat, NEW outOf \in Nat \ {0}, m <= n
  PROVE  Percentage(m, outOf) <= Percentage(n, outOf)
<1>1. 2 * outOf \in Nat \ {0}
  OBVIOUS
<1>2. /\ 20000 * m + outOf \in Nat
      /\ 20000 * n + outOf \in Nat
      /\ 20000 * m + outOf <= 20000 * n + outOf
  OBVIOUS
<1> QED BY <1>1, <1>2, DivisionMonotone DEF Percentage

\* Fewer students are ahead of the better of two students.
LEMMA ClassRankOrdered ==
  ASSUME NEW rows, IsTable(rows, Students, ResultRow),
         NEW x \in DOMAIN rows, NEW y \in DOMAIN rows
  PROVE  ClassRank(rows, x) < ClassRank(rows, y)
           <=> rows[x].percentage > rows[y].percentage
<1> DEFINE ahead(st) ==
             {z \in DOMAIN rows : rows[z].percentage > rows[st].percentage}
<1>1. \A z \in DOMAIN rows : rows[z].percentage \in Nat
  BY DEF IsTable, ResultRow
<1>2. IsFiniteSet(DOMAIN rows)
  BY FS_Subset, StudentsAssumption DEF IsTable
<1>3. /\ IsFiniteSet(ahead(x)) /\ Cardinality(ahead(x)) \in Nat
      /\ IsFiniteSet(ahead(y)) /\ Cardinality(ahead(y)) \in Nat
  BY <1>2, FS_Subset, FS_CardinalityType
<1>4. CASE rows[x].percentage > rows[y].percentage
  <2>1. ahead(x) \in SUBSET ahead(y)
    BY <1>1, <1>4
  <2>2. x \in ahead(y) /\ x \notin ahead(x)
    BY <1>1, <1>4
  <2>3. Cardinality(ahead(x)) < Cardinality(ahead(y))
    <3> HIDE DEF ahead
    <3>1. /\ Cardinality(ahead(x)) <= Cardinality(ahead(y))
          /\ Cardinality(ahead(y)) = Cardinality(ahead(x)) => ahead(y) = ahead(x)
      BY <1>3, <2>1, FS_Subset
    <3> QED BY <1>3, <2>2, <3>1
  <2> QED BY <1>3, <1>4, <2>3 DEF ClassRank
<1>5. CASE ~ (rows[x].percentage > rows[y].percentage)
  <2>1. ahead(y) \in SUBSET ahead(x)
    BY <1>1, <1>5
  <2>2. Cardinality(ahead(y)) <= Cardinality(ahead(x))
    <3> HIDE DEF ahead
    <3> QED BY <1>3, <2>1, FS_Subset
  <2> QED BY <1>3, <1>5, <2>2 DEF ClassRank
<1> QED BY <1>4, <1>5

\* One step: quiet, preparing a computation, or writing one.
LEMMA ResultsNext == ResultsInv /\ [Next]_vars => ResultsInv'
<1> SUFFICES ASSUME ResultsInv, [Next]_vars PROVE ResultsInv'
  OBVIOUS
<1>1. TypeOK /\ TypeOK'
  BY TypeNext DEF ResultsInv
<1>2. Marked \subseteq Marked'
  BY <1>1, MarksGrow, MarkedGrows
<1>3. ASSUME InFlight', UNCHANGED <<result, aggregate>> PROVE ResultsInv'
  BY <1>1, <1>2, <1>3
  DEF ResultsInv, ResultsAreFounded, AggregatesMatchResults, EnrolledRanksOrdered
<1>4. CASE UNCHANGED vars
  <2>1. InFlight'
    BY <1>4, <1>2 DEF ResultsInv, InFlight, vars
  <2> QED BY <1>4, <2>1, <1>3 DEF vars
<1>5. ASSUME NEW r \in Requests, Quiet(r) PROVE ResultsInv'
  <2>1. CASE UNCHANGED req
    <3>1. InFlight'
      BY <2>1, <1>2 DEF ResultsInv, InFlight
    <3> QED BY <1>5, <3>1, <1>3 DEF Quiet
  <2>2. ASSUME NEW state, Continue(r, state),
               state.op \notin {"write", "processWrite"}
        PROVE  ResultsInv'
    <3>1. InFlight'
      BY <1>1, <1>2, <2>2, InFlightStep DEF ResultsInv
    <3> QED BY <1>5, <3>1, <1>3 DEF Quiet
  <2> QED BY <1>5, <2>1, <2>2 DEF Quiet
<1>6. ASSUME NEW r \in Requests, NEW state, Continue(r, state), state = Idle
      PROVE  InFlight'
  <2>1. state.op = "idle"
    BY <1>6 DEF Idle
  <2> QED BY <1>1, <1>2, <1>6, <2>1, InFlightStep DEF ResultsInv
<1>7. ASSUME NEW r \in Requests, ReadTotals(r) PROVE ResultsInv'
  <2> DEFINE state == [op |-> "write", outOf |-> req[r].outOf,
                       totals |-> [st \in Marked |-> Total(st)]]
  <2>1. /\ state.op = "write"
        /\ DOMAIN state.totals \subseteq Marked
    OBVIOUS
  <2>2. CASE Continue(r, state)
    <3> HIDE DEF state
    <3>1. InFlight'
      BY <1>1, <1>2, <2>1, <2>2, InFlightStep DEF ResultsInv
    <3> QED BY <1>3, <1>7, <3>1 DEF ReadTotals, tables
  <2>3. CASE Reply(r)
    BY <1>3, <1>6, <1>7, <2>3 DEF ReadTotals, tables, Reply
  <2> QED BY <1>7, <2>2, <2>3 DEF ReadTotals
<1>8. ASSUME NEW r \in Requests, ReadProcessTotals(r) PROVE ResultsInv'
  <2> DEFINE state == [op |-> "processWrite", outOf |-> req[r].outOf,
                       totals |-> [st \in Enrolled |-> Total(st)]]
  <2>1. /\ state.op = "processWrite"
        /\ DOMAIN state.totals = Enrolled
    OBVIOUS
  <2>2. Continue(r, state)
    BY <1>8 DEF ReadProcessTotals
  <2>3. InFlight'
    <3> HIDE DEF state
    <3> QED BY <1>1, <1>2, <2>1, <2>2, InFlightStep DEF ResultsInv
  <2> QED BY <1>3, <1>8, <2>3 DEF ReadProcessTotals, tables
<1>9. ASSUME NEW r \in Requests, WriteResults(r) PROVE ResultsInv'
  <2> DEFINE rows == Results(req[r].totals, req[r].outOf)
             rank == [st \in DOMAIN rows |-> ClassRank(rows, st)]
  <2>1. InFlight'
    BY <1>6, <1>9 DEF WriteResults, Reply
  <2>2. /\ IsTable(rows, Students, ResultRow)
        /\ DOMAIN rows = DOMAIN req[r].totals
    BY <1>1, <1>9, RequestByOp, ResultsTable DEF WriteResults, TypeOK
  <2>3. DOMAIN rows \subseteq Marked
    BY <1>9, <2>2 DEF WriteResults, ResultsInv, InFlight
  <2>4. result' = Overwrite(rows, result) /\ aggregate' = Ranked(rows, rank)
    BY <1>9 DEF WriteResults
  <2>5. \A st \in DOMAIN rows : rank[st] = ClassRank(rows, st)
    OBVIOUS
  <2> HIDE DEF rows, rank
  <2>6. ResultsAreFounded'
    BY <1>2, <2>3, <2>4 DEF Overwrite, ResultsInv, ResultsAreFounded
  <2>7. AggregatesMatchResults'
    BY <2>4 DEF Overwrite, Ranked, AggregatesMatchResults
  <2>8. EnrolledRanksOrdered'
    BY <2>2, <2>4, <2>5, ClassRankOrdered DEF Ranked, EnrolledRanksOrdered
  <2> QED BY <1>1, <2>1, <2>6, <2>7, <2>8 DEF ResultsInv
<1>10. ASSUME NEW r \in Requests, WriteProcessed(r) PROVE ResultsInv'
  <2> DEFINE rows == Results(req[r].totals, req[r].outOf)
             totals == req[r].totals
  <2>1. CASE UNCHANGED <<result, aggregate>> /\ Continue(r, [op |-> "conflict"])
    <3>1. InFlight'
      BY <1>1, <1>2, <2>1, InFlightStep DEF ResultsInv
    <3> QED BY <1>3, <2>1, <3>1
  <2>2. CASE /\ Enrolled \cap (DOMAIN result \cup DOMAIN aggregate) = {}
             /\ result' = Overwrite(rows, result)
             /\ \E rank \in Orders(totals) :
                  aggregate' = Overwrite(Ranked(rows, rank), aggregate)
             /\ Reply(r)
    <3>1. InFlight'
      BY <1>6, <2>2 DEF Reply
    <3>2. /\ IsTable(rows, Students, ResultRow)
          /\ DOMAIN rows = DOMAIN totals
          /\ IsTable(totals, Students, Nat)
          /\ req[r].outOf \in Nat \ {0}
      BY <1>1, <1>10, RequestByOp, ResultsTable DEF WriteProcessed, TypeOK
    <3>3. DOMAIN totals = Enrolled
      BY <1>10 DEF WriteProcessed, ResultsInv, InFlight
    <3>4. PICK rank \in Orders(totals) :
            aggregate' = Overwrite(Ranked(rows, rank), aggregate)
      BY <2>2
    <3>5. ASSUME NEW x \in DOMAIN totals, NEW y \in DOMAIN totals,
                 rows[x].percentage > rows[y].percentage
          PROVE  rank[x] < rank[y]
      <4>1. /\ rows[x].percentage = Percentage(totals[x], req[r].outOf)
            /\ rows[y].percentage = Percentage(totals[y], req[r].outOf)
        BY DEF Results
      <4>2. totals[x] \in Nat /\ totals[y] \in Nat
        BY <3>2 DEF IsTable
      <4>3. totals[x] > totals[y]
        <5>1. /\ Percentage(totals[x], req[r].outOf) \in Nat
              /\ Percentage(totals[y], req[r].outOf) \in Nat
          BY <3>2, <4>2, PercentageNat
        <5>2. totals[x] <= totals[y] =>
                Percentage(totals[x], req[r].outOf) <= Percentage(totals[y], req[r].outOf)
          BY <3>2, <4>2, PercentageMonotone
        <5> HIDE DEF rows, totals
        <5> QED BY <3>5, <4>1, <4>2, <5>1, <5>2
      <4> QED BY <3>5, <4>3, <4>2, <4>1 DEF Orders
    <3> HIDE DEF rows, totals
    <3>6. ResultsAreFounded'
      BY <1>2, <2>2, <3>2, <3>3 DEF Overwrite, ResultsInv, ResultsAreFounded
    <3>7. AggregatesMatchResults'
      BY <2>2, <3>4 DEF Overwrite, Ranked, ResultsInv, AggregatesMatchResults
    <3>8. EnrolledRanksOrdered'
      BY <2>2, <3>2, <3>3, <3>4, <3>5 DEF Overwrite, Ranked, EnrolledRanksOrdered
    <3> QED BY <1>1, <3>1, <3>6, <3>7, <3>8 DEF ResultsInv
  <2> QED BY <1>10, <2>1, <2>2 DEF WriteProcessed
<1> QED
  BY <1>1, <1>4, <1>5, <1>7, <1>8, <1>9, <1>10, QuietSteps DEF Next

THEOREM ResultsCorrect == Spec => []ResultsInv
  BY ResultsInit, ResultsNext, PTL DEF Spec

\* A student with an aggregate row has a result row that agrees with it.
THEOREM AggregatesCorrect == Spec => []AggregatesMatchResults
<1>1. ResultsInv => AggregatesMatchResults
  BY DEF ResultsInv
<1> QED BY <1>1, ResultsCorrect, PTL

\* Results exist only for enrolled students and those with marks.
THEOREM ResultsFounded == Spec => []ResultsAreFounded
<1>1. ResultsInv => ResultsAreFounded
  BY DEF ResultsInv
<1> QED BY <1>1, ResultsCorrect, PTL

\* Of two enrolled students the better percentage has the better rank.
THEOREM RanksOrdered == Spec => []EnrolledRanksOrdered
<1>1. ResultsInv => EnrolledRanksOrdered
  BY DEF ResultsInv
<1> QED BY <1>1, ResultsCorrect, PTL

-----------------------------------------------------------------------------
(* What the handlers of exam.service do, beside those of both services *)

\* Ranks given by assignClassRank are places of a competition.
LEMMA RankedCompetition ==
  ASSUME NEW rows, IsTable(rows, Students, ResultRow),
         aggregate' = Ranked(rows, [st \in DOMAIN rows |-> ClassRank(rows, st)])
  PROVE  CompetitionRanking'
<1>1. /\ DOMAIN aggregate' = DOMAIN rows
      /\ \A st \in DOMAIN rows :
           /\ aggregate'[st].rank = ClassRank(rows, st)
           /\ aggregate'[st].percentage = rows[st].percentage
  BY DEF Ranked
<1>2. ASSUME NEW x \in DOMAIN rows
      PROVE  {y \in DOMAIN rows : aggregate'[y].rank < aggregate'[x].rank} =
               {y \in DOMAIN rows : rows[y].percentage > rows[x].percentage}
  BY <1>1, ClassRankOrdered
<1>3. ASSUME NEW x \in DOMAIN rows
      PROVE  aggregate'[x].rank =
               Cardinality({y \in DOMAIN aggregate' :
                              aggregate'[y].rank < aggregate'[x].rank}) + 1
  <2> DEFINE ahead == {y \in DOMAIN rows :
                         rows[y].percentage > rows[x].percentage}
  <2>1. {y \in DOMAIN aggregate' : aggregate'[y].rank < aggregate'[x].rank} =
          ahead
    BY <1>1, <1>2
  <2>2. Cardinality(ahead) \in Nat
    BY FS_Subset, FS_CardinalityType, StudentsAssumption DEF IsTable
  <2>3. aggregate'[x].rank = 1 + Cardinality(ahead)
    BY <1>1 DEF ClassRank
  <2>4. 1 + Cardinality(ahead) = Cardinality(ahead) + 1
    BY <2>2
  <2> HIDE DEF ahead
  <2> QED BY <2>1, <2>3, <2>4, Zenon
<1> QED BY <1>1, <1>2, <1>3 DEF CompetitionRanking

\* The merit list a publication writes is a competition ranking, however many
\* publications and processings overlap.
THEOREM RanksAreCompetition == Spec => CompetitionRanks
<1> DEFINE Kept == \A r \in Requests :
                     ExamService(r) /\ aggregate' # aggregate =>
                       CompetitionRanking'
<1>1. TypeOK => Kept
  <2> SUFFICES ASSUME TypeOK, NEW r \in Requests, ExamService(r),
                      aggregate' # aggregate
               PROVE  CompetitionRanking'
    OBVIOUS
  <2>1. WriteResults(r)
    BY DEF ExamService, tables, CreateExam, AddExamSubject,
           InsertExamSubject, EnterMarks, ReadMaxMarks, UpsertEntry,
           EntriesDone, VerifyExam, SetVerified, PublishExam, ReadSubjects,
           ReadTotals, Fail
  <2> DEFINE rows == Results(req[r].totals, req[r].outOf)
  <2>2. IsTable(rows, Students, ResultRow)
    BY <2>1, RequestByOp, ResultsTable DEF WriteResults, TypeOK
  <2>3. aggregate' =
          Ranked(rows, [st \in DOMAIN rows |-> ClassRank(rows, st)])
    BY <2>1 DEF WriteResults
  <2> HIDE DEF rows
  <2> QED BY <2>2, <2>3, RankedCompetition
<1> HIDE DEF Kept
<1>2. Spec => [][Kept]_vars
  BY <1>1, TypeCorrect, PTL DEF Spec
<1> QED BY <1>2 DEF CompetitionRanks, Kept

LEMMA SlotMoves ==
  ASSUME TypeOK, NEW r \in Requests, NEW state, Continue(r, state)
  PROVE  req'[r] = state
  BY DEF Continue, TypeOK

(***************************************************************************)
(* A handler whose status was not overtaken never writes a published exam. *)
(***************************************************************************)
LEMMA StatusStep ==
  ASSUME TypeOK, NEW r \in Requests, ExamService(r), StatusStands(req[r])
  PROVE  /\ StatusStands(req[r])'
         /\ exam = "PUBLISHED" =>
              mark' = mark /\ subject' = subject /\ exam' = "PUBLISHED"
<1> DEFINE Kept == exam = "PUBLISHED" =>
                     mark' = mark /\ subject' = subject /\ exam' = "PUBLISHED"
           Goal == StatusStands(req[r])' /\ Kept
<1>i. StatusStands(Idle)'
  BY DEF StatusStands, Idle
<1>1. ASSUME CreateExam(r, "DRAFT") PROVE Goal
  BY <1>1, <1>i DEF CreateExam
<1>2. ASSUME NEW s, NEW n, AddExamSubject(r, s, n) PROVE Goal
  <2>1. req'[r] = [op |-> "insertSubject", subject |-> s, maxMarks |-> n]
    BY <1>2, SlotMoves DEF AddExamSubject
  <2> QED BY <1>2, <2>1 DEF AddExamSubject, StatusStands, tables
<1>3. ASSUME InsertExamSubject(r) \/ SetVerified(r) PROVE Goal
  <2>1. req'[r] = Idle
    BY <1>3, SlotMoves DEF InsertExamSubject, SetVerified, Reply
  <2>2. exam # "PUBLISHED"
    BY <1>3 DEF InsertExamSubject, SetVerified, StatusStands
  <2> QED BY <2>1, <2>2, <1>i
<1>4. ASSUME NEW s, NEW entries, EnterMarks(r, s, entries) PROVE Goal
  <2>1. req'[r] = [op |-> "marks", subject |-> s, todo |-> entries]
    BY <1>4, SlotMoves DEF EnterMarks
  <2> QED BY <1>4, <2>1 DEF EnterMarks, StatusStands, tables
<1>5. ASSUME ReadMaxMarks(r) PROVE Goal
  <2>1. req'[r] = Idle \/ req'[r].op = "entries"
    BY <1>5, SlotMoves DEF ReadMaxMarks, Reply
  <2>2. exam # "PUBLISHED" /\ exam' = exam
    BY <1>5 DEF ReadMaxMarks, StatusStands, tables
  <2> QED BY <2>1, <2>2, <1>i DEF StatusStands
<1>6. ASSUME NEW st \in Students, UpsertEntry(r, st) PROVE Goal
  <2>1. req[r] = [op |-> "entries", subject |-> req[r].subject,
                  maxMarks |-> req[r].maxMarks, todo |-> req[r].todo]
    BY <1>6, RequestByOp DEF UpsertEntry, TypeOK
  <2>2. \A rest : [req[r] EXCEPT !.todo = rest].op = "entries"
    BY <2>1
  <2>3. req'[r] = Idle \/ req'[r].op = "entries"
    BY <1>6, <2>2, SlotMoves DEF UpsertEntry, Reply
  <2>4. exam # "PUBLISHED" /\ exam' = exam
    BY <1>6 DEF UpsertEntry, StatusStands
  <2> QED BY <2>3, <2>4, <1>i DEF StatusStands
<1>7. ASSUME EntriesDone(r) \/ Fail(r) PROVE Goal
  <2>1. req'[r] = Idle /\ UNCHANGED tables
    BY <1>7, SlotMoves DEF EntriesDone, Fail, Reply
  <2> QED BY <2>1, <1>i DEF tables
<1>8. ASSUME VerifyExam(r) PROVE Goal
  <2>1. req'[r] = [op |-> "verify"]
    BY <1>8, SlotMoves DEF VerifyExam
  <2> QED BY <1>8, <2>1 DEF VerifyExam, StatusStands, tables
<1>9. ASSUME PublishExam(r) \/ ReadSubjects(r) \/ ReadTotals(r) PROVE Goal
  <2>1. /\ req'[r] = Idle \/ req'[r].op \in {"publish", "totals", "write"}
        /\ UNCHANGED tables
    BY <1>9, SlotMoves DEF PublishExam, ReadSubjects, ReadTotals, Reply
  <2> QED BY <2>1, <1>i DEF StatusStands, tables
<1>10. ASSUME WriteResults(r) PROVE Goal
  <2>1. req'[r] = Idle
    BY <1>10, SlotMoves DEF WriteResults, Reply
  <2> QED BY <1>10, <2>1, <1>i DEF WriteResults, Live, Statuses
<1> QED
  BY <1>1, <1>2, <1>3, <1>4, <1>5, <1>6, <1>7, <1>8, <1>9, <1>10
  DEF ExamService

\* Only a handler overtaken after its look at the status changes the marks or
\* the subjects of a published exam or takes it back.
THEOREM PublishedFrozen == Spec => PublishedIsImmutable
<1> DEFINE Kept ==
      \A r \in Requests :
        \/ ~ StatusStands(req[r])
        \/ /\ StatusStands(req[r])'
           /\ exam = "PUBLISHED" =>
                mark' = mark /\ subject' = subject /\ exam' = "PUBLISHED"
        \/ ~ ExamService(r)
<1>1. TypeOK => Kept
  BY StatusStep, Zenon
<1> HIDE DEF Kept
<1>2. Spec => [][Kept]_vars
  BY <1>1, TypeCorrect, PTL DEF Spec
<1> QED BY <1>2 DEF PublishedIsImmutable, Kept

(***************************************************************************)
(* A publication whose sums still are those of the tables publishes the    *)
(* figures of the marks, and nothing else touches them.                    *)
(***************************************************************************)
\* Sums and figures follow from tables that a step leaves alone.
LEMMA SumsKept ==
  ASSUME mark' = mark, subject' = subject
  PROVE  /\ Marked' = Marked /\ LiveSubjects' = LiveSubjects
         /\ TotalMax' = TotalMax
         /\ \A st : Total(st)' = Total(st)
         /\ \A s : Column(s)' = Column(s)
  BY DEF Marked, LiveSubjects, TotalMax, Total, Column

LEMMA FiguresKept ==
  ASSUME FiguresAreCurrent, UNCHANGED tables
  PROVE  FiguresAreCurrent'
<1>1. /\ exam' = exam /\ mark' = mark /\ subject' = subject
      /\ result' = result /\ aggregate' = aggregate
      /\ analytics' = analytics
  BY DEF tables
<1> QED BY <1>1, SumsKept DEF FiguresAreCurrent, Percentage

LEMMA FiguresWritten ==
  ASSUME TypeOK, NEW r \in Requests, WriteResults(r), TotalsStand(req[r])
  PROVE  FiguresAreCurrent'
<1> DEFINE q == req[r]
           rows == Results(q.totals, q.outOf)
<1>1. q.op = "write" /\ mark' = mark /\ subject' = subject
  BY DEF WriteResults
<1>2. /\ q.totals = [st \in Marked |-> Total(st)]
      /\ q.outOf = TotalMax
      /\ q.outOf \in Nat \ {0}
  BY <1>1, RequestByOp DEF TotalsStand, TypeOK
<1>3. /\ DOMAIN rows = Marked
      /\ \A st \in Marked :
           /\ rows[st].total = Total(st)
           /\ rows[st].percentage = Percentage(Total(st), TotalMax)
  BY <1>2 DEF Results
<1>4. /\ DOMAIN aggregate' = DOMAIN rows
      /\ \A st \in DOMAIN rows : result'[st] = rows[st]
      /\ analytics' = [s \in LiveSubjects |-> Column(s)]
  BY DEF WriteResults, Ranked, Overwrite
<1> HIDE DEF rows, q
<1>5. TotalMax > 0
  BY <1>2, CountedSums
<1>6. \A st \in Marked :
        Percentage(Total(st), TotalMax)' = Percentage(Total(st), TotalMax)
  BY <1>1, SumsKept DEF Percentage
<1> QED BY <1>1, <1>3, <1>4, <1>5, <1>6, SumsKept DEF FiguresAreCurrent

LEMMA FiguresStep ==
  ASSUME TypeOK, NEW r \in Requests, ExamService(r),
         StatusStands(req[r]), TotalsStand(req[r])
  PROVE  TotalsStand(req[r])' /\ (FiguresAreCurrent => FiguresAreCurrent')
<1> DEFINE Goal == /\ TotalsStand(req[r])'
                   /\ FiguresAreCurrent => FiguresAreCurrent'
<1>i. TotalsStand(Idle)'
  BY DEF TotalsStand, Idle
\* Steps that only move the handler.
<1>t. ASSUME UNCHANGED tables, TotalsStand(req[r])' PROVE Goal
  BY <1>t, FiguresKept
\* Steps after which the exam is not published.
<1>u. ASSUME exam' # "PUBLISHED", TotalsStand(req[r])' PROVE Goal
  BY <1>u DEF FiguresAreCurrent
<1>1. ASSUME CreateExam(r, "DRAFT") PROVE Goal
  <2>1. req' = req /\ exam' = "DRAFT" /\ req[r] = Idle
    BY <1>1 DEF CreateExam
  <2> QED BY <2>1, <1>i, <1>u
<1>2. ASSUME NEW s, NEW n, AddExamSubject(r, s, n) PROVE Goal
  <2>1. req'[r] = [op |-> "insertSubject", subject |-> s, maxMarks |-> n]
    BY <1>2, SlotMoves DEF AddExamSubject
  <2>2. TotalsStand(req[r])'
    BY <2>1 DEF TotalsStand
  <2> QED BY <1>2, <2>2, <1>t DEF AddExamSubject
<1>3. ASSUME InsertExamSubject(r) \/ SetVerified(r) PROVE Goal
  <2>1. req'[r] = Idle
    BY <1>3, SlotMoves DEF InsertExamSubject, SetVerified, Reply
  <2>2. exam' # "PUBLISHED"
    BY <1>3 DEF InsertExamSubject, SetVerified, StatusStands
  <2> QED BY <2>1, <2>2, <1>i, <1>u
<1>4. ASSUME NEW s, NEW entries, EnterMarks(r, s, entries) PROVE Goal
  <2>1. req'[r] = [op |-> "marks", subject |-> s, todo |-> entries]
    BY <1>4, SlotMoves DEF EnterMarks
  <2>2. TotalsStand(req[r])'
    BY <2>1 DEF TotalsStand
  <2> QED BY <1>4, <2>2, <1>t DEF EnterMarks
<1>5. ASSUME ReadMaxMarks(r) PROVE Goal
  <2>1. req'[r] = Idle \/ req'[r].op = "entries"
    BY <1>5, SlotMoves DEF ReadMaxMarks, Reply
  <2>2. TotalsStand(req[r])'
    BY <2>1, <1>i DEF TotalsStand
  <2> QED BY <1>5, <2>2, <1>t DEF ReadMaxMarks
<1>6. ASSUME NEW st \in Students, UpsertEntry(r, st) PROVE Goal
  <2>1. req[r] = [op |-> "entries", subject |-> req[r].subject,
                  maxMarks |-> req[r].maxMarks, todo |-> req[r].todo]
    BY <1>6, RequestByOp DEF UpsertEntry, TypeOK
  <2>2. \A rest : [req[r] EXCEPT !.todo = rest].op = "entries"
    BY <2>1
  <2>3. req'[r] = Idle \/ req'[r].op = "entries"
    BY <1>6, <2>2, SlotMoves DEF UpsertEntry, Reply
  <2>4. exam' # "PUBLISHED"
    BY <1>6 DEF UpsertEntry, StatusStands
  <2>5. TotalsStand(req[r])'
    BY <2>3, <1>i DEF TotalsStand
  <2> QED BY <2>4, <2>5, <1>u
<1>7. ASSUME EntriesDone(r) \/ Fail(r) PROVE Goal
  <2>1. req'[r] = Idle /\ UNCHANGED tables
    BY <1>7, SlotMoves DEF EntriesDone, Fail, Reply
  <2> QED BY <2>1, <1>i, <1>t
<1>8. ASSUME VerifyExam(r) \/ PublishExam(r) PROVE Goal
  <2>1. req'[r].op \in {"verify", "publish"} /\ UNCHANGED tables
    BY <1>8, SlotMoves DEF VerifyExam, PublishExam
  <2> QED BY <2>1, <1>t DEF TotalsStand
<1>9. ASSUME ReadSubjects(r) PROVE Goal
  <2>1. req'[r] = Idle \/ req'[r] = [op |-> "totals", outOf |-> TotalMax]
    BY <1>9, SlotMoves DEF ReadSubjects, Reply
  <2>2. UNCHANGED tables /\ TotalMax' = TotalMax
    BY <1>9, SumsKept DEF ReadSubjects, tables
  <2>3. TotalsStand(req[r])'
    BY <2>1, <2>2, <1>i DEF TotalsStand
  <2> QED BY <2>2, <2>3, <1>t
<1>10. ASSUME ReadTotals(r) PROVE Goal
  <2> DEFINE totals == [st \in Marked |-> Total(st)]
             state == [op |-> "write", outOf |-> req[r].outOf,
                       totals |-> totals]
  <2>1. req'[r] = Idle \/ req'[r] = state
    BY <1>10, SlotMoves DEF ReadTotals, Reply
  <2>2. UNCHANGED tables /\ TotalMax' = TotalMax
    BY <1>10, SumsKept DEF ReadTotals, tables
  <2>3. totals' = totals
    BY <2>2 DEF tables, Marked, Total
  <2>4. req[r].outOf = TotalMax
    BY <1>10 DEF ReadTotals, TotalsStand
  <2>5. state.op = "write" /\ state.totals = totals /\ state.outOf = TotalMax
    BY <2>4
  <2> HIDE DEF totals, state
  <2>6. req'[r] = state => TotalsStand(req[r])'
    BY <2>2, <2>3, <2>5 DEF TotalsStand, totals
  <2> QED BY <2>1, <2>2, <2>6, <1>i, <1>t
<1>11. ASSUME WriteResults(r) PROVE Goal
  <2>1. req'[r] = Idle
    BY <1>11, SlotMoves DEF WriteResults, Reply
  <2> QED BY <1>11, <2>1, <1>i, FiguresWritten
<1> QED
  BY <1>1, <1>2, <1>3, <1>4, <1>5, <1>6, <1>7, <1>8, <1>9, <1>10, <1>11
  DEF ExamService

\* Only an overtaken handler of exam.service makes the figures of a published
\* exam differ from its marks.
THEOREM FiguresCurrent == Spec => PublishedFiguresCurrent
<1> DEFINE Kept ==
      \A r \in Requests :
        \/ ~ (StatusStands(req[r]) /\ TotalsStand(req[r]))
        \/ /\ (StatusStands(req[r]) /\ TotalsStand(req[r]))'
           /\ FiguresAreCurrent => FiguresAreCurrent'
        \/ ~ ExamService(r)
<1>1. TypeOK => Kept
  BY StatusStep, FiguresStep, Zenon
<1> HIDE DEF Kept
<1>2. Spec => [][Kept]_vars
  BY <1>1, TypeCorrect, PTL DEF Spec
<1> QED BY <1>2 DEF PublishedFiguresCurrent, Kept
=============================================================================
