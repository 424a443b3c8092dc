----------------------------- MODULE Attendance -----------------------------
(***************************************************************************)
(* Attendance of one class and section on one date, which tenant-service   *)
(* keeps in two ways: a session with one record per student, written by    *)
(* attendance.service.ts and by the bulk save of academic.service.ts, and  *)
(* a log whose blob holds the whole sheet and which can be locked.  Other  *)
(* classes and dates touch disjoint rows.                                  *)
(*                                                                         *)
(* Abstracted: the role check of the caller and the existence checks on    *)
(* class, section and year always pass, a sheet gives all its students one *)
(* status, and the service's edits of enrolments (StudentRecords) appear   *)
(* as ChangeEnrolment.  Two overlapping bulk saves of a session are taken  *)
(* one after the other.                                                    *)
(***************************************************************************)
EXTENDS Handlers, Sequences

CONSTANTS
  Pupils,       \* students who may be on a sheet
  Marks,        \* AttendanceStatus: PRESENT, ABSENT, ...
  Blobs,        \* contents of a log
  MaxSheet      \* bound on the students of one sheet

ASSUME MaxSheetAssumption == MaxSheet \in Nat

VARIABLES
  enrolled,     \* pupils with a live enrolment in the class and section
  session,      \* AttendanceSession.status, "none" before it is created
  record,       \* AttendanceRecord rows of the session, per pupil
  log           \* the AttendanceLog row, Null before it is created

sheets == <<session, record, log>>
attendanceVars == <<enrolled, sheets, req>>

Sheets == UNION {[1 .. n -> Pupils] : n \in 1 .. MaxSheet}

OnSheet(sheet) == {sheet[i] : i \in DOMAIN sheet}

RecordRow == [state : Presence, status : Marks \cup {Null}]
LogRow == [locked : BOOLEAN, blob : Blobs]

MarkReq == [op : {"mark"}, at : {"enrolments", "write"},
            todo : Seq(Pupils), status : Marks, enrolled : SUBSET Pupils]
SaveLogReq == [op : {"saveLog"}, found : BOOLEAN, row : LogRow]

AttendanceRequest == {Idle} \cup MarkReq \cup SaveLogReq

AttendanceInit ==
  /\ enrolled \in SUBSET Pupils
  /\ session = "none"
  /\ record = [p \in Pupils |-> [state |-> "absent", status |-> Null]]
  /\ log = Null
  /\ HandlersInit

\* enrollStudent, deleteEnrollment, and updateStudent, which moves a pupil to
\* another class and back.
ChangeEnrolment(r, p) ==
  /\ req[r] = Idle
  /\ enrolled' = (enrolled \ {p}) \cup ({p} \ enrolled)
  /\ UNCHANGED <<sheets, req>>

-----------------------------------------------------------------------------
(***************************************************************************)
(* AttendanceService: the session and its records                          *)
(***************************************************************************)
\* The unique key on date, class and section backs the duplicate check.
CreateSession(r) ==
  /\ req[r] = Idle
  /\ session = "none"
  /\ session' = "OPEN"
  /\ UNCHANGED <<enrolled, record, log, req>>

\* Mutant: the status of the session is not looked at.
MarkAnySession(r, sheet, status) ==
  /\ req[r] = Idle
  /\ session # "none"
  /\ Continue(r, [op |-> "mark", at |-> "enrolments", todo |-> sheet,
                  status |-> status, enrolled |-> {}])
  /\ UNCHANGED <<enrolled, sheets>>

MarkAttendance(r, sheet, status) ==
  /\ req[r] = Idle
  /\ session = "OPEN"
  /\ Continue(r, [op |-> "mark", at |-> "enrolments", todo |-> sheet,
                  status |-> status, enrolled |-> {}])
  /\ UNCHANGED <<enrolled, sheets>>

ReadEnrolments(r) ==
  /\ req[r].op = "mark" /\ req[r].at = "enrolments"
  /\ Continue(r, [req[r] EXCEPT !.at = "write", !.enrolled = enrolled])
  /\ UNCHANGED <<enrolled, sheets>>

\* Mutant: a conflicting row is made live again.
MarkedAgain(row, status) == [state |-> "live", status |-> status]

\* INSERT ... ON CONFLICT DO UPDATE of the status; softDelete is left alone.
Marked(row, status) ==
  [state |-> IF row.state = "absent" THEN "live" ELSE row.state,
   status |-> status]

\* The next student of the sheet: one who is not enrolled ends the call, and
\* what it has written stays.
WriteMark(r) ==
  /\ req[r].op = "mark" /\ req[r].at = "write"
  /\ LET p == Head(req[r].todo)
         rest == Tail(req[r].todo)
     IN IF p \in req[r].enrolled
        THEN /\ record' = [record EXCEPT ![p] = Marked(@, req[r].status)]
             /\ IF rest = <<>>
                THEN Reply(r)
                ELSE Continue(r, [req[r] EXCEPT !.todo = rest])
        ELSE /\ Reply(r)
             /\ UNCHANGED record
  /\ UNCHANGED <<enrolled, session, log>>

CloseSession(r) ==
  /\ req[r] = Idle
  /\ session # "none"
  /\ session' = "CLOSED"
  /\ UNCHANGED <<enrolled, record, log, req>>

(***************************************************************************)
(* AcademicService.saveBulkAttendance: deleteMany, which the soft-delete   *)
(* middleware turns into an update of softDelete, then createMany with     *)
(* skipDuplicates, which skips every pupil who has a row of any kind.      *)
(***************************************************************************)
SoftDeleted(row) ==
  IF row.state = "live" THEN [row EXCEPT !.state = "deleted"] ELSE row

Created(row, status) ==
  IF row.state = "absent" THEN [state |-> "live", status |-> status] ELSE row

SaveBulkAttendance(r, sheet, status) ==
  /\ req[r] = Idle
  /\ session' = IF session = "none" THEN "OPEN" ELSE session
  /\ record' = [p \in Pupils |->
                  IF p \in OnSheet(sheet)
                  THEN Created(SoftDeleted(record[p]), status)
                  ELSE SoftDeleted(record[p])]
  /\ UNCHANGED <<enrolled, log, req>>

-----------------------------------------------------------------------------
(***************************************************************************)
(* AcademicService: the log                                                *)
(***************************************************************************)
\* saveAttendanceLog up to the look-up: a locked log is refused.
SaveAttendanceLog(r, row) ==
  /\ req[r] = Idle
  /\ log # Null => ~log.locked
  /\ Continue(r, [op |-> "saveLog", found |-> log # Null, row |-> row])
  /\ UNCHANGED <<enrolled, sheets>>

\* ... and its write: by id whatever the row has become, or an insert that
\* the unique key refuses when another handler was first.
WriteLog(r) ==
  /\ req[r].op = "saveLog"
  /\ log' = IF req[r].found \/ log = Null THEN req[r].row ELSE log
  /\ Reply(r)
  /\ UNCHANGED <<enrolled, session, record>>

LockAttendanceLog(r, lock) ==
  /\ req[r] = Idle
  /\ log # Null
  /\ log' = [log EXCEPT !.locked = lock]
  /\ UNCHANGED <<enrolled, session, record, req>>

AttendanceAbandon(r) == Abandon(r) /\ UNCHANGED <<enrolled, sheets>>

\* Whatever handler r may do next.
AttendanceHandler(r) ==
  \/ \E p \in Pupils : ChangeEnrolment(r, p)
  \/ CreateSession(r)
  \/ \E sheet \in Sheets, status \in Marks :
       \/ MarkAttendance(r, sheet, status)
       \/ SaveBulkAttendance(r, sheet, status)
  \/ ReadEnrolments(r)
  \/ WriteMark(r)
  \/ CloseSession(r)
  \/ \E row \in LogRow : SaveAttendanceLog(r, row)
  \/ WriteLog(r)
  \/ \E lock \in BOOLEAN : LockAttendanceLog(r, lock)
  \/ AttendanceAbandon(r)

AttendanceNext == \E r \in Requests : AttendanceHandler(r)

AttendanceSpec == AttendanceInit /\ [][AttendanceNext]_attendanceVars

-----------------------------------------------------------------------------
AttendanceTypeOK ==
  /\ enrolled \subseteq Pupils
  /\ session \in {"none", "OPEN", "CLOSED"}
  /\ record \in [Pupils -> RecordRow]
  /\ log \in LogRow \cup {Null}
  /\ req \in [Requests -> AttendanceRequest]

-----------------------------------------------------------------------------
(***************************************************************************)
(* Properties                                                              *)
(***************************************************************************)
\* The session handler q found open is open, the enrolments it read are those
\* there are, and the log it found unlocked is unlocked.
RegisterStands(q) ==
  /\ q.op = "mark" => /\ session = "OPEN"
                      /\ q.at = "write" => q.enrolled = enrolled
  /\ q.op = "saveLog" /\ log # Null => ~log.locked

\* What is settled stays: markAttendance writes a record only in an open
\* session and of an enrolled student, however far it comes, and the blob of a
\* locked log changes only after it is unlocked.  Only a handler that
\* closeSession, an end of enrolment or lockAttendanceLog has overtaken breaks
\* that.  (The bulk save looks at none of it.)
SettledAttendanceIsFrozen ==
  \A r \in Requests :
    \/ ~RegisterStands(req[r])
    \/ /\ RegisterStands(req[r])'
       /\ \A p \in Pupils :
            req[r].op = "mark" /\ record'[p] # record[p] =>
              session = "OPEN" /\ p \in enrolled
       /\ log # Null /\ log.locked => log'.blob = log.blob
    \/ ~AttendanceHandler(r)

\* A record that was deleted, by a bulk save, is not shown again by any
\* later mark or save of the student.
RecordsStayDeleted ==
  [][\A p \in Pupils : record[p].state = "deleted" =>
       record'[p].state = "deleted"]_attendanceVars

\* The comment at academic.service.ts:2437, "Atomically replace existing
\* records": after a bulk save the students on its sheet have the status it
\* gave them, and the others no record.
BulkSaveReplaces ==
  [][\A r \in Requests, sheet \in Sheets, status \in Marks :
       SaveBulkAttendance(r, sheet, status) =>
         \A p \in Pupils :
           IF p \in OnSheet(sheet)
           THEN record'[p] = [state |-> "live", status |-> status]
           ELSE record'[p].state # "live"]_attendanceVars
=============================================================================
