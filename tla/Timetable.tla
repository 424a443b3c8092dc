----------------------------- MODULE Timetable ------------------------------
(***************************************************************************)
(* The two timetables of tenant-service (timetable.service.ts), for one    *)
(* academic year.  ClassTimetable has a lesson per class, period and day   *)
(* and leaves double booking to two unique keys, which ignore softDelete.  *)
(* TimeTableEntry has an entry per class, optional section and period,     *)
(* and upsertEntry looks for the conflicts itself.                         *)
(*                                                                         *)
(* Abstracted: a class with its section is one Group in ClassTimetable, a  *)
(* period on a day one Slot; TimeTableEntry rows are those of one period,  *)
(* since other periods touch disjoint rows; subjects are left out.         *)
(***************************************************************************)
EXTENDS Handlers

CONSTANTS
  Teachers,
  Groups,       \* class and section, in ClassTimetable
  Slots,        \* period and day, in ClassTimetable
  Lessons,      \* ids of ClassTimetable rows: bounds how many are made
  Forms,        \* classes, in TimeTableEntry
  Sections,     \* sections of a class, in TimeTableEntry
  Entries       \* ids of TimeTableEntry rows

VARIABLES
  lesson,       \* ClassTimetable rows, Null before they are made
  entry         \* TimeTableEntry rows of a period, Null likewise

timetables == <<lesson, entry>>
timetableVars == <<timetables, req>>

LessonRow == [group : Groups, slot : Slots, teacher : Teachers,
              live : BOOLEAN]
EntryRow == [form : Forms, section : Sections \cup {Null},
             teacher : Teachers \cup {Null}]

ASSUME NoLessonAssumption == Null \notin LessonRow \cup EntryRow

UpdateLessonReq == [op : {"updateLesson"}, id : Lessons,
                    slot : Slots \cup {Null},
                    teacher : Teachers \cup {Null}]
UpsertReq == [op : {"upsert"}, at : {"find", "create"}, row : EntryRow]
               \cup [op : {"upsert"}, at : {"update"}, row : EntryRow,
                     id : Entries]

TimetableRequest == {Idle} \cup UpdateLessonReq \cup UpsertReq

TimetableInit ==
  /\ lesson = [l \in Lessons |-> Null]
  /\ entry = [e \in Entries |-> Null]
  /\ HandlersInit

Rows(table) == {k \in DOMAIN table : table[k] # Null}

-----------------------------------------------------------------------------
(***************************************************************************)
(* ClassTimetable                                                          *)
(***************************************************************************)
\* The unique keys on (class, section, period, day) and on (teacher, period,
\* day): a deleted lesson keeps both.
KeysFree(id, row) ==
  \A l \in Rows(lesson) \ {id} :
    lesson[l].slot = row.slot =>
      lesson[l].group # row.group /\ lesson[l].teacher # row.teacher

CreateEntry(r, l, row) ==
  /\ req[r] = Idle
  /\ lesson[l] = Null
  /\ KeysFree(l, row)
  /\ lesson' = [lesson EXCEPT ![l] = row]
  /\ UNCHANGED <<entry, req>>

\* updateEntry finds the live lesson, ...
UpdateEntry(r, l, slot, teacher) ==
  /\ req[r] = Idle
  /\ l \in Rows(lesson) /\ lesson[l].live
  /\ Continue(r, [op |-> "updateLesson", id |-> l, slot |-> slot,
                  teacher |-> teacher])
  /\ UNCHANGED timetables

\* ... and updates it by id, live or not.
WriteLesson(r) ==
  /\ req[r].op = "updateLesson"
  /\ LET old == lesson[req[r].id]
         new == [old EXCEPT !.slot = Given(req[r].slot, @),
                            !.teacher = Given(req[r].teacher, @)]
     IN /\ KeysFree(req[r].id, new)
        /\ lesson' = [lesson EXCEPT ![req[r].id] = new]
  /\ Reply(r)
  /\ UNCHANGED entry

DeleteEntry(r, l) ==
  /\ req[r] = Idle
  /\ l \in Rows(lesson) /\ lesson[l].live
  /\ lesson' = [lesson EXCEPT ![l].live = FALSE]
  /\ UNCHANGED <<entry, req>>

-----------------------------------------------------------------------------
(***************************************************************************)
(* TimeTableEntry                                                          *)
(***************************************************************************)
SameSlot(row, row2) == row.form = row2.form /\ row.section = row2.section

\* Mutant: a row of the section the request names, in any class, is spared.
OtherSection(row, wanted) == row.section # wanted.section

\* NOT (classId = ... AND sectionId = ...) in SQL: of the same class, a row
\* without a section is unknown to a request with one, so it is not found.
Elsewhere(row, wanted) ==
  \/ row.form # wanted.form
  \/ /\ row.section # wanted.section
     /\ row.section # Null

Booked(wanted) ==
  {e \in Rows(entry) : /\ entry[e].teacher = wanted.teacher
                       /\ Elsewhere(entry[e], wanted)}

\* upsertEntry: a teacher who is elsewhere in the period is a 409, ...
UpsertEntry(r, wanted) ==
  /\ req[r] = Idle
  /\ wanted.teacher # Null => Booked(wanted) = {}
  /\ Continue(r, [op |-> "upsert", at |-> "find", row |-> wanted])
  /\ UNCHANGED timetables

\* ... then the row of the slot is looked for, ...
FindEntry(r) ==
  /\ req[r].op = "upsert" /\ req[r].at = "find"
  /\ LET wanted == req[r].row
         found == {e \in Rows(entry) : SameSlot(entry[e], wanted)}
     IN \/ \E e \in found :
             Continue(r, [op |-> "upsert", at |-> "update", row |-> wanted,
                          id |-> e])
        \/ /\ found = {}
           /\ Continue(r, [req[r] EXCEPT !.at = "create"])
  /\ UNCHANGED timetables

\* ... and updated,
UpdateFound(r) ==
  /\ req[r].op = "upsert" /\ req[r].at = "update"
  /\ entry' = [entry EXCEPT ![req[r].id].teacher = req[r].row.teacher]
  /\ Reply(r)
  /\ UNCHANGED lesson

\* or created: the unique key on (class, section, period) does not see rows
\* without a section.
CreateMissing(r, e) ==
  /\ req[r].op = "upsert" /\ req[r].at = "create"
  /\ entry[e] = Null
  /\ req[r].row.section # Null =>
       \A f \in Rows(entry) : ~SameSlot(entry[f], req[r].row)
  /\ entry' = [entry EXCEPT ![e] = req[r].row]
  /\ Reply(r)
  /\ UNCHANGED lesson

TimetableAbandon(r) == Abandon(r) /\ UNCHANGED timetables

\* Whatever handler r may do next.
TimetableHandler(r) ==
  \/ \E l \in Lessons, row \in LessonRow : row.live /\ CreateEntry(r, l, row)
  \/ \E l \in Lessons, slot \in Slots \cup {Null},
        teacher \in Teachers \cup {Null} : UpdateEntry(r, l, slot, teacher)
  \/ WriteLesson(r)
  \/ \E l \in Lessons : DeleteEntry(r, l)
  \/ \E wanted \in EntryRow : UpsertEntry(r, wanted)
  \/ FindEntry(r)
  \/ UpdateFound(r)
  \/ \E e \in Entries : CreateMissing(r, e)
  \/ TimetableAbandon(r)

TimetableNext == \E r \in Requests : TimetableHandler(r)

TimetableSpec == TimetableInit /\ [][TimetableNext]_timetableVars

-----------------------------------------------------------------------------
TimetableTypeOK ==
  /\ lesson \in [Lessons -> LessonRow \cup {Null}]
  /\ entry \in [Entries -> EntryRow \cup {Null}]
  /\ req \in [Requests -> TimetableRequest]

-----------------------------------------------------------------------------
(***************************************************************************)
(* Properties                                                              *)
(***************************************************************************)
\* The teacher an upsert asked for is still free in the period, and the slot
\* it found or missed is as it was.
GridStands(c) ==
  /\ c.op = "upsert" /\ c.row.teacher # Null => Booked(c.row) = {}
  /\ c.op = "upsert" /\ c.at = "update" => SameSlot(entry[c.id], c.row)
  /\ c.op = "upsert" /\ c.at = "create" =>
       \A e \in Rows(entry) : ~SameSlot(entry[e], c.row)

GridIsSound ==
  \A e, f \in Rows(entry) : e # f =>
    /\ entry[e].teacher # Null /\ entry[e].teacher = entry[f].teacher =>
         entry[e].form = entry[f].form
    /\ ~SameSlot(entry[e], entry[f])

\* A teacher is in one class of the period, and a class and section has one
\* entry, section or none, although the look-ups of upsertEntry stand in for
\* keys that SQL does not keep.  Only an upsert that another one has overtaken
\* after its look-ups breaks that.
GridStaysSound ==
  \A r \in Requests :
    \/ ~GridStands(req[r])
    \/ /\ GridStands(req[r])'
       /\ GridIsSound => GridIsSound'
    \/ ~TimetableHandler(r)

\* A lesson that was deleted is not replaced: while its row stays where it
\* is, neither its class nor its teacher gets a lesson in the slot.
LessonsStayDeleted ==
  \A l, m \in Rows(lesson) :
    ~lesson[l].live /\ lesson[m].live /\ lesson[l].slot = lesson[m].slot =>
      lesson[l].group # lesson[m].group /\ lesson[l].teacher # lesson[m].teacher
=============================================================================
