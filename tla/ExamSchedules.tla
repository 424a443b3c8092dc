--------------------------- MODULE ExamSchedules ----------------------------
(***************************************************************************)
(* The exam schedules of one academic year of a school in tenant-service   *)
(* (academic.service.ts), made one by one or generated from the rows of    *)
(* MASTER_TEMPLATE.  The unique key is the year and the name, and ignores  *)
(* softDelete, which the handlers set and filter themselves.               *)
(*                                                                         *)
(* Abstracted: target classes and dates (an update that gives one of the   *)
(* two dates is not compared with the other); schedules of no year, which  *)
(* no key and no generation looks at; the calls that list.                 *)
(***************************************************************************)
EXTENDS Handlers

CONSTANTS
  Schedules,    \* ExamSchedule ids
  Terms,        \* their names
  MasterTerms   \* the names of the live rows of MASTER_TEMPLATE

ASSUME MasterTermsAssumption == MasterTerms \subseteq Terms

VARIABLES
  yearOpen,     \* the AcademicYear row is live
  schedule      \* ExamSchedule rows

scheduleRows == <<yearOpen, schedule>>
scheduleVars == <<scheduleRows, req>>

ScheduleRow == [state : {"live", "deleted"}, name : Terms]
Unscheduled == [state |-> "absent"]

ScheduleReq ==
  [op : {"rename"}, id : Schedules, name : Terms]
    \cup [op : {"remove"}, id : Schedules]
    \cup [op : {"fill"}, names : SUBSET Terms]

SchedulesInit ==
  /\ yearOpen = TRUE
  /\ schedule = [i \in Schedules |-> Unscheduled]
  /\ HandlersInit

Unused == {i \in Schedules : schedule[i] = Unscheduled}

\* The names of the rows in a state.
NamesOf(state) ==
  {schedule[i].name : i \in {j \in Schedules : schedule[j].state = state}}
TakenNames == NamesOf("live") \cup NamesOf("deleted")

-----------------------------------------------------------------------------
\* deleteAcademicYear counts what refers to the year, and schedules are not
\* among it.
DropYear(r) ==
  /\ req[r] = Idle
  /\ yearOpen' = FALSE
  /\ UNCHANGED <<schedule, req>>

\* The year is not looked up: the foreign key finds a deleted one too.
CreateExamSchedule(r, i, name) ==
  /\ req[r] = Idle
  /\ i \in Unused
  /\ name \notin TakenNames
  /\ schedule' = [schedule EXCEPT ![i] = [state |-> "live", name |-> name]]
  /\ UNCHANGED <<yearOpen, req>>

\* updateExamSchedule and deleteExamSchedule find a live row ...
UpdateExamSchedule(r, i, name) ==
  /\ req[r] = Idle
  /\ schedule[i].state = "live"
  /\ Continue(r, [op |-> "rename", id |-> i, name |-> name])
  /\ UNCHANGED scheduleRows

DeleteExamSchedule(r, i) ==
  /\ req[r] = Idle
  /\ schedule[i].state = "live"
  /\ Continue(r, [op |-> "remove", id |-> i])
  /\ UNCHANGED scheduleRows

\* ... and write it by id.
WriteSchedule(r) ==
  /\ req[r].op = "rename"
  /\ \A i \in Schedules \ Unused :
       schedule[i].name = req[r].name => i = req[r].id
  /\ schedule' = [schedule EXCEPT ![req[r].id].name = req[r].name]
  /\ Reply(r)
  /\ UNCHANGED yearOpen

RemoveSchedule(r) ==
  /\ req[r].op = "remove"
  /\ schedule' = [schedule EXCEPT ![req[r].id].state = "deleted"]
  /\ Reply(r)
  /\ UNCHANGED yearOpen

\* generateExamSchedulesFromMaster: the year, then the live names; none
\* missing ends the call.
GenerateSchedules(r) ==
  /\ req[r] = Idle
  /\ yearOpen
  /\ MasterTerms \ NamesOf("live") # {}
  /\ Continue(r, [op |-> "fill",
                  names |-> MasterTerms \ NamesOf("live")])
  /\ UNCHANGED scheduleRows

\* Mutant: names that are taken are skipped, whoever took them.
InsertFreeSchedules(r) ==
  /\ req[r].op = "fill"
  /\ \E row \in [req[r].names \ TakenNames -> Unused] :
       /\ \A n, m \in DOMAIN row : row[n] = row[m] => n = m
       /\ schedule' = [i \in Schedules |->
            IF \E n \in DOMAIN row : row[n] = i
            THEN [state |-> "live",
                  name |-> CHOOSE n \in DOMAIN row : row[n] = i]
            ELSE schedule[i]]
  /\ Reply(r)
  /\ UNCHANGED yearOpen

\* One transaction creates the missing rows: a name that is taken, by a
\* deleted row too, rolls all of them back (ScheduleAbandon).
InsertSchedules(r) ==
  /\ req[r].op = "fill"
  /\ req[r].names \cap TakenNames = {}
  /\ \E row \in [req[r].names -> Unused] :
       /\ \A n, m \in DOMAIN row : row[n] = row[m] => n = m
       /\ schedule' = [i \in Schedules |->
            IF \E n \in DOMAIN row : row[n] = i
            THEN [state |-> "live",
                  name |-> CHOOSE n \in DOMAIN row : row[n] = i]
            ELSE schedule[i]]
  /\ Reply(r)
  /\ UNCHANGED yearOpen

ScheduleAbandon(r) == Abandon(r) /\ UNCHANGED scheduleRows

\* Whatever handler r may do next.
SchedulesHandler(r) ==
  \/ DropYear(r)
  \/ \E i \in Schedules : \/ \E name \in Terms :
                               \/ CreateExamSchedule(r, i, name)
                               \/ UpdateExamSchedule(r, i, name)
                          \/ DeleteExamSchedule(r, i)
  \/ WriteSchedule(r) \/ RemoveSchedule(r)
  \/ GenerateSchedules(r) \/ InsertSchedules(r)
  \/ ScheduleAbandon(r)

SchedulesNext == \E r \in Requests : SchedulesHandler(r)

SchedulesSpec == SchedulesInit /\ [][SchedulesNext]_scheduleVars

-----------------------------------------------------------------------------
SchedulesTypeOK ==
  /\ yearOpen \in BOOLEAN
  /\ schedule \in [Schedules -> {Unscheduled} \cup ScheduleRow]
  /\ req \in [Requests -> {Idle} \cup ScheduleReq]

-----------------------------------------------------------------------------
(***************************************************************************)
(* Properties                                                              *)
(***************************************************************************)
\* A generation has still to make the names that no live schedule has, in a
\* year that is there.
MissingStands(q) ==
  q.op = "fill" => yearOpen /\ q.names = MasterTerms \ NamesOf("live")

\* A generation that creates anything leaves every schedule of the master
\* live in a year that is, and what was there as it was ("skips duplicates",
\* academic.service.ts:5007).  Only a schedule that is made, renamed or
\* deleted, or a year that goes, after the generation has looked spoils it.
SchedulesAreWhole ==
  \A r \in Requests :
    \/ ~MissingStands(req[r])
    \/ /\ MissingStands(req[r])'
       /\ InsertSchedules(r) =>
            /\ yearOpen
            /\ \A name \in MasterTerms : \E i \in Schedules :
                 schedule'[i] = [state |-> "live", name |-> name]
            /\ \A i \in Schedules \ Unused :
                 schedule'[i] = schedule[i]
    \/ ~SchedulesHandler(r)
=============================================================================
