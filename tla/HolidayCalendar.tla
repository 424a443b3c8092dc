-------------------------- MODULE HolidayCalendar ---------------------------
(***************************************************************************)
(* The academic calendar of one year and the holiday list made from it     *)
(* (academic.service.ts of tenant-service): the calendar is uploaded or    *)
(* cloned from MASTER_TEMPLATE, the engine generates holiday entries from  *)
(* the calendar, the weekend configuration and the matrix rules, a clone   *)
(* brings the master's entries, and people edit entries by hand.           *)
(*                                                                         *)
(* Abstracted: which half of the day is off and the wording of an entry;   *)
(* weekend and matrix configuration is saved and cloned as a whole; a      *)
(* batch of 50 upserts is one upsert.                                      *)
(***************************************************************************)
EXTENDS Handlers

CONSTANTS
  Dates,        \* numbered days: those of the year and some outside it
  YearDates,    \* the days of the academic year
  Weekday,      \* the day of the week of a date
  Occurrence,   \* a weekday with its number within the month, per date
  SlNos,        \* serial numbers of calendar entries
  Uploads,      \* valid calendars an upload may carry
  WeekendEdits, \* weekend configurations that may be saved
  MatrixEdits,  \* sets of weekday occurrences the matrix may give off
  MasterCalendar, MasterWeekend, MasterMatrix, \* rows of MASTER_TEMPLATE
  MasterHolidays                               \* ... and its entries' source

ASSUME DatesAssumption == YearDates \subseteq Dates /\ Dates \subseteq Nat
ASSUME SlNosAssumption == SlNos \subseteq Nat

VARIABLES
  calendar,     \* AcademicCalendarEntry rows, per serial number
  weekend,      \* WeekendConfig: none, half or full, per day of the week
  matrix,       \* HolidayMatrixRule: the occurrences that are off
  holiday       \* HolidayEntry rows, per date

policies == <<calendar, weekend, matrix>>
holidayVars == <<policies, holiday, req>>

CalendarTypes == {"Holiday", "Vacation_Start", "Vacation_End", "Other"}
CalendarRow == [date : Dates, type : CalendarTypes]
Calendar == [SlNos -> CalendarRow \cup {Null}]

WeekendConfig == [{Weekday[d] : d \in Dates} -> {"none", "half", "full"}]
Occurrences == {Occurrence[d] : d \in Dates}

Sources == {"CALENDAR", "WEEKEND", "MATRIX", "MANUAL"}
HolidayRow == [source : Sources, isManual : BOOLEAN, live : BOOLEAN]

ASSUME NoHolidayAssumption == Null \notin HolidayRow
ASSUME UploadsAssumption ==
  Uploads \subseteq Calendar /\ MasterCalendar \in Calendar
ASSUME PoliciesAssumption ==
  /\ WeekendEdits \subseteq WeekendConfig /\ MasterWeekend \in WeekendConfig
  /\ MatrixEdits \subseteq SUBSET Occurrences
  /\ MasterMatrix \subseteq Occurrences
ASSUME MasterHolidaysAssumption ==
  DOMAIN MasterHolidays \subseteq Dates
    /\ \A d \in DOMAIN MasterHolidays : MasterHolidays[d] \in Sources

\* A plan gives the source of the entry each of some dates is to have.
GenerateReq == [op : {"generate"}, at : {"protect", "upsert"},
                plan : UNION {[days -> Sources] : days \in SUBSET Dates},
                todo : SUBSET Dates]
CloneCalendarReq == [op : {"cloneCalendar"}, todo : SUBSET SlNos]
CloneReq == [op : {"clone"}, at : {"manual", "upsert"},
             todo : SUBSET Dates]

HolidayRequest == {Idle} \cup GenerateReq \cup CloneCalendarReq
                    \cup CloneReq

HolidayInit ==
  /\ calendar = [n \in SlNos |-> Null]
  /\ weekend = [w \in {Weekday[d] : d \in Dates} |-> "none"]
  /\ matrix = {}
  /\ holiday = [d \in Dates |-> Null]
  /\ HandlersInit

LiveHoliday(d) == holiday[d] # Null /\ holiday[d].live
ManualDates == {d \in Dates : LiveHoliday(d) /\ holiday[d].isManual}
ProtectedDates ==
  ManualDates \cup {d \in Dates : LiveHoliday(d)
                                    /\ holiday[d].source = "CALENDAR"}

-----------------------------------------------------------------------------
(***************************************************************************)
(* The calendar and the policies                                           *)
(***************************************************************************)
\* uploadAcademicCalendar replaces the calendar in one transaction; the
\* entries are really deleted, the middleware does not cover them.
UploadAcademicCalendar(r, upload) ==
  /\ req[r] = Idle
  /\ calendar' = upload
  /\ UNCHANGED <<weekend, matrix, holiday, req>>

SaveWeekendConfig(r, config) ==
  /\ req[r] = Idle
  /\ weekend' = config
  /\ UNCHANGED <<calendar, matrix, holiday, req>>

SaveMatrixRules(r, rules) ==
  /\ req[r] = Idle
  /\ matrix' = rules
  /\ UNCHANGED <<calendar, weekend, holiday, req>>

\* cloneAcademicCalendarFromMaster upserts the master's entries one by one.
CloneAcademicCalendar(r) ==
  /\ req[r] = Idle
  /\ LET rows == {n \in SlNos : MasterCalendar[n] # Null}
     IN rows # {} /\ Continue(r, [op |-> "cloneCalendar", todo |-> rows])
  /\ UNCHANGED <<policies, holiday>>

\* The loops go through their todo in ascending order.
Due(todo) == {n \in todo : \A m \in todo : n <= m}

\* What is left of a loop; the call is done when that is nothing.
Proceed(r, rest) ==
  IF rest = {} THEN Reply(r) ELSE Continue(r, [req[r] EXCEPT !.todo = rest])

UpsertCalendarEntry(r) ==
  /\ req[r].op = "cloneCalendar"
  /\ \E n \in Due(req[r].todo) :
       /\ calendar' = [calendar EXCEPT ![n] = MasterCalendar[n]]
       /\ Proceed(r, req[r].todo \ {n})
  /\ UNCHANGED <<weekend, matrix, holiday>>

-----------------------------------------------------------------------------
(***************************************************************************)
(* The generation engine                                                   *)
(***************************************************************************)
Filled == {n \in SlNos : calendar[n] # Null}

\* The places the entries are read in: by date, and in any order where several
\* have the same date, which neither the upload nor the clone forbids.
Readings ==
  {place \in [Filled -> 1 .. Cardinality(Filled)] :
     \A n, m \in Filled :
       /\ place[n] = place[m] => n = m
       /\ calendar[n].date < calendar[m].date => place[n] < place[m]}

Boundary(n) == calendar[n].type \in {"Vacation_Start", "Vacation_End"}

\* A Vacation_End closes the Vacation_Start read before it when no other of
\* the two comes between; the dates from one to the other are off.
VacationDates(place) ==
  UNION {calendar[pair[1]].date .. calendar[pair[2]].date : pair \in
    {pair \in Filled \X Filled :
       /\ calendar[pair[1]].type = "Vacation_Start"
       /\ calendar[pair[2]].type = "Vacation_End"
       /\ place[pair[1]] < place[pair[2]]
       /\ \A n \in Filled : Boundary(n) =>
            ~(place[pair[1]] < place[n] /\ place[n] < place[pair[2]])}}

CalendarDates(place) ==
  (VacationDates(place) \cap Dates)
    \cup {calendar[n].date : n \in {m \in Filled :
                                     calendar[m].type = "Holiday"}}

\* The engine's answer for a date of the year, by priority: the calendar, of
\* which off are the dates, a full weekend day, a matrix rule, a half weekend
\* day.
Planned(d, off) ==
  CASE d \in off -> "CALENDAR"
    [] d \notin off /\ weekend[Weekday[d]] = "full" -> "WEEKEND"
    [] d \notin off /\ weekend[Weekday[d]] # "full"
         /\ Occurrence[d] \in matrix -> "MATRIX"
    [] d \notin off /\ Occurrence[d] \notin matrix
         /\ weekend[Weekday[d]] = "half" -> "WEEKEND"
    [] OTHER -> "none"

\* Calendar dates outside the year are added to those walked.
PlannedDates(off) ==
  {d \in YearDates \cup off : Planned(d, off) # "none"}

\* What generateHolidays holds for the dates of a plan.
Plan(days, off) ==
  [op |-> "generate", at |-> "protect",
   plan |-> [d \in days |-> Planned(d, off)], todo |-> {}]

\* Mutant: entries made by hand are planned over.
PlanEverything(r) ==
  /\ req[r] = Idle
  /\ Filled # {}
  /\ \E place \in Readings :
       LET off == CalendarDates(place)
       IN Continue(r, Plan(PlannedDates(off), off))
  /\ UNCHANGED <<policies, holiday>>

\* generateHolidays up to its last read before the plan; an empty calendar
\* is refused, and a preview ends here.
GenerateHolidays(r) ==
  /\ req[r] = Idle
  /\ Filled # {}
  /\ \E place \in Readings :
       LET off == CalendarDates(place)
       IN Continue(r, Plan(PlannedDates(off) \ ManualDates, off))
  /\ UNCHANGED <<policies, holiday>>

\* Weekend and matrix days give way to protected entries.
ProtectEntries(r) ==
  /\ req[r].op = "generate" /\ req[r].at = "protect"
  /\ LET plan == req[r].plan
         todo == {d \in DOMAIN plan :
                    plan[d] = "CALENDAR" \/ d \notin ProtectedDates}
     IN IF todo = {}
        THEN Reply(r)
        ELSE Continue(r, [req[r] EXCEPT !.at = "upsert", !.todo = todo])
  /\ UNCHANGED <<policies, holiday>>

\* The upsert takes an entry over from whoever made it, but does not clear
\* softDelete.
Generated(row, source) ==
  [source |-> source, isManual |-> FALSE, live |-> row = Null \/ row.live]

UpsertHoliday(r) ==
  /\ req[r].op = "generate" /\ req[r].at = "upsert"
  /\ \E d \in Due(req[r].todo) :
       /\ holiday' = [holiday EXCEPT ![d] = Generated(@, req[r].plan[d])]
       /\ Proceed(r, req[r].todo \ {d})
  /\ UNCHANGED policies

-----------------------------------------------------------------------------
(***************************************************************************)
(* Clone from MASTER_TEMPLATE                                              *)
(***************************************************************************)
CloneHolidays(r) ==
  /\ req[r] = Idle
  /\ Filled # {}
  /\ weekend' = MasterWeekend
  /\ matrix' = matrix \cup MasterMatrix
  /\ Continue(r, [op |-> "clone", at |-> "manual", todo |-> {}])
  /\ UNCHANGED <<calendar, holiday>>

ReadManualEntries(r) ==
  /\ req[r].op = "clone" /\ req[r].at = "manual"
  /\ LET todo == DOMAIN MasterHolidays \ ManualDates
     IN IF todo = {}
        THEN Reply(r)
        ELSE Continue(r, [req[r] EXCEPT !.at = "upsert", !.todo = todo])
  /\ UNCHANGED <<policies, holiday>>

\* The upsert makes a deleted entry live again and leaves isManual alone.
Cloned(row, source) ==
  [source |-> source, isManual |-> row # Null /\ row.isManual, live |-> TRUE]

CloneHoliday(r) ==
  /\ req[r].op = "clone" /\ req[r].at = "upsert"
  /\ \E d \in Due(req[r].todo) :
       /\ holiday' = [holiday EXCEPT ![d] = Cloned(@, MasterHolidays[d])]
       /\ Proceed(r, req[r].todo \ {d})
  /\ UNCHANGED policies

-----------------------------------------------------------------------------
(***************************************************************************)
(* Entries by hand                                                         *)
(***************************************************************************)
\* The unique key on the date ignores softDelete.
CreateHolidayEntry(r, d) ==
  /\ req[r] = Idle
  /\ holiday[d] = Null
  /\ holiday' = [holiday EXCEPT ![d] = [source |-> "MANUAL",
                                        isManual |-> TRUE, live |-> TRUE]]
  /\ UNCHANGED <<policies, req>>

UpdateHolidayEntry(r, d) ==
  /\ req[r] = Idle
  /\ LiveHoliday(d)
  /\ holiday' = [holiday EXCEPT ![d].isManual = TRUE]
  /\ UNCHANGED <<policies, req>>

DeleteHolidayEntry(r, d) ==
  /\ req[r] = Idle
  /\ LiveHoliday(d)
  /\ holiday' = [holiday EXCEPT ![d].live = FALSE]
  /\ UNCHANGED <<policies, req>>

HolidayAbandon(r) == Abandon(r) /\ UNCHANGED <<policies, holiday>>

\* Whatever handler r may do next.
HolidayHandler(r) ==
  \/ \E upload \in Uploads : UploadAcademicCalendar(r, upload)
  \/ \E config \in WeekendEdits : SaveWeekendConfig(r, config)
  \/ \E rules \in MatrixEdits : SaveMatrixRules(r, rules)
  \/ CloneAcademicCalendar(r) \/ UpsertCalendarEntry(r)
  \/ GenerateHolidays(r) \/ ProtectEntries(r) \/ UpsertHoliday(r)
  \/ CloneHolidays(r) \/ ReadManualEntries(r) \/ CloneHoliday(r)
  \/ \E d \in Dates : \/ CreateHolidayEntry(r, d)
                      \/ UpdateHolidayEntry(r, d)
                      \/ DeleteHolidayEntry(r, d)
  \/ HolidayAbandon(r)

HolidayNext == \E r \in Requests : HolidayHandler(r)

HolidaySpec == HolidayInit /\ [][HolidayNext]_holidayVars

-----------------------------------------------------------------------------
HolidayTypeOK ==
  /\ calendar \in Calendar
  /\ weekend \in WeekendConfig
  /\ matrix \subseteq Occurrences
  /\ holiday \in [Dates -> HolidayRow \cup {Null}]
  /\ req \in [Requests -> HolidayRequest]

-----------------------------------------------------------------------------
(***************************************************************************)
(* Properties                                                              *)
(***************************************************************************)
\* The rule, read off the calendar without the engine's walk: a date the
\* calendar gives off is a holiday, or lies between a start of a vacation
\* and its end, when neither shares its date with another start or end.
\* (Where they do, the order of reading decides, and may lose the vacation.)
OffInCalendar(d) ==
  \/ \E n \in Filled : calendar[n].date = d /\ calendar[n].type = "Holiday"
  \/ \E s, e \in Filled :
       /\ calendar[s].type = "Vacation_Start"
       /\ calendar[e].type = "Vacation_End"
       /\ calendar[s].date < calendar[e].date
       /\ d \in calendar[s].date .. calendar[e].date
       /\ \A n \in Filled \ {s, e} : Boundary(n) =>
            \/ calendar[n].date < calendar[s].date
            \/ calendar[e].date < calendar[n].date

SaysOff(d) == holiday[d] # Null /\ holiday[d].source = "CALENDAR"

\* What handler q has read of the calendar and of the entries is still so:
\* its plan has every date off and none that was made by hand, what it has
\* still to write gives way to protected entries, and what it has written
\* says so.
SourcesStand(q) ==
  /\ q.op = "generate" =>
       /\ DOMAIN q.plan \cap ManualDates = {}
       /\ \A d \in Dates : OffInCalendar(d) =>
            \/ d \in ManualDates
            \/ d \in DOMAIN q.plan /\ q.plan[d] = "CALENDAR"
       /\ q.at = "upsert" =>
            /\ \A d \in q.todo \cap ProtectedDates : q.plan[d] = "CALENDAR"
            /\ \A d \in DOMAIN q.plan \ q.todo :
                 q.plan[d] = "CALENDAR" => SaysOff(d)
  /\ q.op = "clone" => q.todo \cap ManualDates = {}

\* The sources keep their order.  An entry made or edited by hand is changed
\* by hand only: neither the engine nor the clone touches it.  The engine does
\* not turn a live calendar entry into a weekend or matrix one.  And when it
\* ends, every date off in the calendar has an entry that says so, one made by
\* hand, or a deleted one.  Only an engine or a clone that an upload, an edit
\* or another of them has overtaken breaks that.
SourcesKeepTheirOrder ==
  \A r \in Requests :
    \/ ~SourcesStand(req[r])
    \/ /\ SourcesStand(req[r])'
       /\ req[r] # Idle => \A d \in ManualDates : holiday'[d] = holiday[d]
       /\ req[r].op = "generate" =>
            \A d \in ProtectedDates :
              holiday'[d].source \in {holiday[d].source, "CALENDAR"}
       /\ UpsertHoliday(r) /\ req'[r] = Idle =>
            \A d \in Dates : OffInCalendar(d) =>
              \/ d \in ManualDates
              \/ holiday'[d] # Null /\ holiday'[d].source = "CALENDAR"
    \/ ~HolidayHandler(r)
=============================================================================
