----------------------------- MODULE SchoolDesk -----------------------------
(***************************************************************************)
(* The services of the school office, and the gateway's memory of          *)
(* idempotency keys, side by side.  They share the handlers of Handlers    *)
(* and no tables, so a behaviour is about one of them, the service, and    *)
(* leaves the tables of the others as they were created: the states to     *)
(* explore are the sum of theirs.                                          *)
(***************************************************************************)
EXTENDS Transport, Attendance, SchoolCatalog, StudentRecords, Timetable,
        HolidayCalendar, OrgStructure, StaffAccounts, FeeCatalog,
        TeachingPosts, ExamSchedules, RouteMaster, IdempotencyKeys

CONSTANT Services  \* the services explored

VARIABLE service   \* the one a behaviour is about: never changes

office == <<fleet, allocation>>
register == <<enrolled, sheets>>
people_links == <<people, links>>
holidays == <<policies, holiday>>
orgRows == <<departmentRows, roleRows>>
deskVars == <<service, office, register, catalog, people_links, timetables,
              holidays, orgRows, accounts, feeRows, postRows, scheduleRows,
              masterRows, keyVars, req>>

DeskInit ==
  /\ service \in Services
  /\ TransportInit /\ AttendanceInit /\ CatalogInit
  /\ RecordsInit /\ TimetableInit /\ HolidayInit
  /\ OrgInit /\ StaffInit /\ FeeCatalogInit
  /\ PostsInit /\ SchedulesInit /\ MasterInit
  /\ IdempotencyInit
  /\ service # "transport" =>
       /\ trip = [t \in Trips |-> Null]
       /\ capacity = [v \in Vehicles |-> CHOOSE seats \in Capacities : TRUE]
  /\ service # "attendance" => enrolled = {}
  /\ service # "catalog" => poolTable = "Section"

\* A step of the service own, whose tables are not among those of others.
Only(own, step, others) ==
  service = own /\ step /\ UNCHANGED <<service, others>>

DeskNext ==
  \/ Only("transport", TransportNext,
          <<register, catalog, people_links, timetables, holidays, orgRows,
            accounts, feeRows, postRows, scheduleRows, masterRows, keyVars>>)
  \/ Only("attendance", AttendanceNext,
          <<office, catalog, people_links, timetables, holidays, orgRows,
            accounts, feeRows, postRows, scheduleRows, masterRows, keyVars>>)
  \/ Only("catalog", CatalogNext,
          <<office, register, people_links, timetables, holidays, orgRows,
            accounts, feeRows, postRows, scheduleRows, masterRows, keyVars>>)
  \/ Only("records", RecordsNext,
          <<office, register, catalog, timetables, holidays, orgRows,
            accounts, feeRows, postRows, scheduleRows, masterRows, keyVars>>)
  \/ Only("timetable", TimetableNext,
          <<office, register, catalog, people_links, holidays, orgRows,
            accounts, feeRows, postRows, scheduleRows, masterRows, keyVars>>)
  \/ Only("holidays", HolidayNext,
          <<office, register, catalog, people_links, timetables, orgRows,
            accounts, feeRows, postRows, scheduleRows, masterRows, keyVars>>)
  \/ Only("organisation", OrgNext,
          <<office, register, catalog, people_links, timetables, holidays,
            accounts, feeRows, postRows, scheduleRows, masterRows, keyVars>>)
  \/ Only("accounts", StaffNext,
          <<office, register, catalog, people_links, timetables, holidays,
            orgRows, feeRows, postRows, scheduleRows, masterRows, keyVars>>)
  \/ Only("fees", FeeCatalogNext,
          <<office, register, catalog, people_links, timetables, holidays,
            orgRows, accounts, postRows, scheduleRows, masterRows, keyVars>>)
  \/ Only("posts", PostsNext,
          <<office, register, catalog, people_links, timetables, holidays,
            orgRows, accounts, feeRows, scheduleRows, masterRows,
            keyVars>>)
  \/ Only("schedules", SchedulesNext,
          <<office, register, catalog, people_links, timetables, holidays,
            orgRows, accounts, feeRows, postRows, masterRows, keyVars>>)
  \/ Only("routes", MasterNext,
          <<office, register, catalog, people_links, timetables, holidays,
            orgRows, accounts, feeRows, postRows, scheduleRows, keyVars>>)
  \/ Only("gateway", IdempotencyNext,
          <<office, register, catalog, people_links, timetables, holidays,
            orgRows, accounts, feeRows, postRows, scheduleRows,
            masterRows>>)

DeskSpec == DeskInit /\ [][DeskNext]_deskVars

-----------------------------------------------------------------------------
DeskTypeOK ==
  /\ service = "transport" => TransportTypeOK
  /\ service = "attendance" => AttendanceTypeOK
  /\ service = "catalog" => CatalogTypeOK
  /\ service = "records" => RecordsTypeOK
  /\ service = "timetable" => TimetableTypeOK
  /\ service = "holidays" => HolidayTypeOK
  /\ service = "organisation" => OrgTypeOK
  /\ service = "accounts" => StaffTypeOK
  /\ service = "fees" => FeeCatalogTypeOK
  /\ service = "posts" => PostsTypeOK
  /\ service = "schedules" => SchedulesTypeOK
  /\ service = "routes" => MasterTypeOK
  /\ service = "gateway" => IdempotencyTypeOK

\* What is deleted after its dependants were counted has none, unless the
\* count, or the look-up of a handler that adds one, was overtaken: a deleted
\* academic year has no class, a deleted fee category has no live structure
\* and a deleted route neither trips nor stops.
NothingHangsOnDeleted ==
  [][/\ service = "catalog" => YearsStayEmpty
     /\ service = "fees" => FeesKeepCategories
     /\ service = "routes" => RoutesStayClear]_deskVars

\* Only handlers that were overtaken join students and parents, or enrol a
\* student, where one of the rows is deleted (LinksAreFounded).
LinksStayFounded == [][service = "records" => LinksAreFounded]_deskVars

\* Only they name, appoint or link what is no longer there (PostsAreFounded).
PostsStayFounded == [][service = "posts" => PostsAreFounded]_deskVars

\* Only they give a teacher two classes at once, or a class two entries in a
\* period (GridStaysSound).
GridKeepsSound == [][service = "timetable" => GridStaysSound]_deskVars

\* Only they seat a student where there is no seat, or a second time
\* (AllocationsAreChecked).
SeatsStayChecked ==
  [][service = "transport" => AllocationsAreChecked]_deskVars

\* Only they write attendance that is settled (SettledAttendanceIsFrozen).
SettledStaysFrozen ==
  [][service = "attendance" => SettledAttendanceIsFrozen]_deskVars

\* Only they let a weaker source of holidays replace a stronger one
\* (SourcesKeepTheirOrder).
SourcesStayOrdered ==
  [][service = "holidays" => SourcesKeepTheirOrder]_deskVars

\* A deleted row is only marked, in every table the soft-delete middleware
\* covers and in those that set the mark themselves, and the unique keys
\* count it.  Whatever the handlers of a service do together, none of its
\* upserts, seeds and bulk saves shows a deleted row again, and no lesson
\* takes the place of a deleted one.  (A holiday entry is the exception: the
\* clone revives it.)
NothingIsRevived ==
  /\ RecordsStayDeleted
  /\ CatalogStaysDeleted
  /\ LinksStayDeleted
  /\ OrgStaysDeleted
  /\ PostsStayDeleted
  /\ RoutesStayDeleted
  /\ []LessonsStayDeleted

\* The seeds and the copies from MASTER_TEMPLATE of every service make what
\* they promise whole, or in the steps that the next run completes, unless
\* another handler changes what they have read or made before they end.
ImportsAreComplete ==
  [][/\ service = "catalog" => SeedsAreWhole
     /\ service = "organisation" => ImportsAreWhole
     /\ service = "fees" => CopiesAreWhole
     /\ service = "schedules" => SchedulesAreWhole
     /\ service = "routes" => RouteWritesAreWhole]_deskVars
=============================================================================
