SPECIFICATION DeskSpec
CONSTANTS
  Services = {"transport", "attendance", "catalog", "records", "timetable",
              "holidays", "organisation", "accounts", "fees", "posts",
              "schedules", "routes", "gateway"}
  Requests = {r1, r2}
  Null = Null
  Riders = {p1, p2}
  Trips = {t1}
  Vehicles = {v1}
  Capacities = {1}
  Allocations = {a1, a2, a3}
  ActiveEdits = {FALSE, Null}
  Pupils = {p1, p2}
  Marks = {"PRESENT", "ABSENT"}
  Blobs = {q1}
  MaxSheet = 1
  Years = {y1}
  SeedYears = {y1}
  CurrentYears = {y1}
  n1 = n1
  n2 = n2
  Names = {n1, n2}
  Batches <- MCOneBatch
  Parents = {p1, p2}
  Students = {q1}
  Teachers = {p1}
  Groups = {q1, q2}
  Slots = {o1}
  Lessons = {l1, l2}
  Forms = {q1, q2}
  Sections = {z1}
  Entries = {e1, e2}
  Dates = {1, 2}
  YearDates <- MCYearDates
  Weekday <- MCWeekday
  Occurrence <- MCOccurrence
  SlNos = {1, 2}
  Uploads <- FewCalendars
  WeekendEdits <- MCFewWeekends
  MatrixEdits <- MCMatrixEdits
  MasterCalendar <- MCMasterCalendar
  MasterWeekend <- MCMasterWeekend
  MasterMatrix <- MCMasterMatrix
  MasterHolidays <- MCMasterHolidays
  Departments = {1, 2}
  x1 = x1
  StaffRoles = {x1}
  SeedOrg <- MCSeedOrg
  MasterOrgs <- MCFlatOrgs
  Employees = {p1, p2}
  MaxBackfills = 1
  Categories = {a1, a2}
  Labels = {n1}
  Catalogues <- MCOneCatalogue
  Posts = {q1}
  Titles = {n1, n2}
  Trimmed <- MCTrimmed
  Staff = {p1, p2}
  Courses = {z1}
  Schedules = {a1, a2}
  Terms = {1, 2}
  MasterTerms = {1, 2}
  b1 = b1
  h1 = h1
  h2 = h2
  VehicleNos = {b1}
  StopNames = {h1}
  RouteCodes = {n1}
  MaxTrips = 1
  MaxStops = 2
  TripForms <- MCOneTripForms
  StopForms <- MCOneStopForms
  SeedPlan <- MCOneSeedPlan
  EnoughRoutes = 2
  Calls = {p1, p2, a1}
  Keys = {q1, e1}
  KeyTTL = 2
SYMMETRY OverlapSymmetry
INVARIANTS
  DeskTypeOK
  OversoldByOverlapOnly
  FullTokensAreEarned
  OncePerKey
  AnswersAreFounded
PROPERTIES
  
  NothingHangsOnDeleted
  LinksStayFounded
  PostsStayFounded
  GridKeepsSound
  SeatsStayChecked
  SettledStaysFrozen
  SourcesStayOrdered
  ImportsAreComplete
CHECK_DEADLOCK FALSE
