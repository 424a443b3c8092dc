SPECIFICATION DeskSpec
CONSTANTS
  Services = {"catalog", "holidays", "organisation", "fees", "schedules",
              "routes"}
  Requests = {r1}
  Null = Null
  Riders = {p1, p2}
  Trips = {q1, q2}
  Vehicles = {v1}
  Capacities = {0, 1}
  Allocations = {a1, a2}
  ActiveEdits = {TRUE, FALSE, Null}
  Pupils = {p1, p2}
  Marks = {"PRESENT", "ABSENT"}
  Blobs = {q1, q2}
  MaxSheet = 2
  Years = {y1, y2}
  SeedYears = {y1, y2}
  CurrentYears = {y1}
  n1 = n1
  n2 = n2
  Names = {n1, n2}
  Batches <- MCBatches
  Parents = {p1, p2}
  Students = {q1, q2}
  Teachers = {p1, p2}
  Groups = {q1, q2}
  Slots = {o1, o2}
  Lessons = {l1}
  Forms = {q1, q2}
  Sections = {z1}
  Entries = {e1, e2}
  Dates = {1, 2, 3}
  YearDates <- MCYearDates
  Weekday <- MCWeekday
  Occurrence <- MCOccurrence
  SlNos = {1, 2}
  Uploads <- Calendars
  WeekendEdits <- MCWeekendEdits
  MatrixEdits <- MCMatrixEdits
  MasterCalendar <- MCMasterCalendar
  MasterWeekend <- MCMasterWeekend
  MasterMatrix <- MCMasterMatrix
  MasterHolidays <- MCMasterHolidays
  Departments = {1, 2, 3}
  x1 = x1
  StaffRoles = {x1}
  SeedOrg <- MCSeedOrg
  MasterOrgs <- MCMasterOrgs
  Employees = {p1, p2}
  MaxBackfills = 1
  Categories = {a1, a2, a3}
  Labels = {n1, n2}
  Catalogues <- MCCatalogues
  Posts = {q1}
  Titles = {n1, n2}
  Trimmed <- MCTrimmed
  Staff = {p1, p2}
  Courses = {z1, z2}
  Schedules = {a1, a2, a3}
  Terms = {1, 2, 3}
  MasterTerms = {1, 2}
  b1 = b1
  h1 = h1
  h2 = h2
  VehicleNos = {b1}
  StopNames = {h1, h2}
  RouteCodes = {n1}
  MaxTrips = 2
  MaxStops = 3
  TripForms <- MCTripForms
  StopForms <- MCStopForms
  SeedPlan <- MCSeedPlan
  EnoughRoutes = 2
  Calls = {p1, p2}
  Keys = {q1}
  KeyTTL = 2
SYMMETRY SerialSymmetry
PROPERTIES
  SourcesStayOrdered
  ImportsAreComplete
CHECK_DEADLOCK FALSE
