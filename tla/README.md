# SME: specifications, model checking and proofs

SME is a multi-tenant school management system: a NestJS monorepo in which an
API gateway, five services and two Next.js applications share PostgreSQL
databases (one per service) and a RabbitMQ topic exchange. This directory holds
TLA+ models of the parts where the order of events matters, the TLC
configurations that check them on small instances, and TLAPS proofs of what
holds for every instance.

Paths below are relative to `src/`; `tenant/`, `iam/`, `config/`, `audit/` and
`gateway/` abbreviate `apps/tenant-service/src/`, `apps/iam-service/src/`,
`apps/config-service/src/`, `apps/audit-service/src/` and
`apps/api-gateway/src/`.

## 1. How the program runs, and what a step is

Every service is one Node process. An HTTP request or a consumed message is an
`async` handler, and between two `await`s a handler runs alone. Handlers of
different requests interleave at their awaits, and the services interleave
freely. So the models take **one action per stretch of code between two
awaits**, normally one SQL statement with the reading of its result. What a
handler holds in its local variables across an await is a record in the
variable `req` (or `consumer`, `seeder`, `login`, `activation`).

Prisma's `$transaction` runs at PostgreSQL's default READ COMMITTED and no query
of the modelled services locks the rows it reads. A transaction that only
writes is one step (its statements take row or index locks that serialise two of
them on the same rows); what the handler read before the transaction is an
earlier step, and stale.

A handler may fail at any await: a lost connection, a constraint, a thrown
exception, the death of the process. The effects of the statements before it
stay, unless one transaction holds them.

Where a validation makes several look-ups of rows that one property relates, the
module's header says that they are one step. That keeps the gap which matters,
the one between the last look-up and the write.

## 2. Inventory

### Modelled in this directory

**Finance engine** — `tenant/finance.service.ts`. State: `FeeStructure` (unique
per tenant, year, class, category), `FeeInvoice` (unique per student and
structure), `FeePayment`; soft-deleted structures keep their unique key.
Operations: create, update, delete and seed structures; generate invoices for
the students of a class; collect a payment; each ends by publishing an audit
event. Hard: `collectPayment` reads `amountPaid` outside its transaction and
writes an absolute value; `deleteFeeStructure` counts invoices before it
deletes; `generateInvoices` selects students before it inserts; seeding is a
loop of look-ups and writes. Correct when: invoices never show money that was
not received, status and amounts agree, settled invoices take no money and
structures with invoices live on unless handlers overtake each other, and no
audit event reports what did not happen.

**Fee categories and copies from the master** — the same file. State: the tree of
`FeeCategory`, the structures of a class against it. Operations: create, rename,
delete; move a structure; seed the leaves; `generateFromMaster`. Hard: deletion
counts structures before it deletes; the copy is a loop without a transaction;
rows at the top have a NULL parent, which no unique key counts. Correct when: no
live structure hangs on a deleted category, and a copy that was given up is
completed, not repeated, by the next.

**Exam engine** — `tenant/exam.service.ts` and the exam part of
`tenant/academic.service.ts`. State: `Exam.status`, `ExamSubject`,
`StudentMark`, `ExamSectionLock`, and the computed `StudentExamResult`,
`StudentExamAggregate`, `SubjectExamAnalytics`. Two services write the same
tables: the first guards them by the status of the exam, the second never looks
at the status. The soft-delete middleware (`libs/common`) turns every
`deleteMany` into an update. Correct when: no mark is lost, the report card and
the merit list tell the same story, ranks follow the totals, a published exam
is frozen and its figures are those of its marks.

**Onboarding of a school** — `gateway/app.service.ts`,
`tenant/app.service.ts`, `iam/app.service.ts`, `iam/tenant-created.consumer.ts`.
State: the `Tenant` row in one database, users, roles, permissions and processed
events in another, the message `tenant.TenantCreated` in the broker. Operations:
register, publish, consume, activate (two calls to two services), create user,
assign a role, log in. Hard: no common transaction, a message that can be lost,
delivered twice or dropped, process start-up beside consumption, activation
racing the event, a login that reads two services. Correct when: a handled event
has provisioned the administrator, a token for the school rests on its
activation and one for the platform on the role PLATFORM_ADMIN, and nothing
done is undone.

**Configuration and entitlements** — `config/app.service.ts`,
`config/tenant-created.consumer.ts`. State: `ConfigMaster` (versions of each
key, one active), `ModuleEntitlement`, `ProcessedEvent`. Operations: save
(deactivate, insert), roll back (deactivate all, activate), toggle a module,
seed the defaults of a new tenant. Hard: none of it in a transaction, and the
seeding runs beside administrators and may be repeated after a crash. Correct
when: versions have no gap and at most one is active, a recorded event has
seeded everything, and seeding overwrites nobody's choice.

**Transport** — `tenant/transport-allocation.service.ts`, and of
`tenant/transport.service.ts` what its checks read. State: capacity of a
vehicle, vehicle of a trip, `TransportAllocation`. Operations: allocate, update,
revoke; edit a vehicle; assign one to a trip. Hard: seats are counted trip by
trip and the row is written later; an update counts only the trips it changes.
Correct when: a seat is given only while one is free, and a student has one
allocation.

**Transport master data** — `tenant/transport.service.ts`. State: vehicles, stops
and routes with their trips and stops, in MASTER_TEMPLATE; the copy of a school.
Operations: create and delete each; save a route with its trips and stops; seed;
clone. Hard: the route is looked up outside the transaction that saves it; the
save works row by row against unique keys that deleted rows still hold; seed and
clone look for live rows only. Correct when: what is shown hangs on a route that
is shown, a save leaves just what the form had on the rows it came from, and a
seed or a clone is whole.

**Attendance** — `tenant/attendance.service.ts` and the bulk saves and the log of
`tenant/academic.service.ts`. State: session OPEN or CLOSED, records, the log and
its lock. Hard: marks are written one by one after the look at the session; three
operations write the same rows. Correct when: what is closed or locked stays as
it is.

**School catalogue** — `tenant/academic.service.ts`. State: years, classes, and the
pools of sections, subjects and periods. Operations: rows one by one; seeds from
a list, from MASTER_TEMPLATE, and Quick Setup. Hard: deletion and creation check
each other's rows before they write; unique keys count deleted rows; the clean-up
before a seed works for one of the three pools. Correct when: a deleted year is
empty, and a seed is whole.

**Teaching posts** — `tenant/academic.service.ts`. State: the sections of classes
under a display name, the class teacher of each, the subjects of each teacher.
Operations: edits of all three, assignment of several subjects in a loop,
replacement in `updateTeacher`, deletion of what they refer to. Hard: three
policies of deletion in one place (a mark set by the handler, a mark set by the
middleware, a row deleted for good), and references checked before the write.
Correct when: whoever is appointed exists, and a deleted row is not shown again.

**Exam schedules** — `tenant/academic.service.ts`. State: the schedules of a year,
by name. Operations: edits; generation from MASTER_TEMPLATE. Hard: generation
looks for live names, the unique key counts deleted ones. Correct when: a
generation that creates anything is whole.

**Students, parents and enrolments** — `tenant/academic.service.ts`. State: both
kinds of people, mappings, enrolments. Hard: five ways to write a mapping, each
validating before its transaction. Correct when: links join live rows.

**Timetable** — `tenant/timetable.service.ts`. State: lessons (`ClassTimetable`) and
entries (`TimeTableEntry`). Hard: three look-ups stand in for unique keys that
SQL does not keep when the section is NULL. Correct when: nobody is in two places.

**Holiday calendar** — `tenant/academic.service.ts`. State: the academic calendar,
weekend policy, matrix rules, holiday entries with their source. Operations:
upload, clone, configure, generate, edit by hand. Hard: the engine reads four
tables, decides, then upserts date by date, while others edit. Correct when:
sources keep their order of precedence and hand-made entries stand.

**Departments and roles** — `tenant/hr.service.ts`. State: a hierarchy of
departments and the roles in them. Operations: edits, seed, clone from
MASTER_TEMPLATE. Hard: imports skip what is live and collide with what is deleted.
Correct when: an import is whole or nothing.

**Staff accounts** — `tenant/staff-auth.service.ts`, with the employees of
`tenant/hr.service.ts`. State: password and the duty to change it; tokens. Hard: a
login, a change of password and a backfill of missing passwords overlap. Correct
when: only an employee who has chosen a password holds a token for everything.

**Idempotency keys** — `libs/common/src/interceptors/idempotency.interceptor.ts` and
the client that sends keys, `apps/web-admin/lib/api.ts`. State: a Map in the
gateway's process. Hard: the answer is stored after the handler has run; answers
expire and die with the process. Correct when: an undisturbed key takes effect
once, and an answer is the answer of something done.

**Soft-delete middleware** — `libs/common`. It is not a module: what it makes of
`delete` and `deleteMany` is part of the actions of those whose services use it.

### Not modelled

| Part | Why |
| --- | --- |
| grade scales (`tenant/academic.service.ts`, `ensureDefaultGradeScale` of `tenant/exam.service.ts`) | rows edited one by one, which decide a letter in a report and nothing else; see section 8 |
| edits and deletions of drivers and attendants, names and certificates (`tenant/transport.service.ts`) | rows and columns nothing decides by; the employees behind them are in `StaffAccounts` |
| profile and branding of a school, listings (`tenant/app.service.ts`) | columns nothing decides by |
| dashboards, portal views, portal-service, analytics | read-only |
| audit store (`audit/`) | every insert fails (section 8), so a model has one behaviour |
| guards (`libs/auth`) | decisions on the claims of one token, without state. `ModuleGuard` never refuses (section 8) |
| config client (`libs/config-client`) | its cache is never filled (section 8) |
| tenant client, message publisher (`libs/tenant-client`, `libs/messaging`) | stateless; the outcomes of a publication (delivered, lost) are branches of `PublishTenantCreated` and `PublishAudit` |
| `gateway/tenant-status.consumer.ts` | subscribes to an event nothing publishes and fills a cache nothing reads |
| controllers and DTOs | they pass a validated body to one service method |
| web applications | user interfaces; only `apiRequest`, which decides what is sent again, is in `IdempotencyKeys` |
| `sme-monitor.js` | a developer's dashboard that starts, stops and probes the processes of one Windows machine; it shares no data with the services |
| scripts, seeds, migrations, tests, generated Prisma clients and `.next` builds | run by hand or generated |

The `OutboxEvent` table and `libs/common/src/utils/optimistic-lock.ts` are used
nowhere. There is no leave handling in the code.

Much of the repository is of these kinds (web pages, builds, controllers,
listings), so the models cover a small share of its lines. They cover nearly
every handler of tenant-, iam- and config-service that changes more than one
row or decides by what it has read.

### How the parts interact

The gateway calls tenant-service and iam-service over HTTP, with tokens it
issues itself. tenant-service publishes `tenant.TenantCreated`; iam-service and
config-service consume it, each from a durable queue of its own. Every mutation
publishes `audit.AuditEventRequested` for audit-service. iam-service asks
tenant-service for the tenant status at login. The gateway asks config-service
for entitlements. All finance, exam, attendance, timetable, transport, staff and
catalogue code shares the database of tenant-service, but the parts above touch
disjoint tables, or read others only to find out whether a row exists. That is
why their modules can be composed side by side.

## 3. The modules

| Module | Role |
| --- | --- |
| `FeeLedger` | the finance engine, handler by handler |
| `FeeBook` | abstract fee book the engine implements: issue and receive are single steps |
| `ExamLifecycle` | exam.service and academic.service over the shared exam tables |
| `Onboarding` | tenant-service, broker, iam-service process, consumer, activation, logins for one tenant |
| `ConfigService` | config-service with its consumer for one tenant |
| `Handlers` | what the modules below share: request slots, replies, abandoned handlers |
| `Transport` | vehicles, trips, allocations |
| `RouteMaster` | vehicles, stops and routes of the master, their seed and the copy of a school |
| `Attendance` | session, records, log and lock of one class, section and date |
| `SchoolCatalog` | years, classes and a pool of rows, with their seeds |
| `StudentRecords` | students, parents, mappings, enrolments |
| `Timetable` | the two timetables of one academic year |
| `HolidayCalendar` | academic calendar, policies, generated holidays |
| `OrgStructure` | departments and roles, with their imports |
| `StaffAccounts` | employees, passwords and tokens |
| `FeeCatalog` | the tree of categories, structures against it, the copy from the master |
| `TeachingPosts` | class sections, class teachers, subjects of teachers |
| `ExamSchedules` | exam schedules of a year and their generation |
| `IdempotencyKeys` | clients, the interceptor's memory, the gateway's restarts |
| `SchoolDesk` | the thirteen modules from `Transport` on, side by side |
| `MC...` | the instances for TLC of the module they name (`MCDesk`: `SchoolDesk`) |
| `...Proofs` | theorems: `FeeLedgerProofs`, `ExamLifecycleProofs`, `OnboardingProofs`, `ConfigServiceProofs`, `TransportProofs`, `StaffProofs`, `IdempotencyProofs`, `DeskProofs` |

### FeeLedger

`structure` holds the `FeeStructure` rows by id, each with its unique key (year,
class and category as one value), which an update may change and a deleted row
keeps; `invoice` is keyed by student and structure; `received[i]` is the sum of
the `FeePayment` rows of invoice `i`; `audited` is the set of facts reported, the
one event of a seed for all its rows among them (`BULK`). The handlers:

| Code | Actions |
| --- | --- |
| `collectPayment` | `CollectPayment` (read, check, compute), `CommitPayment` (transaction) |
| `generateInvoices` | `GenerateInvoices`, `SelectStudents`, `InsertInvoices` (createMany fails as a whole on a duplicate) |
| `deleteFeeStructure` | `DeleteFeeStructure`, `CountInvoices`, `SoftDeleteFeeStructure` |
| `seedFeeStructures` | `SeedFeeStructures`, then `SeedFind`, `SeedWrite` per structure, `SeedDone` |
| `createFeeStructure`, `updateFeeStructure` | one action each |
| `publishAudit` | `PublishAudit`: published or lost |

`FeeBook` is what an auditor expects. `Exact = TRUE` credits each payment in
full and refuses money for settled invoices; `Exact = FALSE` allows a payment to
be credited in part, never above what was received. `Book` in `FeeLedger` is the
refinement mapping.

### ExamLifecycle

Tables are functions from the keys present to rows. `EnterMarks`,
`ReadMaxMarks`, `UpsertEntry`, `EntriesDone` are `enterMarks` with its loop of
upserts; `PublishExam`, `ReadSubjects`, `ReadTotals`, `WriteResults` are
`publishExam`; `SaveBulkMarks`, `CheckBulkMarks`, `WriteBulkMarks` are
`saveBulkMarks`; `ProcessExamResults`, `ReadProcessTotals`, `WriteProcessed` are
`processExamResults`. The other operations of both services are one or two
actions. `RejectConflict` is the P2002 a `createMany` meets after the soft-delete
middleware has turned the preceding `deleteMany` into an update. `ExamSpec` runs
the handlers of exam.service alone, `Spec` those of both services.

Grades, GPA, class averages and section ranks are functions of the rows and left
out. ONGOING, COMPLETED and CANCELLED are treated by every guard like DRAFT.

### Onboarding

`tenant` is the row with its two status columns (`status` of type TenantStatus,
`schoolStatus` of type SchoolStatus). `delivery` follows the one message through
the queue: none, ready, unacked, acked, dropped. `bound` says that the queue was
declared by an earlier start of iam-service; before, a published message is
lost. `consumer.at` is the await at which `handleTenantCreatedEvent` stands.
`catalogue` is the `Permission` table, filled by every start of the process
(`SeedPermission`). `Listening` says that both `onModuleInit` hooks are through,
which Nest awaits before the process accepts HTTP requests. `CrashIam` takes
the process down with whatever it was doing; the broker puts an unacked message
back. `userRoles` are the roles of the contact: the tenant's own, some role of the
platform, or PLATFORM_ADMIN, whichever `assignRole` is asked for. `activation[a]`
and `login[l]` are the calls of people. A login of a PLATFORM_ADMIN gets a token
for the platform without a look at the status of the school, as in the code
(`iam/app.service.ts:287`); `tokens` counts the two kinds apart.

The broker and the supervisor that restarts processes are external: their
actions follow from how the code uses them (durable queue, persistent message,
manual ack, `nack(message, false, false)`, no dead-letter exchange).

### ConfigService

`config[k][v]` is the row of version `v` of key `k`: none, active, inactive.
`UpsertOver`, `UpsertFirst`, `DeactivateCurrent`, `InsertVersion` are `upsert`;
`RollbackConfig`, `DeactivateAll`, `ActivateTarget` are `rollbackConfig`;
`toggleModule` is one `INSERT ... ON CONFLICT DO UPDATE` whose SET list names
columns without their table, which PostgreSQL rejects as ambiguous:
`ToggleRejected` is that outcome. `ToggleModule`, what the text of the statement
describes, is kept beside it, so that the properties also cover the statement
with qualified columns; it only adds behaviours. `CheckProcessed` to `Ack` are
the event handler. `RequestFails`, `SeedingFails` and `Crash` are the rejected
awaits and the death of the process.

Abstracting from the order in which the loops visit modules, keys, students and
permissions (a set `todo` in each model) only adds behaviours.

### The school office: SchoolDesk and its thirteen modules

`SchoolDesk` extends thirteen modules that share no tables. A behaviour of it is
about one of them, the constant value of `service`; the others' tables stay as
they were created. So the states of a run are the sum of those of the services,
and one property may speak of several services (`NothingIsRevived`,
`NothingHangsOnDeleted`, `ImportsAreComplete`). Each module also has a
specification of its own (`TransportSpec`, `StaffSpec`, ...), about which the
theorems on it are stated.

| Code | Actions |
| --- | --- |
| `createAllocation`, `updateAllocation` | `CreateAllocation` or `UpdateAllocation` (find, decide which trips to check), per trip `ReadTrip`, `CountSeats`, then `InsertAllocation` or `WriteAllocation` |
| `saveRouteWithTripsAndStops`, `deleteRoute` | `SaveTripsAndStops` (look-up), `WriteRoute` (transaction); `DeleteRoute` |
| `seedMasterData`, `cloneTransportFromMaster` | `SeedTransport`, `WriteTransportSeed`; `CloneTransport` (what the master shows), `WriteClone` |
| `markAttendance` | `MarkAttendance`, `ReadEnrolments`, `WriteMark` per student |
| `deleteAcademicYear`, `createClass` | `DeleteAcademicYear`, `RemoveYear`; `CreateClass`, `InsertClass` |
| `updatePeriod` | `UpdatePeriod` (finds the live row), `RenamePeriod` (writes it by id, live or not) |
| `seed...`, `...FromMaster`, Quick Setup | `SeedCatalog` or `SeedDefaultSetup`, then per table `ResolveYear`, `PurgePool`, `GuardSeed` and an insert |
| `createStudent`, `updateStudent`, `createParent`, `updateParent`, mappings, enrolments | one action for the validation, one for the transaction |
| `upsertEntry` | one action for each of its look-ups and one for the write |
| holiday generation and clone | the read of the policies, the read of what is protected, one upsert per date |
| `seedOrgStructure`, `cloneOrgFromMaster` | `ImportOrg` (reads codes), `WriteImport` (transaction) |
| `login`, `changePassword`, `backfillPasswords` | `Login`, `IssueToken`; `ChangePassword`, `WritePassword`; `BackfillPasswords`, `BackfillOne` or `BackfillSkips` per employee, `BackfillDone` |
| `deleteFeeCategory`, `generateFromMaster` | count, then delete; a step per category and structure of the master |
| `createClassSection`, `assignClassTeacher`, `updateClassTeacherAssignment` | one action for the checks, one for the write |
| `assignTeacherSubjects`, `updateTeacher` | `AssignTeacherSubjects`, `LinkSubject` per subject; `UpdateTeacher` (subjects), `ReplaceSubjects` (transaction) |
| `generateExamSchedulesFromMaster` | `GenerateSchedules` (year and names), `InsertSchedules` (transaction) |
| `IdempotencyInterceptor.intercept`, `apiRequest` | `Replay` or `Intercept`, `Execute`, `Store`, `Fail`; `MakeCall`, `LoseConnection`; `Tick` ages the entries, `RestartGateway` loses them |

The portal lists and clones transport data and does not edit them, so the rows of
a school in `RouteMaster` change by clones only, and `Transport`, which is about
one tenant, behaves for a school as without `UpdateVehicle` and `SaveRoute`. Its
`trip` is another view of the rows of `routeTrip`.

Every `...Abandon` is the rejected await or the death of the process in front of
the step that would have been next. The rows of unique keys that ignore
`softDelete` are "absent", "live" or "deleted", and a deleted one keeps its key.

`disturbed` in `IdempotencyKeys` is a history variable: the keys for which a call
came while another was handled, whose answer expired or was lost, or whose
handler failed after its effect. The execution behind the interceptor is
external: any handler, with an effect that is counted.

## 4. The runs

| Run | Configuration | Instance | Distinct states | Shows |
| --- | --- | --- | --- | --- |
| `fee_overlap` | `FeeLedgerOverlap` | 2 handlers, 1 structure, 2 students, 2 classes sharing one, amounts 1 and 2, at most 2 received | 2.34 M | safety under any overlap; lossy fee book implemented |
| `fee_overtaken` | `FeeLedgerOvertaken` | 2 handlers, 1 structure and 2 keys it moves between, 1 student of 2 classes, amounts 1 and 2, at most 4 received | 319 k | only overtaken handlers depart from the exact fee book or leave an invoice on a deleted structure |
| `fee_lost_update` | `FeeLedgerLostUpdate` | 2 handlers | stops at the violation | violation, section 8 |
| `exam_overlap` | `ExamOverlap` | 2 handlers of exam.service, 3 students, 2 subjects, marks to 2, batches that tie and that stop half way | 620 k | competition ranking; only overtaken handlers make published figures stale |
| `exam_both` | `ExamBoth` | 2 handlers of either service, 3 students of which 2 enrolled, overlapping batches | 1.26 M | no lost mark, agreeing tables, founded results; only overtaken handlers touch a published exam |
| `exam_resave` | `ExamResave` | 1 handler of either service | stops at the violation | violation |
| `onboarding` | `Onboarding` | 2 permissions, 3 kinds of roles, 1 activation, 1 login, 2 crashes, fairness | 159 k | provisioning, tokens, delivery |
| `onboarding_overtaken` | `OnboardingOvertaken` | 1 permission, 1 crash | stops at the violation | violation |
| `config_service` | `ConfigService` | 2 handlers beside the consumer, 2 default keys, 1 module, 2 versions, 2 failures | 376 k | versions without a gap; only an overtaken save or rollback leaves two active; seeding |
| `config_rollback` | `ConfigRollback` | 1 handler, 1 key, no failures | stops at the violation | violation |
| `desk_overlap` | `DeskOverlap` | 2 handlers; the twelve services and the gateway; one vehicle of one seat, 3 allocations, 1 backfill at a time, 3 calls, 2 keys, answers live for 2 ticks | 550 k | deletion, seats, passwords and keys whatever the interleaving; only overtaken handlers break what a check is for |
| `desk_serial` | `DeskSerial` | 1 handler; the six services that import, with larger lists, calendars and trees | 601 k | the order of the sources and the wholeness of imports over longer inputs |

Why the bounds are enough for the questions asked. Two handlers are what a lost
update, a check-then-act race or a double insert needs, and the proved theorems
carry to any number. Two students and a class that contains one of them make
`generateInvoices` overlap in part. Amounts 1 and 2 give exact, partial and
excess payments of an invoice. Three students with marks 0 to 2 give ties at the
top and at the bottom, zero, and differences. Two crashes let a redelivered event
be interrupted again. Two versions let a save, a rollback and a seeding of a key
collide; the third, which a rollback can skip, is in `config_rollback`, and no
theorem has a bound on versions. `MaxReceived`, `MaxTokens`, `MaxCrashes`,
`MaxVersion` and `MaxFailures` bound counters and nothing else.

In the desk runs: one trip whose vehicle has one seat, and three allocations, let
two overlapping creations oversell and a third be refused. A year, a pool of two
names, two categories and one structure each, one route with a trip and two rows
for stops are what two handlers need to overtake each other: a check of one, a
write of the other, and what the first makes of it. Two dates, of which one is a
Sunday, and two calendars let an engine find a date off that an upload or an edit
takes away. Three calls and two keys let a key be repeated while another is at
work and after its answer has gone. Two display names that are one when trimmed
let a look-up miss what the insert meets.

What depends on the shape of longer inputs is in `desk_serial`. Three dates give
a holiday, a weekend day that is the second of its month, and a day after the
year, and the calendars a holiday, a vacation over them, and an end and a start of
vacations on the same day. The orgs of the master have two levels, three in
either order of creation, and one whose top is deleted. The catalogues of fees
have a tree and a single row. Three schedules of which the master has two leave
room for one of the school's own. Two trips, three stop rows over two stops, and
forms that keep, change, swap, drop and add rows let a save meet the keys of live
and of deleted rows. Bounds that only cap rows made are `Allocations`, `Lessons`,
`Entries`, `Categories`, `Schedules`, `MaxTrips`, `MaxStops` and `MaxSheet`;
`KeyTTL` stands for 24 hours.

The desk runs use symmetry over handlers and over values that a service treats
alike; they check safety only, for which that is sound.

`CHECK_DEADLOCK FALSE` is set in every configuration: requests come from
people, none has to come, and at a bound nothing may be left to do.

Every property of a passing run has a mutant: an operator beside the definition
it replaces, marked `Mutant`, that changes it the way a plausible bug would (a
check on the wrong row, a missing deactivation, `return` for `continue`); with it TLC
finds the property violated under the same configuration. The mutants are used
by no specification.

## 5. Properties

Much of this code checks something in one statement and relies on it in a later
one, and no lock holds the two together. What such a check is for is therefore
true only of handlers that were not overtaken in between. The action properties
marked (o) say just that, and no less: for every handler, whatever the others do
meanwhile,

    \/ what the handler has found out is already untrue
    \/ after its step it is still true of what it holds then, and the step
       keeps the good state good
    \/ the step is not the handler's

The first line is a predicate named `...Stand` or `...Stands` (`YearStands`,
`SeatsStand`, `StatusStands`, ...; `Undisturbed` in `ConfigService`), and at the
start of a handler it is true of nothing held. So the property is violated by a
handler that breaks the good state by itself, by one that checks too little, and by
one that comes to rely on what it never looked at; only one whose finding another
handler has made untrue between its await and its next step is excused. Section 8
names what such handlers do.

Finance: `StatusMatchesMoney`, `AuditImpliesEffect`, `InvoicesAreKept` and
`ImplementsLossyBook` hold whatever the overlap. `InvoicedStructuresStayLive` (o):
an invoice is left on a deleted structure only by a deletion that a batch overtook
or a batch that a deletion overtook. `ImplementsExactBook` (o): every step of the
engine is one of the exact fee book (each payment credited in full, settled
invoices take no money), but for the commit of a collection that another one
overtook.

Exams: with exam.service alone, `CompetitionRanks` (ties share a rank and the next
is skipped), whatever the overlap, and `PublishedFiguresCurrent` (o): totals,
percentages, ranked students and subject analytics of a published exam are those
of its marks. With both services, `MarksAreKept`, `AggregatesMatchResults` and
`ResultsAreFounded` whatever the overlap, and `PublishedIsImmutable` (o): no
handler of exam.service changes marks or subjects of a published exam or takes it
back to VERIFIED.

Onboarding: `AckedIsProvisioned`, `TokensAreFounded`, `NothingIsUndone`, and the
liveness property `DeliverySettles`.

Configuration: `VersionsContiguous`, `SeededIsComplete` and `SeedingKeepsChoices`
whatever the overlap; `AtMostOneActive` (o), where the seeding, too, leaves one
version active.

School office, whatever the overlap. `OversoldByOverlapOnly`: overlapping handlers
oversell a trip, but by one seat for each other handler at the most.
`FullTokensAreEarned`: a login that read the row before a change of password, or
a backfill that listed the employee before it, gives nothing away. `OncePerKey`
and `AnswersAreFounded`: what an idempotency key guarantees and on which
conditions. `NothingIsRevived`: no upsert, seed or save of any service shows a
deleted row again.

School office, but for handlers that were overtaken (o). `SeatsStayChecked`: a trip
gains a rider only while a seat is free, and a rider an allocation only while it
has none. `SettledStaysFrozen`: marks go into open sessions and belong to enrolled
students, and a locked log keeps its sheet. `NothingHangsOnDeleted`
(`DeletedYearIsEmpty`, `FeesHaveCategories`, `RoutesAreClear`) and
`LinksStayFounded`: what is deleted has nothing hanging on it, checked on both
sides. `PostsStayFounded`: a post, an appointment or a subject is given only
between rows that are there, and all the subjects of a call or a failure.
`GridKeepsSound`: nobody is in two places. `SourcesStayOrdered`: the engine and the
clone respect hand-made entries and the calendar, and every date off in the
calendar is off in the end; the rule is stated without the engine's walk
(`OffInCalendar`). `ImportsAreComplete`: seeds, the clone of an organisation or of
transport, the copy of fee categories and the generation of exam schedules are
whole, also when an earlier attempt failed half way; the save of a route is whole
even when it was overtaken.

## 6. Fairness

`FairSpec` of `Onboarding`: weak fairness of `Deliver` (the broker delivers a ready
message to a consumer that waits), of `HandleMessage` (an await is settled and a
promise continuation is run by the event loop; a rejected await is one of its
outcomes),
of `StartIam` (a supervisor restarts the process) and of the consumer's start,
which either succeeds or gives up. `MaxCrashes` is part of the claim: a process
that died again and again would handle nothing. No fairness is assumed for
crashes, publication or people. The other specifications state none: every
other handler is a straight line or a loop over a list read at its start, nothing
waits for anything, and that such a loop ends would be true by its shape.

## 7. What is proved

All theorems are of the form `Spec => ...` for every value of the constants that
satisfies the named assumptions of the modules, and so for any number of handlers
in flight; the assumptions say that bounds are natural numbers, that amounts are
positive, that students and subjects are finite, and that the special values are
no numbers. The theorems on the properties marked (o) in section 5 have one
invariant each for the types and, for each action of a handler, a lemma that says:
where what the handler found out still holds, its step keeps it so, for what it
holds afterwards, and keeps the good state good. The other handlers of the step
need no lemma, which is why no theorem bounds their number.

**FeeLedgerProofs.** `TypeCorrect`. The money theorems `NeverOverstated`,
`StatusCorrect`, `PaymentsCorrect` and `InFlightCorrect` come from one inductive
invariant, `MoneyInv`: an invoice shows no more than it received, its status is
a function of the amounts, *and* what a collection in flight holds is at least
its own amount and at most what was received plus its amount. The last conjunct
is what makes it inductive: `CommitPayment` writes a value computed from a row
that may have changed since. `RefinesLossyBook` maps every step to a step of the
lossy `FeeBook` or a stutter, using `MoneyInv` for the range of credits.
`AuditCorrect` uses `AuditInv` (the events a handler is about to publish are
committed) and `Durable` (committed facts stay committed). `InvoicesKept` follows
step by step. `RefinesExactBook` maps the steps of a collection that was not
overtaken (`CollectionStands`) to the exact `FeeBook`, and `InvoicedLive` follows
from what a batch and a deletion know of the structure (`StructureStands`).

**ExamLifecycleProofs.** `TypeCorrect`, with lemmas on tables; `MarksKept`;
`ResultsCorrect`, whose invariant `ResultsInv` says that whatever a handler is
about to write is founded in marks and enrolments and that the two result tables
agree; from it `AggregatesCorrect`, `ResultsFounded` and `RanksOrdered`. The last
needs that percentages grow with totals (`PercentageMonotone`) and that a better
percentage has a better rank (`ClassRankOrdered`), for every number of students.
`RanksAreCompetition`: whenever exam.service.ts replaces the aggregates, each rank
is one more than the number of better totals, because they are replaced together.
`FiguresCurrent` and `PublishedFrozen` are about both services, too: where the
status that a handler read (`StatusStands`) and the sums that a publication holds
(`TotalsStand`) are still those of the tables, its step keeps the published figures
those of the marks, and marks, subjects and status of a published exam as they are.

**OnboardingProofs.** `TypeCorrect`; `HandledWhenAcked` from `HandlerInv`, which
says at each await of the handler what it has already achieved, and that a
recorded event is a provisioned one, so that a redelivery that skips is right to;
`NothingUndone`; `TokensFounded` from `LoginInv`, which says at each await of a
login what still holds of what it read before: activation is never withdrawn
from `status`, users are never deactivated and roles never removed.

**ConfigServiceProofs.** `TypeCorrect`; `VersionsHaveNoGap` from `VersionInv` (a
version about to be inserted has its predecessor), for any number of handlers;
`RecordedIsSeeded` from `SeedingInv` (what is no longer in `todo` exists);
`SeedingKeeps`; `SwitchesAttributed`; `OneActiveVersion`: a save or a rollback whose
key nobody gave an active version between its statements (`Undisturbed`) leaves
one active version of the key where there was one at most.

**TransportProofs.** `OversoldOnlyByOverlap`, for any finite sets of handlers and
allocations, any riders, trips and vehicles, and whatever capacities are edited
to meanwhile. The inductive invariant `SeatsInv` counts more than the property
does: on each trip the seats taken *and* the claims of the handlers that have
counted it and will write are together within the largest capacity and one seat
for each other handler. It needs the order in which a handler checks its trips
(`InOrder`), because a claim arises at `CountSeats` and not at the write.

**StaffProofs.** `StaffTypeCorrect`; `FullTokensEarned`, while at most one backfill
is at work (`MaxBackfills <= 1`, needed: section 8). `StaffInv` says of each
request in flight what still holds of the row it read: who is listed by a
backfill and not yet done has no password, hence can neither log in nor change
one, and a login that read "need not change" read it of a chosen password.

**IdempotencyProofs.** `TypeCorrect`, `RunsOncePerKey`, `AnswersFounded`, for any
number of calls, keys, requests and restarts. `KeyInv` says that a call is served
by one request at most (`OwnRequest`), what a request at each await has done, that
a remembered answer is of a call that ran, and that an undisturbed key which ran
is remembered or about to be.

**DeskProofs.** `RecordsTypeCorrect`, `LinksDeletedForGood`. `NothingRevived` is about
the composition: `DeskInv` carries the invariants of the records and of the
timetable (`KeysUnique`: a deleted lesson keeps its class and its teacher's slot),
and each service's step leaves the marks of deletion in the tables of all of them
(`CatalogStep`, `OrgStep`, `PostsStep`, `MasterStep`: an insert finds no row, an
update a live one, and that of a period, which writes by id, takes the mark along).

The theorems on handlers that were not overtaken are about the composition as well
and rest on `DeskTypedInv`. `LinksFounded`: what a request validated is still live
(`FamilyStands`). `GridSound`: the teacher an upsert asked for is still free
(`GridStands`). `SettledFrozen`: the session found open is open, the enrolments read
are those there are (`RegisterStands`). `PostsFounded`: what was looked up is there,
and so are the links made so far (`PostsStand`). `NothingHangs`: which years,
categories and routes a handler relies on being live (`YearStands`,
`CategoriesStand`, `RoutesStand`), for a copy of the fees those it has found or made
so far. `SeatsAreChecked`, for finitely many allocations: each trip a handler has
checked has a free seat for its rider, who has no other allocation (`FreshInv` of
`TransportProofs`).

`DeskTyped`: its invariant `DeskTypedInv` joins the type invariants of the thirteen
modules with what some of them need besides: a handler past its look-up knows a row
that exists, and a list still to be worked off holds rows of the right kind.

`SourcesOrdered`: `SourcesStand` says of the engine that its plan has no date made by
hand and every other date that is off in the calendar, and, once it has read what is
protected, that the dates already worked off say so. It holds for every order in
which entries of equal dates may be read, because a vacation whose start and end
share their dates with no other boundary is found in each (`OffInCalendar`).

`ImportsComplete` has a part for each service. Sections and periods: what a seed
has purged and checked leaves no row of its pool in the way (`PoolStands`). The
organisation: what the transaction will create is what the list has and no live row
has, and a superior created earlier in the list is found (`OrgStands`). Schedules:
the same for the names of the master (`MissingStands`). Fees: `CopyStands` follows
the walk over the master's categories. Each one passed has a live counterpart, a
different one, under the counterpart of its parent; what was live at the start is
as it was; and nothing else is live. From the last two follows that the next
category, when none is found, repeats none (`NoSecond`). Routes: `ReadStands` keeps
what a seed or a clone read equal to the rows. The lemmas `IdsExist`, `AddedShown`
and `SavedShows` show that, with room for the new rows, ids can be given out without
a clash and a save shows just its form.

Only model-checked: the liveness property `DeliverySettles`. It rests on fairness,
which is out of the prover's reach. Every other property of a passing run is stated
by a theorem.

## 8. Where code and documentation disagree

Each of the first four has a run that shows it.

1. `fee_lost_update`: `tenant/finance.service.ts:614` calls collection ATOMIC; the
   read at line 595 is outside the transaction and of two overlapping payments
   one is lost from the invoice.
2. `exam_resave`: "Atomic delete + create" (`tenant/academic.service.ts:3237`)
   collides with the rows the soft-delete middleware has kept: marks can be
   bulk-saved once, results processed once.
3. `onboarding_overtaken`: a school activated before its event is consumed keeps
   an administrator in PENDING_RESET (`iam/app.service.ts:428` and 517).
4. `config_rollback`: the version after a rollback is computed from the active
   row (`config/app.service.ts:133`) and collides with an existing one, after
   the active row was switched off.

What handlers do that were overtaken, met with the same properties without their
first line. They have no runs of their own:

- `verifyExam` (`tenant/exam.service.ts:172` and 179) repeats no check and takes an
  exam published meanwhile back to VERIFIED; `enterMarks` reads the status once
  (line 106) and writes marks into it.
- A structure is deleted while invoices are generated from it
  (`tenant/finance.service.ts:380`), and two payments settle an invoice twice.
- Two admin handlers of config-service leave two active versions: a rollback that
  overlaps a save or another rollback of the key.
- In the school office overtaken handlers leave a class on a deleted year, a
  structure on a deleted category, live trips and stops on a deleted route
  (`tenant/transport.service.ts:505`), a teacher in two rooms, an appointment of a
  deleted teacher, a link to a deleted parent, a mark in a closed session and a rider
  without a seat. The clone of an organisation and the exam schedules of a year that
  is deleted meanwhile stay incomplete, and a holiday entry edited by hand while the
  engine runs is overwritten.
- Of two backfills the second overwrites a password chosen since it listed the
  employee (`tenant/staff-auth.service.ts:206`): `FullTokensAreEarned` needs one at a
  time.

The following are stated in the modules, fail in variants of the configurations, and
have no run of their own:

- `AckedIsGranted` fails: an event consumed while the permissions are being seeded
  leaves the administrator's role without some of them for good
  (`iam/app.service.ts:743`, comment at 543).
- `BulkSaveReplaces` fails: "Atomically replace existing records"
  (`tenant/academic.service.ts:2437`) leaves a student whose record was deleted
  by an earlier save without one.
- `OneAllocationPerRider` (`tenant/transport-allocation.service.ts:115`) fails with
  one handler: an update that sets `isActive` checks neither the rule nor the
  seats.
- `NoCircularReference` (`tenant/hr.service.ts:93`) fails: only a department that is
  its own superior is refused.
- "Preserves hierarchy" (`cloneOrgFromMaster`, `tenant/hr.service.ts:636`): a
  department created before its superior, unless that is a root, is placed at
  the top. `generateFromMaster` of finance does the same to categories.

Seen while reading, without a property:

- "Delete them first to re-seed" (`tenant/academic.service.ts:2335`): deleted subjects
  keep their keys and are skipped, deleted periods make the seed fail. Only
  sections (2294) come back.
- `toggleModule` never takes effect (`config/app.service.ts:262-265`): PostgreSQL finds
  the unqualified columns of its SET list ambiguous and rejects the statement, also
  where no row conflicts.
- `updatePeriod` looks for a live period (`tenant/academic.service.ts:1873`) and writes
  it by id (1903, 1925), so an update that `deletePeriod` overtakes renames a deleted
  period and succeeds.
- A seed of fee structures that loses a race on the unique key fails half way
  (`tenant/finance.service.ts:1022`), with the rows before it in place and no event.
- A seeded department or role that was deleted makes every later seed and clone
  fail (P2002 rolls the import back), although the JSDoc says "Idempotent".
- The same holds for `seedMasterData` of transport ("Fully idempotent",
  `tenant/transport.service.ts:825`) once a vehicle, stop or route of its lists was
  deleted.
- `saveRouteWithTripsAndStops` rewrites the stops of a route one statement at a time
  under the unique keys (route, stop) and (route, sequence), which deleted rows
  keep. So exchanging two stops, as `moveStop` of
  `apps/web-admin/app/transport/routes/page.tsx:252` does, adding a removed stop
  again or using its number again always fails.
- `deleteRoute`, `deleteStop` and `deleteVehicle` look at no allocation, route or trip
  that refers to the row; a school's copy then lacks the stop, and the trip has no
  vehicle. A school cannot edit its copy.
- Sending the same `parentId` or `studentIds` again in an update always fails:
  the mappings deleted in the same transaction keep their unique key.
- `hashDateOfBirth` says the employee cannot log in "until an admin sets their
  DOB" (`tenant/staff-auth.service.ts:37`); `updateEmployee` sets no password. Only
  the backfill does.
- Deleting a teacher, driver or attendant leaves the employee able to log in.
  `createDriver` and `createAttendant` validate neither department nor role.
- `saveBulkMarks` reads the attendance lock (`tenant/academic.service.ts:3200`)
  before it writes absences; a lock set in between is passed.
- `generateExamSchedulesFromMaster` ("Idempotent (skips duplicates)",
  `tenant/academic.service.ts:5007`) looks for live names only, and the unique key
  counts deleted ones: a master schedule that was deleted once makes every later
  generation fail. `SchedulesAreWhole` speaks of generations that end well.
- `updateExamSchedule` compares the two dates only when it is given both, so one of
  them may pass the other. `deleteAcademicYear` does not count exam schedules.
- `createClassSection` looks for the trimmed display name and stores the name as it
  was given, so names that look alike can stand side by side.
- After `deleteClassTeacherAssignment` the class and section can never be given a
  class teacher again: the deleted row keeps the unique key.
- `publishExam` first adds the bands named DEFAULT (`ensureDefaultGradeScale`) beside
  those of the school, and a deleted one stays deleted, so that a percentage may
  have no grade. It takes the highest band that starts at or below a percentage,
  `processExamResults` one that contains it: in a gap between bands they differ.
- The "dense rank" of `getMarksRanks` (`tenant/academic.service.ts:3623`) skips after
  a tie.
- The engine reads the calendar ordered by date alone (`tenant/academic.service.ts:4325`).
  Where a vacation starts or ends on the date of another start or end, the database
  decides which is read first, and one order may lose the vacation.
- The INSERT of audit-service (`audit/app.service.ts:193-194`) lacks the `$` of
  two template placeholders; the statement is malformed, every audit message is
  rejected and dropped without requeue.
- Suspending a school sets `schoolStatus` (`tenant/app.service.ts:371`); login
  reads `status`. The design document LLD02 says the gateway must block a
  suspended tenant.
- "Will only be processed ONCE within the TTL window"
  (`libs/common/src/interceptors/idempotency.interceptor.ts:15`): not for calls that
  overlap, after a restart, or when the handler fails after its effect. web-admin
  gives every call a key of its own and repeats no mutation.
- The config client asks for entitlements without a token
  (`libs/config-client`); config-service demands one, and an error counts as
  enabled. So `ModuleGuard` never refuses, whereas the end-to-end tests expect a
  disabled module to be refused.

## 9. What is left

`Onboarding` and `ConfigService` composed over one published event with two queues;
the grade scales; the audit store and the entitlement cache, once the code makes
them work.
