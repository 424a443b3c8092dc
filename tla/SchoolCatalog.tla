--------------------------- MODULE SchoolCatalog ----------------------------
(***************************************************************************)
(* The catalogue of one school in tenant-service (academic.service.ts):    *)
(* academic years, the classes of a year, and a table of pool rows, which  *)
(* is Section, Subject or Period.  Rows are created, renamed and deleted   *)
(* one by one, or seeded as a batch: from a list in the code, from the     *)
(* rows of MASTER_TEMPLATE, or by the Quick Setup that seeds years,        *)
(* classes and pools in turn.                                              *)
(*                                                                         *)
(* The three pool tables do not read each other, so one of them, chosen at *)
(* the start, stands for each.  Rows are kept by their unique key, which   *)
(* ignores softDelete; the middleware of libs/common turns delete and      *)
(* deleteMany of these tables into an update of softDelete, so only the    *)
(* raw SQL of seedSections ever removes a row.                             *)
(*                                                                         *)
(* Abstracted: fields outside the keys; the rows that depend on a year are *)
(* its classes; years keep their names.                                    *)
(***************************************************************************)
EXTENDS Handlers, Sequences

CONSTANTS
  Years,        \* academic years
  SeedYears,    \* the years a seed creates
  CurrentYears, \* those of them it creates active
  Names,        \* codes and names of classes and pool rows
  Batches       \* the names a seed may create: code, master, naming styles

ASSUME SeedYearsAssumption == CurrentYears \subseteq SeedYears
                                /\ SeedYears \subseteq Years
ASSUME BatchesAssumption == Batches \subseteq SUBSET Names

VARIABLES
  year,         \* AcademicYear rows
  active,       \* the years whose isActive is set
  class,        \* Class rows, per year and code
  poolTable,    \* which pool table is looked at: never changes
  pool          \* its rows, per name

catalog == <<year, active, class, poolTable, pool>>
catalogVars == <<catalog, req>>

Classes == Years \X Names
PoolTables == {"Section", "Subject", "Period"}
Seeded == {"Year", "Class", "Pool"}

SeedReq == [op : {"seed"}, at : {"year", "purge", "guard", "insert"},
            kind : Seeded, year : Years \cup {Null}, batch : Batches,
            rest : Seq(Seeded)]
DeleteYearReq == [op : {"deleteYear"}, year : Years]
CreateClassReq == [op : {"createClass"}, class : Classes]
RenamePeriodReq == [op : {"renamePeriod"}, row : Names, name : Names]

CatalogRequest == {Idle} \cup SeedReq \cup DeleteYearReq \cup CreateClassReq
                    \cup RenamePeriodReq

CatalogInit ==
  /\ year = [y \in Years |-> "absent"]
  /\ active = {}
  /\ class = [c \in Classes |-> "absent"]
  /\ poolTable \in PoolTables
  /\ pool = [n \in Names |-> "absent"]
  /\ HandlersInit

Live(table) == {k \in DOMAIN table : table[k] = "live"}
ClassesOf(y) == {y} \X Names

\* createMany with skipDuplicates, and INSERT ... ON CONFLICT DO NOTHING: a
\* row whose key is taken, by a deleted row too, is skipped.
InsertNew(table, keys) ==
  [k \in DOMAIN table |-> IF k \in keys /\ table[k] = "absent"
                          THEN "live" ELSE table[k]]

\* updateMany renames a live row; the unique key refuses a taken name.
Renames(table, table2, old, new) ==
  /\ table[old] = "live" /\ table[new] = "absent"
  /\ table2 = [table EXCEPT ![old] = "absent", ![new] = "live"]

-----------------------------------------------------------------------------
(***************************************************************************)
(* Rows one by one                                                         *)
(***************************************************************************)
CreateAcademicYear(r, y, isActive) ==
  /\ req[r] = Idle
  /\ year[y] = "absent"
  /\ year' = [year EXCEPT ![y] = "live"]
  /\ active' = IF isActive THEN active \cup {y} ELSE active
  /\ UNCHANGED <<class, poolTable, pool, req>>

\* isActive may be set on several years: no other year is touched.
UpdateAcademicYear(r, y, isActive) ==
  /\ req[r] = Idle
  /\ year[y] = "live"
  /\ active' = IF isActive THEN active \cup {y} ELSE active \ {y}
  /\ UNCHANGED <<year, class, poolTable, pool, req>>

\* Mutant: classes that were deleted do not keep the year.
DeleteYearOfDeleted(r, y) ==
  /\ req[r] = Idle
  /\ year[y] = "live" /\ y \notin active
  /\ \A c \in ClassesOf(y) : class[c] # "live"
  /\ Continue(r, [op |-> "deleteYear", year |-> y])
  /\ UNCHANGED catalog

\* deleteAcademicYear reads the year with the counts of its dependants,
\* which include deleted rows, ...
DeleteAcademicYear(r, y) ==
  /\ req[r] = Idle
  /\ year[y] = "live" /\ y \notin active
  /\ \A c \in ClassesOf(y) : class[c] = "absent"
  /\ Continue(r, [op |-> "deleteYear", year |-> y])
  /\ UNCHANGED catalog

\* ... and deletes it by id: the "hard delete" sets softDelete.
RemoveYear(r) ==
  /\ req[r].op = "deleteYear"
  /\ year' = [year EXCEPT ![req[r].year] = "deleted"]
  /\ Reply(r)
  /\ UNCHANGED <<active, class, poolTable, pool>>

\* createClass: the year is checked, then the class is inserted.
CreateClass(r, c) ==
  /\ req[r] = Idle
  /\ year[c[1]] = "live"
  /\ Continue(r, [op |-> "createClass", class |-> c])
  /\ UNCHANGED catalog

InsertClass(r) ==
  /\ req[r].op = "createClass"
  /\ class[req[r].class] = "absent"
  /\ class' = [class EXCEPT ![req[r].class] = "live"]
  /\ Reply(r)
  /\ UNCHANGED <<year, active, poolTable, pool>>

UpdateClass(r, c, name) ==
  /\ req[r] = Idle
  /\ Renames(class, class', c, <<c[1], name>>)
  /\ UNCHANGED <<year, active, poolTable, pool, req>>

DeleteClass(r, c) ==
  /\ req[r] = Idle
  /\ class[c] = "live"
  /\ class' = [class EXCEPT ![c] = "deleted"]
  /\ UNCHANGED <<year, active, poolTable, pool, req>>

\* createSection, createSubject, createPeriod.
CreatePoolRow(r, n) ==
  /\ req[r] = Idle
  /\ pool[n] = "absent"
  /\ pool' = [pool EXCEPT ![n] = "live"]
  /\ UNCHANGED <<year, active, class, poolTable, req>>

\* updateSection, updateSubject: one updateMany of the live row.
UpdatePoolRow(r, n, name) ==
  /\ req[r] = Idle
  /\ poolTable # "Period"
  /\ Renames(pool, pool', n, name)
  /\ UNCHANGED <<year, active, class, poolTable, req>>

\* updatePeriod finds the live period, ...
UpdatePeriod(r, n, name) ==
  /\ req[r] = Idle
  /\ poolTable = "Period"
  /\ pool[n] = "live"
  /\ Continue(r, [op |-> "renamePeriod", row |-> n, name |-> name])
  /\ UNCHANGED catalog

\* ... and writes it by id, live or deleted meanwhile, and under whatever
\* name another update has given it: the handlers that hold the row's id
\* follow the row to its new key.
RenamePeriod(r) ==
  LET old == req[r].row
      new == req[r].name
  IN
  /\ req[r].op = "renamePeriod"
  /\ pool[new] = "absent"
  /\ pool' = [pool EXCEPT ![old] = "absent", ![new] = pool[old]]
  /\ req' = [q \in Requests |->
                CASE q = r -> Idle
                  [] req[q].op = "renamePeriod" /\ req[q].row = old /\ q # r ->
                       [req[q] EXCEPT !.row = new]
                  [] OTHER -> req[q]]
  /\ UNCHANGED <<year, active, class, poolTable>>

\* deleteSection, deleteSubject, deletePeriod.
DeletePoolRow(r, n) ==
  /\ req[r] = Idle
  /\ pool[n] = "live"
  /\ pool' = [pool EXCEPT ![n] = "deleted"]
  /\ UNCHANGED <<year, active, class, poolTable, req>>

-----------------------------------------------------------------------------
(***************************************************************************)
(* Seeds                                                                   *)
(***************************************************************************)
FirstStage(kind) ==
  CASE kind = "Year" -> "guard" [] kind = "Class" -> "year"
    [] kind = "Pool" -> "purge"

Seeding(kind, batch, rest) ==
  [op |-> "seed", at |-> FirstStage(kind), kind |-> kind, year |-> Null,
   batch |-> batch, rest |-> rest]

\* seedAcademicYears, seedClasses, seedSections, seedSubjects, seedPeriods
\* and their ...FromMaster twins.
SeedCatalog(r, kind, batch) ==
  /\ req[r] = Idle
  /\ Continue(r, Seeding(kind, batch, <<>>))
  /\ UNCHANGED catalog

SeedDefaultSetup(r, batch) ==
  /\ req[r] = Idle
  /\ Continue(r, Seeding("Year", batch, <<"Class", "Pool">>))
  /\ UNCHANGED catalog

\* Classes go to the year the call names, or to an active one: Quick Setup
\* names none.  Their clean-up of deleted rows changes nothing.
ResolveYear(r) ==
  /\ req[r].op = "seed" /\ req[r].at = "year"
  /\ \E y \in Live(year) :
       /\ req[r].rest # <<>> => y \in active
       /\ Continue(r, [req[r] EXCEPT !.at = "guard", !.year = y])
  /\ UNCHANGED catalog

\* The clean-up of deleted pool rows: raw SQL for sections, and a deleteMany
\* that updates softDelete to what it is for the others.
PurgePool(r) ==
  /\ req[r].op = "seed" /\ req[r].at = "purge"
  /\ pool' = [n \in Names |-> IF poolTable = "Section" /\ pool[n] = "deleted"
                              THEN "absent" ELSE pool[n]]
  /\ Continue(r, [req[r] EXCEPT !.at = "guard"])
  /\ UNCHANGED <<year, active, class, poolTable>>

LiveSiblings(seed) ==
  CASE seed.kind = "Year" -> Live(year)
    [] seed.kind = "Class" -> Live(class) \cap ClassesOf(seed.year)
    [] seed.kind = "Pool" -> Live(pool)

\* The idempotency guard.
GuardSeed(r) ==
  /\ req[r].op = "seed" /\ req[r].at = "guard"
  /\ IF LiveSiblings(req[r]) = {}
     THEN Continue(r, [req[r] EXCEPT !.at = "insert"])
     ELSE Reply(r)
  /\ UNCHANGED catalog

FinishSeed(r) ==
  IF req[r].rest = <<>>
  THEN Reply(r)
  ELSE Continue(r, Seeding(Head(req[r].rest), req[r].batch,
                           Tail(req[r].rest)))

InsertYears(r) ==
  /\ req[r].op = "seed" /\ req[r].at = "insert" /\ req[r].kind = "Year"
  /\ year' = InsertNew(year, SeedYears)
  /\ active' = active \cup {y \in CurrentYears : year[y] = "absent"}
  /\ FinishSeed(r)
  /\ UNCHANGED <<class, poolTable, pool>>

InsertClasses(r) ==
  /\ req[r].op = "seed" /\ req[r].at = "insert" /\ req[r].kind = "Class"
  /\ class' = InsertNew(class, {req[r].year} \X req[r].batch)
  /\ FinishSeed(r)
  /\ UNCHANGED <<year, active, poolTable, pool>>

\* Periods are created one by one in a transaction: a name that is taken, by
\* a deleted period too, rolls all of them back and the call fails.
InsertPool(r) ==
  /\ req[r].op = "seed" /\ req[r].at = "insert" /\ req[r].kind = "Pool"
  /\ poolTable = "Period" => \A n \in req[r].batch : pool[n] = "absent"
  /\ pool' = InsertNew(pool, req[r].batch)
  /\ FinishSeed(r)
  /\ UNCHANGED <<year, active, class, poolTable>>

CatalogAbandon(r) == Abandon(r) /\ UNCHANGED catalog

\* Whatever handler r may do next.
CatalogHandler(r) ==
  \/ \E y \in Years : \/ DeleteAcademicYear(r, y)
                      \/ \E isActive \in BOOLEAN :
                           \/ CreateAcademicYear(r, y, isActive)
                           \/ UpdateAcademicYear(r, y, isActive)
  \/ RemoveYear(r)
  \/ \E c \in Classes : \/ CreateClass(r, c)
                        \/ \E name \in Names : UpdateClass(r, c, name)
                        \/ DeleteClass(r, c)
  \/ InsertClass(r)
  \/ \E n \in Names : \/ CreatePoolRow(r, n)
                      \/ \E name \in Names : \/ UpdatePoolRow(r, n, name)
                                            \/ UpdatePeriod(r, n, name)
                      \/ DeletePoolRow(r, n)
  \/ RenamePeriod(r)
  \/ \E batch \in Batches : \/ \E kind \in Seeded : SeedCatalog(r, kind, batch)
                            \/ SeedDefaultSetup(r, batch)
  \/ ResolveYear(r) \/ PurgePool(r) \/ GuardSeed(r)
  \/ InsertYears(r) \/ InsertClasses(r) \/ InsertPool(r)
  \/ CatalogAbandon(r)

CatalogNext == \E r \in Requests : CatalogHandler(r)

CatalogSpec == CatalogInit /\ [][CatalogNext]_catalogVars

-----------------------------------------------------------------------------
CatalogTypeOK ==
  /\ year \in [Years -> Presence]
  /\ active \subseteq Years
  /\ class \in [Classes -> Presence]
  /\ poolTable \in PoolTables
  /\ pool \in [Names -> Presence]
  /\ req \in [Requests -> CatalogRequest]

-----------------------------------------------------------------------------
(***************************************************************************)
(* Properties                                                              *)
(***************************************************************************)
\* What handler q has found out about academic years, and acts on, is still so.
YearStands(q) ==
  /\ q.op = "deleteYear" => \A c \in ClassesOf(q.year) : class[c] = "absent"
  /\ q.op = "createClass" => year[q.class[1]] = "live"
  /\ q.op = "seed" /\ q.kind = "Class" /\ q.at # "year" => year[q.year] = "live"

DeletedYearIsEmpty ==
  \A y \in Years : year[y] = "deleted" =>
    \A c \in ClassesOf(y) : class[c] = "absent"

\* An academic year that is deleted has no class, not even a deleted one,
\* because each of the two is checked before the other is written.  Only a
\* handler that another one has overtaken between its check and its write
\* breaks that: none does so by itself, nor comes to act on what is not so.
YearsStayEmpty ==
  \A r \in Requests :
    \/ ~YearStands(req[r])
    \/ /\ YearStands(req[r])'
       /\ DeletedYearIsEmpty => DeletedYearIsEmpty'
    \/ ~CatalogHandler(r)

\* What a seed of the pool has found out is still so: after the clean-up no
\* section is deleted, and after the guard no row is live.
PoolStands(q) ==
  q.op = "seed" /\ q.kind = "Pool" /\ q.at # "purge" =>
    /\ poolTable = "Section" => \A n \in Names : pool[n] # "deleted"
    /\ q.at = "insert" => \A n \in Names : pool[n] # "live"

\* Sections and periods are seeded as a whole: after the insert every row of
\* the batch is live, whatever was created, renamed or deleted before.  Of
\* sections a handler that overtakes the seed may hide one, by deleting it
\* after the clean-up; the insert of periods fails instead.
SeedsAreWhole ==
  \A r \in Requests :
    \/ /\ PoolStands(req[r]) => PoolStands(req[r])'
       /\ InsertPool(r) /\ poolTable # "Subject"
            /\ (poolTable = "Section" => PoolStands(req[r])) =>
            \A n \in req[r].batch : pool'[n] = "live"
    \/ ~CatalogHandler(r)

\* A deleted row stays deleted: no seed and no handler shows it again.  Its
\* name is freed by the clean-up of sections, and by an update of a period
\* that a deletion overtook: the period is then deleted under its new name.
CatalogStaysDeleted ==
  [][/\ \A y \in Years : year[y] = "deleted" => year'[y] = "deleted"
     /\ \A c \in Classes : class[c] = "deleted" => class'[c] = "deleted"
     /\ \A n \in Names : pool[n] = "deleted" =>
          \/ pool'[n] = "deleted"
          \/ poolTable = "Section" /\ pool'[n] = "absent"
          \/ poolTable = "Period" /\ pool'[n] = "absent"
               /\ \E name \in Names : /\ pool[name] = "absent"
                                      /\ pool'[name] = "deleted"]_catalogVars
=============================================================================
