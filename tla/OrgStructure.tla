---------------------------- MODULE OrgStructure ----------------------------
(***************************************************************************)
(* Departments, which form a hierarchy, and the employee roles that belong *)
(* to them (hr.service.ts of tenant-service): the editing handlers, the    *)
(* seed of the canonical structure and the clone from MASTER_TEMPLATE.     *)
(* The unique keys on the code of a department and of a role ignore        *)
(* softDelete, which the handlers set and filter themselves.               *)
(*                                                                         *)
(* Abstracted: a row is named by its code, so an edit of the code is left  *)
(* out; isActive and division, which nothing here decides by; the          *)
(* transport seed, which upserts one department by code.  The transaction  *)
(* of an import after it has read the codes is one step.                   *)
(***************************************************************************)
EXTENDS Handlers

CONSTANTS
  Departments,  \* codes, numbered in the order the master's were created
  StaffRoles,   \* codes
  SeedOrg,      \* what seedOrgStructure creates
  MasterOrgs    \* what cloneOrgFromMaster may find

\* The superior of each department an import has, the department of each role.
Orgs == [superior : UNION {[S -> Departments \cup {Null}] :
                             S \in SUBSET Departments},
         home : UNION {[S -> Departments] : S \in SUBSET StaffRoles}]

ASSUME DepartmentsAssumption == Departments \subseteq Nat
ASSUME OrgsAssumption == MasterOrgs \cup {SeedOrg} \subseteq Orgs

VARIABLES
  department,   \* Department rows
  superior,     \* Department.parentId, Null at the top
  staffRole,    \* EmployeeRole rows
  home          \* EmployeeRole.departmentId

departmentRows == <<department, superior>>
roleRows == <<staffRole, home>>
orgVars == <<departmentRows, roleRows, req>>

OrgInit ==
  /\ department = [d \in Departments |-> "absent"]
  /\ superior = [d \in Departments |-> Null]
  /\ staffRole = [x \in StaffRoles |-> "absent"]
  /\ home = [x \in StaffRoles |-> Null]
  /\ HandlersInit

\* A parent or department a request names must be live; it may name none.
Named(d) == d = Null \/ d \in LiveIn(department)

-----------------------------------------------------------------------------
(***************************************************************************)
(* Departments                                                             *)
(***************************************************************************)
CreateDepartment(r, d, above) ==
  /\ req[r] = Idle
  /\ Named(above)
  /\ Continue(r, [op |-> "createDepartment", dept |-> d, above |-> above])
  /\ UNCHANGED <<departmentRows, roleRows>>

InsertDepartment(r) ==
  /\ req[r].op = "createDepartment"
  /\ department[req[r].dept] = "absent"
  /\ department' = [department EXCEPT ![req[r].dept] = "live"]
  /\ superior' = [superior EXCEPT ![req[r].dept] = req[r].above]
  /\ Reply(r)
  /\ UNCHANGED roleRows

\* updateDepartment with a parentId that is an id; undefined changes nothing
\* here.
UpdateDepartment(r, d, above) ==
  /\ req[r] = Idle
  /\ d \in LiveIn(department)
  /\ above # d /\ Named(above)
  /\ Continue(r, [op |-> "updateDepartment", dept |-> d, above |-> above])
  /\ UNCHANGED <<departmentRows, roleRows>>

WriteDepartment(r) ==
  /\ req[r].op = "updateDepartment"
  /\ superior' = [superior EXCEPT ![req[r].dept] = req[r].above]
  /\ Reply(r)
  /\ UNCHANGED <<department, roleRows>>

DeleteDepartment(r, d) ==
  /\ req[r] = Idle
  /\ d \in LiveIn(department)
  /\ department' = [department EXCEPT ![d] = "deleted"]
  /\ UNCHANGED <<superior, roleRows, req>>

-----------------------------------------------------------------------------
(***************************************************************************)
(* Employee roles                                                          *)
(***************************************************************************)
CreateEmployeeRole(r, x, d) ==
  /\ req[r] = Idle
  /\ d \in LiveIn(department)
  /\ Continue(r, [op |-> "createRole", role |-> x, dept |-> d])
  /\ UNCHANGED <<departmentRows, roleRows>>

InsertEmployeeRole(r) ==
  /\ req[r].op = "createRole"
  /\ staffRole[req[r].role] = "absent"
  /\ staffRole' = [staffRole EXCEPT ![req[r].role] = "live"]
  /\ home' = [home EXCEPT ![req[r].role] = req[r].dept]
  /\ Reply(r)
  /\ UNCHANGED departmentRows

UpdateEmployeeRole(r, x, d) ==
  /\ req[r] = Idle
  /\ x \in LiveIn(staffRole)
  /\ d \in LiveIn(department)
  /\ Continue(r, [op |-> "updateRole", role |-> x, dept |-> d])
  /\ UNCHANGED <<departmentRows, roleRows>>

WriteEmployeeRole(r) ==
  /\ req[r].op = "updateRole"
  /\ home' = [home EXCEPT ![req[r].role] = req[r].dept]
  /\ Reply(r)
  /\ UNCHANGED <<departmentRows, staffRole>>

DeleteEmployeeRole(r, x) ==
  /\ req[r] = Idle
  /\ x \in LiveIn(staffRole)
  /\ staffRole' = [staffRole EXCEPT ![x] = "deleted"]
  /\ UNCHANGED <<departmentRows, home, req>>

-----------------------------------------------------------------------------
(***************************************************************************)
(* Imports                                                                 *)
(***************************************************************************)
\* Roots are imported first and the others in the order of their creation: a
\* superior that is no root and comes later is not in deptIdMap yet.
Placed(org, d) ==
  LET above == org.superior[d]
  IN IF /\ above \in DOMAIN org.superior
        /\ org.superior[above] = Null \/ above < d
     THEN above ELSE Null

\* Roles whose department the org does not have are skipped.
Housed(org) == {x \in DOMAIN org.home : org.home[x] \in DOMAIN org.superior}

\* seedOrgStructure and cloneOrgFromMaster read which codes are live ...
ImportOrg(r, org) ==
  /\ req[r] = Idle
  /\ DOMAIN org.superior # {}
  /\ Continue(r, [op |-> "import", org |-> org,
                  depts |-> DOMAIN org.superior \ LiveIn(department),
                  roles |-> Housed(org) \ LiveIn(staffRole)])
  /\ UNCHANGED <<departmentRows, roleRows>>

\* Mutant: a code that was deleted is skipped too, as if it were live.
WriteWhatIsFree(r) ==
  /\ req[r].op = "import"
  /\ LET org == req[r].org
         fresh == {d \in req[r].depts : department[d] = "absent"}
         roles == {x \in req[r].roles : staffRole[x] = "absent"}
     IN /\ department' = [d \in Departments |->
                            IF d \in fresh THEN "live" ELSE department[d]]
        /\ superior' = [d \in Departments |->
                          IF d \in fresh THEN Placed(org, d)
                                         ELSE superior[d]]
        /\ staffRole' = [x \in StaffRoles |->
                           IF x \in roles THEN "live" ELSE staffRole[x]]
        /\ home' = [x \in StaffRoles |->
                      IF x \in roles THEN org.home[x] ELSE home[x]]
  /\ Reply(r)

\* ... and create the rows of the others.  A code that is taken, by a row
\* deleted before or made meanwhile, rolls all of it back (OrgAbandon), and
\* so does a department that was live and is not found again.
WriteImport(r) ==
  /\ req[r].op = "import"
  /\ LET org == req[r].org
         fresh == req[r].depts
         roles == req[r].roles
     IN /\ \A d \in fresh : department[d] = "absent"
        /\ \A x \in roles : staffRole[x] = "absent"
        /\ DOMAIN org.superior \ fresh \subseteq LiveIn(department)
        /\ department' = [d \in Departments |->
                            IF d \in fresh THEN "live" ELSE department[d]]
        /\ superior' = [d \in Departments |->
                          IF d \in fresh THEN Placed(org, d)
                                         ELSE superior[d]]
        /\ staffRole' = [x \in StaffRoles |->
                           IF x \in roles THEN "live" ELSE staffRole[x]]
        /\ home' = [x \in StaffRoles |->
                      IF x \in roles THEN org.home[x] ELSE home[x]]
  /\ Reply(r)

OrgAbandon(r) == Abandon(r) /\ UNCHANGED <<departmentRows, roleRows>>

\* Whatever handler r may do next.
OrgHandler(r) ==
  \/ \E d \in Departments :
       \/ \E above \in Departments \cup {Null} :
            CreateDepartment(r, d, above) \/ UpdateDepartment(r, d, above)
       \/ DeleteDepartment(r, d)
  \/ \E x \in StaffRoles :
       \/ \E d \in Departments :
            CreateEmployeeRole(r, x, d) \/ UpdateEmployeeRole(r, x, d)
       \/ DeleteEmployeeRole(r, x)
  \/ \E org \in MasterOrgs \cup {SeedOrg} : ImportOrg(r, org)
  \/ InsertDepartment(r) \/ WriteDepartment(r)
  \/ InsertEmployeeRole(r) \/ WriteEmployeeRole(r)
  \/ WriteImport(r)
  \/ OrgAbandon(r)

OrgNext == \E r \in Requests : OrgHandler(r)

OrgSpec == OrgInit /\ [][OrgNext]_orgVars

-----------------------------------------------------------------------------
OrgRequest ==
  {Idle}
    \cup [op : {"createDepartment", "updateDepartment"}, dept : Departments,
          above : Departments \cup {Null}]
    \cup [op : {"createRole", "updateRole"}, role : StaffRoles,
          dept : Departments]
    \cup [op : {"import"}, org : MasterOrgs \cup {SeedOrg},
          depts : SUBSET Departments, roles : SUBSET StaffRoles]

OrgTypeOK ==
  /\ department \in [Departments -> Presence]
  /\ superior \in [Departments -> Departments \cup {Null}]
  /\ staffRole \in [StaffRoles -> Presence]
  /\ home \in [StaffRoles -> Departments \cup {Null}]
  /\ req \in [Requests -> OrgRequest]

-----------------------------------------------------------------------------
(***************************************************************************)
(* Properties                                                              *)
(***************************************************************************)
\* What an import has still to make is what is not live.
OrgStands(q) ==
  q.op = "import" =>
    /\ q.depts = DOMAIN q.org.superior \ LiveIn(department)
    /\ q.roles = Housed(q.org) \ LiveIn(staffRole)

\* An import that writes anything leaves the whole of its org live, puts
\* each department it makes under the department that has its superior's
\* code whenever that is a root of the org or was created before it, and
\* each role it makes into a live department; what was there keeps its
\* place.  Only a department or a role that is made or deleted after the
\* import has looked can spoil it.
ImportsAreWhole ==
  \A r \in Requests :
    \/ ~OrgStands(req[r])
    \/ /\ OrgStands(req[r])'
       /\ WriteImport(r)
            /\ (department' # department \/ staffRole' # staffRole) =>
          LET org == req[r].org
              made == {d \in Departments : department'[d] # department[d]}
          IN /\ DOMAIN org.superior \subseteq LiveIn(department')
             /\ Housed(org) \subseteq LiveIn(staffRole')
             /\ \A d \in made :
                  LET above == org.superior[d]
                  IN above \in DOMAIN org.superior
                       /\ (org.superior[above] = Null \/ above < d) =>
                     superior'[d] = above
             /\ \A d \in Departments \ made : superior'[d] = superior[d]
             /\ \A x \in StaffRoles :
                  staffRole'[x] # staffRole[x] =>
                    home'[x] \in LiveIn(department')
    \/ ~OrgHandler(r)

\* A department or a role that was deleted is not shown again.
OrgStaysDeleted ==
  [][/\ \A d \in Departments :
          department[d] = "deleted" => department'[d] = "deleted"
     /\ \A x \in StaffRoles :
          staffRole[x] = "deleted" => staffRole'[x] = "deleted"]_orgVars

\* updateDepartment's comment at hr.service.ts:93: a circular reference is
\* prevented.  It refuses a department as its own superior, and no more: the
\* departments reached from d by going up must not come back to it.
Above(d, n) ==
  LET up[k \in 0 .. n] == IF k = 0 THEN d
                          ELSE IF up[k - 1] = Null THEN Null
                          ELSE superior[up[k - 1]]
  IN up[n]

NoCircularReference ==
  \A d \in Departments : \A n \in 1 .. Cardinality(Departments) :
    Above(d, n) # d
=============================================================================
