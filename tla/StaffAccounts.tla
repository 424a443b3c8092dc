--------------------------- MODULE StaffAccounts ----------------------------
(***************************************************************************)
(* The accounts of the staff: the Employee rows hr.service.ts, and the     *)
(* teacher, driver and attendant handlers, keep, and the passwords of      *)
(* staff-auth.service.ts.  An employee starts with a hash of the date of   *)
(* birth, or with none, is given a token that only allows a change of the  *)
(* password (RequireSetupGuard of libs/auth reads the claim), and after    *)
(* the change gets full ones.                                              *)
(*                                                                         *)
(* Abstracted: the password is what kind it is, and who logs in knows it;  *)
(* the best token an employee was issued; tokens do not expire; profiles,  *)
(* departments and roles, which OrgStructure has; the extension rows of    *)
(* teachers, drivers and attendants, which login does not read.            *)
(***************************************************************************)
EXTENDS Handlers

CONSTANTS
  Employees,
  MaxBackfills  \* backfills at a time: the endpoint is meant to be used once

ASSUME MaxBackfillsAssumption == MaxBackfills \in Nat

VARIABLES
  employee,     \* Employee rows, Null before they are made
  token         \* the token the employee holds: setup only, full or Null

accounts == <<employee, token>>
staffVars == <<accounts, req>>

Passwords == {Null, "default", "chosen"}

EmployeeRow == [live : BOOLEAN, isActive : BOOLEAN, birth : BOOLEAN,
                password : Passwords, mustChange : BOOLEAN]

ASSUME NoAccountAssumption ==
  Null \notin EmployeeRow \cup {"default", "chosen", "setup", "full"}

StaffRequest ==
  {Idle} \cup [op : {"login"}, id : Employees, mustChange : BOOLEAN]
         \cup [op : {"change"}, id : Employees]
         \cup [op : {"backfill"}, todo : SUBSET Employees]

StaffInit ==
  /\ employee = [e \in Employees |-> Null]
  /\ token = [e \in Employees |-> Null]
  /\ HandlersInit

Hired == {e \in Employees : employee[e] # Null}
LiveStaff == {e \in Hired : employee[e].live}

-----------------------------------------------------------------------------
(***************************************************************************)
(* createEmployee, createTeacher, createDriver, createAttendant: one       *)
(* password rule for all (hashDateOfBirth).                                *)
(***************************************************************************)
CreateEmployee(r, e, birth, isActive) ==
  /\ req[r] = Idle
  /\ e \notin Hired
  /\ employee' = [employee EXCEPT ![e] =
                    [live |-> TRUE, isActive |-> isActive, birth |-> birth,
                     password |-> IF birth THEN "default" ELSE Null,
                     mustChange |-> TRUE]]
  /\ UNCHANGED <<token, req>>

\* Mutant: a field the caller left out is written as null.
UpdateEveryField(r, e, birth, isActive) ==
  /\ req[r] = Idle
  /\ e \in LiveStaff
  /\ employee' = [employee EXCEPT ![e].birth = birth,
                                  ![e].isActive = isActive]
  /\ UNCHANGED <<token, req>>

\* A date of birth entered later sets no password.
UpdateEmployee(r, e, birth, isActive) ==
  /\ req[r] = Idle
  /\ e \in LiveStaff
  /\ employee' = [employee EXCEPT ![e].birth = Given(birth, @),
                                  ![e].isActive = Given(isActive, @)]
  /\ UNCHANGED <<token, req>>

DeleteEmployee(r, e) ==
  /\ req[r] = Idle
  /\ e \in LiveStaff
  /\ employee' = [employee EXCEPT ![e].live = FALSE]
  /\ UNCHANGED <<token, req>>

-----------------------------------------------------------------------------
(***************************************************************************)
(* StaffAuthService                                                        *)
(***************************************************************************)
Login(r, e) ==
  /\ req[r] = Idle
  /\ e \in LiveStaff
  /\ employee[e].isActive /\ employee[e].password # Null
  /\ Continue(r, [op |-> "login", id |-> e,
                  mustChange |-> employee[e].mustChange])
  /\ UNCHANGED accounts

\* The hash is compared, and the token carries the flag as it was read.
IssueToken(r) ==
  /\ req[r].op = "login"
  /\ token' = [token EXCEPT ![req[r].id] =
                 IF req[r].mustChange /\ @ # "full" THEN "setup" ELSE "full"]
  /\ Reply(r)
  /\ UNCHANGED employee

ChangePassword(r, e) ==
  /\ req[r] = Idle
  /\ token[e] # Null
  /\ e \in LiveStaff
  /\ Continue(r, [op |-> "change", id |-> e])
  /\ UNCHANGED accounts

WritePassword(r) ==
  /\ req[r].op = "change"
  /\ employee' = [employee EXCEPT ![req[r].id].password = "chosen",
                                  ![req[r].id].mustChange = FALSE]
  /\ Reply(r)
  /\ UNCHANGED token

Backfilling == {r \in Requests : req[r].op = "backfill"}

\* Mutant: the list holds everybody who has not chosen a password.
BackfillUnchosen(r) ==
  /\ req[r] = Idle
  /\ Cardinality(Backfilling) < MaxBackfills
  /\ Continue(r, [op |-> "backfill",
                  todo |-> {e \in LiveStaff : employee[e].mustChange}])
  /\ UNCHANGED accounts

\* backfillPasswords lists the live employees without a password ...
BackfillPasswords(r) ==
  /\ req[r] = Idle
  /\ Cardinality(Backfilling) < MaxBackfills
  /\ Continue(r, [op |-> "backfill",
                  todo |-> {e \in LiveStaff : employee[e].password = Null}])
  /\ UNCHANGED accounts

\* ... and gives them one each, whatever they have by then.
BackfillOne(r, e) ==
  /\ req[r].op = "backfill"
  /\ e \in req[r].todo
  /\ employee' = [employee EXCEPT ![e].password = "default",
                                  ![e].mustChange = TRUE]
  /\ Continue(r, [req[r] EXCEPT !.todo = @ \ {e}])
  /\ UNCHANGED token

\* A rejected update is caught, and the loop goes on.
BackfillSkips(r, e) ==
  /\ req[r].op = "backfill"
  /\ e \in req[r].todo
  /\ Continue(r, [req[r] EXCEPT !.todo = @ \ {e}])
  /\ UNCHANGED accounts

BackfillDone(r) ==
  /\ req[r].op = "backfill"
  /\ req[r].todo = {}
  /\ Reply(r)
  /\ UNCHANGED accounts

StaffAbandon(r) == Abandon(r) /\ UNCHANGED accounts

StaffNext ==
  \E r \in Requests :
    \/ \E e \in Employees :
         \/ \E birth \in BOOLEAN, isActive \in BOOLEAN :
              CreateEmployee(r, e, birth, isActive)
         \/ \E birth \in BOOLEAN \cup {Null},
               isActive \in BOOLEAN \cup {Null} :
              UpdateEmployee(r, e, birth, isActive)
         \/ DeleteEmployee(r, e)
         \/ Login(r, e) \/ ChangePassword(r, e)
         \/ BackfillOne(r, e) \/ BackfillSkips(r, e)
    \/ IssueToken(r) \/ WritePassword(r)
    \/ BackfillPasswords(r) \/ BackfillDone(r)
    \/ StaffAbandon(r)

StaffSpec == StaffInit /\ [][StaffNext]_staffVars

-----------------------------------------------------------------------------
StaffTypeOK ==
  /\ employee \in [Employees -> EmployeeRow \cup {Null}]
  /\ token \in [Employees -> {Null, "setup", "full"}]
  /\ req \in [Requests -> StaffRequest]

-----------------------------------------------------------------------------
(***************************************************************************)
(* Properties                                                              *)
(***************************************************************************)
\* While backfills do not overlap, a full token is only ever in the hands of
\* an employee who has chosen a password, and the choice stands: neither a
\* login that read the row before the change nor a backfill that listed it
\* before brings the default password or the duty to change it back.
FullTokensAreEarned ==
  \A e \in Employees :
    /\ token[e] = "full" => e \in Hired /\ employee[e].password = "chosen"
    /\ e \in Hired =>
         (employee[e].password = "chosen" <=> ~employee[e].mustChange)
=============================================================================
