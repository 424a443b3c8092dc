---------------------------- MODULE StaffProofs -----------------------------
(***************************************************************************)
(* Proofs about StaffAccounts: for any number of employees and of          *)
(* overlapping logins, changes of password and edits, as long as one       *)
(* backfill is run at a time.                                              *)
(***************************************************************************)
EXTENDS StaffAccounts, FiniteSetTheorems, TLAPS

(***************************************************************************)
(* The inductive invariant.  Sound is about the rows alone; an employee    *)
(* without a password can hold no token and has no login or change on its  *)
(* way (Locked), so one that a backfill has listed is still without one    *)
(* when its turn comes (ListedBare).                                       *)
(***************************************************************************)
HasPassword(e) == employee[e] # Null /\ employee[e].password # Null
HasChosen(e) == employee[e] # Null /\ employee[e].password = "chosen"

Sound(e) ==
  /\ employee[e] # Null => (HasChosen(e) <=> ~employee[e].mustChange)
  /\ token[e] # Null => HasPassword(e)
  /\ token[e] = "full" => HasChosen(e)

Locked(r) ==
  /\ req[r].op \in {"login", "change"} => HasPassword(req[r].id)
  /\ req[r].op = "login" /\ ~req[r].mustChange => HasChosen(req[r].id)

ListedBare(r) ==
  req[r].op = "backfill" =>
    /\ \A s \in Requests : req[s].op = "backfill" => s = r
    /\ \A e \in req[r].todo : employee[e] # Null /\ ~HasPassword(e)

StaffInv ==
  /\ StaffTypeOK
  /\ \A e \in Employees : Sound(e)
  /\ \A r \in Requests : Locked(r) /\ ListedBare(r)

-----------------------------------------------------------------------------
\* What a request in flight carries.
LEMMA StaffFields ==
  ASSUME StaffTypeOK, NEW r \in Requests
  PROVE  /\ req[r].op \in {"login", "change"} => req[r].id \in Employees
         /\ req[r].op = "login" => req[r].mustChange \in BOOLEAN
         /\ req[r].op = "backfill" =>
              /\ req[r].todo \subseteq Employees
              /\ \A rest : [req[r] EXCEPT !.todo = rest] =
                             [op |-> "backfill", todo |-> rest]
<1>1. req[r] \in StaffRequest
  BY DEF StaffTypeOK
<1>2. CASE req[r].op = "backfill"
  <2>1. req[r] \in [op : {"backfill"}, todo : SUBSET Employees]
    BY <1>1, <1>2 DEF StaffRequest, Idle
  <2> QED
    BY <1>2, <2>1
<1>3. CASE req[r].op # "backfill"
  BY <1>1, <1>3 DEF StaffRequest, Idle
<1> QED
  BY <1>2, <1>3

LEMMA StaffInitInv == StaffInit => StaffInv
<1> SUFFICES ASSUME StaffInit PROVE StaffInv
  OBVIOUS
<1>1. StaffTypeOK
  BY DEF StaffInit, HandlersInit, StaffTypeOK, StaffRequest
<1>2. \A e \in Employees : Sound(e)
  BY NoAccountAssumption DEF StaffInit, Sound
<1>3. \A r \in Requests : Locked(r) /\ ListedBare(r)
  BY DEF StaffInit, HandlersInit, Idle, Locked, ListedBare
<1> QED
  BY <1>1, <1>2, <1>3 DEF StaffInv

(***************************************************************************)
(* Edits of the row.                                                       *)
(***************************************************************************)
LEMMA CreateKeeps ==
  ASSUME StaffInv, NEW r \in Requests, NEW e \in Employees,
         NEW birth \in BOOLEAN, NEW isActive \in BOOLEAN,
         CreateEmployee(r, e, birth, isActive)
  PROVE  StaffInv'
<1> DEFINE row == [live |-> TRUE, isActive |-> isActive, birth |-> birth,
                   password |-> IF birth THEN "default" ELSE Null,
                   mustChange |-> TRUE]
<1>1. /\ employee[e] = Null /\ UNCHANGED <<token, req>>
      /\ employee'[e] = row
      /\ \A d \in Employees \ {e} : employee'[d] = employee[d]
  BY DEF StaffInv, StaffTypeOK, CreateEmployee, Hired
<1>2. row \in EmployeeRow
  BY Zenon DEF EmployeeRow, Passwords
<1>3. row.mustChange /\ row.password # "chosen"
  BY NoAccountAssumption
<1> HIDE DEF row
<1>4. StaffTypeOK'
  BY <1>1, <1>2 DEF StaffInv, StaffTypeOK, CreateEmployee
<1>5. \A d \in Employees : Sound(d)'
  BY <1>1, <1>3 DEF StaffInv, Sound, HasChosen, HasPassword
<1>6. \A s \in Requests : Locked(s)' /\ ListedBare(s)'
  BY <1>1, StaffFields
     DEF StaffInv, Locked, ListedBare, HasChosen, HasPassword
<1> QED
  BY <1>4, <1>5, <1>6 DEF StaffInv

\* An edit that leaves the password and the duty to change it.
LEMMA EditKeeps ==
  ASSUME StaffInv, NEW e \in Employees, UNCHANGED <<token, req>>,
         employee[e] # Null, employee' = [employee EXCEPT ![e] = employee'[e]],
         employee'[e] \in EmployeeRow,
         employee'[e].password = employee[e].password,
         employee'[e].mustChange = employee[e].mustChange
  PROVE  StaffInv'
<1>1. /\ employee'[e] # Null
      /\ \A d \in Employees \ {e} : employee'[d] = employee[d]
  BY NoAccountAssumption DEF StaffInv, StaffTypeOK
<1>2. StaffTypeOK'
  BY <1>1 DEF StaffInv, StaffTypeOK
<1>3. \A d \in Employees : /\ Sound(d)'
                           /\ HasChosen(d)' <=> HasChosen(d)
                           /\ HasPassword(d)' <=> HasPassword(d)
                           /\ employee'[d] = Null <=> employee[d] = Null
  BY <1>1 DEF StaffInv, Sound, HasChosen, HasPassword
<1>4. \A s \in Requests : Locked(s)' /\ ListedBare(s)'
  BY <1>3, StaffFields DEF StaffInv, Locked, ListedBare
<1> QED
  BY <1>2, <1>3, <1>4 DEF StaffInv

LEMMA UpdateKeeps ==
  ASSUME StaffInv, NEW r \in Requests, NEW e \in Employees,
         NEW birth \in BOOLEAN \cup {Null},
         NEW isActive \in BOOLEAN \cup {Null},
         UpdateEmployee(r, e, birth, isActive)
  PROVE  StaffInv'
<1>1. employee[e] \in EmployeeRow /\ employee[e] # Null
  BY NoAccountAssumption
     DEF StaffInv, StaffTypeOK, UpdateEmployee, LiveStaff, Hired
<1>2. employee'[e] = [employee[e] EXCEPT
                        !.birth = Given(birth, employee[e].birth),
                        !.isActive = Given(isActive, employee[e].isActive)]
  BY <1>1 DEF StaffInv, StaffTypeOK, UpdateEmployee, EmployeeRow
<1>3. /\ Given(birth, employee[e].birth) \in BOOLEAN
      /\ Given(isActive, employee[e].isActive) \in BOOLEAN
  <2>1. employee[e].birth \in BOOLEAN /\ employee[e].isActive \in BOOLEAN
    BY <1>1, Zenon DEF EmployeeRow
  <2> QED
    BY <2>1, Zenon DEF Given
<1>4. /\ employee'[e] \in EmployeeRow
      /\ employee'[e].password = employee[e].password
      /\ employee'[e].mustChange = employee[e].mustChange
  BY <1>1, <1>2, <1>3 DEF EmployeeRow
<1>5. employee' = [employee EXCEPT ![e] = employee'[e]]
  BY DEF StaffInv, StaffTypeOK, UpdateEmployee
<1>6. UNCHANGED <<token, req>>
  BY DEF UpdateEmployee
<1> QED
  BY <1>1, <1>4, <1>5, <1>6, EditKeeps

LEMMA DeleteKeeps ==
  ASSUME StaffInv, NEW r \in Requests, NEW e \in Employees,
         DeleteEmployee(r, e)
  PROVE  StaffInv'
<1>1. employee[e] \in EmployeeRow /\ employee[e] # Null
  BY NoAccountAssumption
     DEF StaffInv, StaffTypeOK, DeleteEmployee, LiveStaff, Hired
<1>2. /\ employee'[e] \in EmployeeRow
      /\ employee'[e].password = employee[e].password
      /\ employee'[e].mustChange = employee[e].mustChange
      /\ employee' = [employee EXCEPT ![e] = employee'[e]]
  <2>1. employee'[e] = [employee[e] EXCEPT !.live = FALSE]
    BY DEF StaffInv, StaffTypeOK, DeleteEmployee
  <2> QED
    BY <1>1, <2>1 DEF StaffInv, StaffTypeOK, DeleteEmployee, EmployeeRow
<1> QED
  BY <1>1, <1>2, EditKeeps DEF DeleteEmployee

(***************************************************************************)
(* Requests that stop, or that only read and go on.                        *)
(***************************************************************************)
LEMMA ReplyKeeps ==
  ASSUME StaffInv, NEW r \in Requests, Reply(r), UNCHANGED accounts
  PROVE  StaffInv'
<1>1. req'[r] = Idle /\ \A s \in Requests \ {r} : req'[s] = req[s]
  BY DEF StaffInv, StaffTypeOK, Reply, Continue
<1>2. StaffTypeOK'
  BY <1>1 DEF StaffInv, StaffTypeOK, StaffRequest, accounts, Reply, Continue
<1>3. \A e \in Employees : Sound(e)'
  BY DEF StaffInv, Sound, HasChosen, HasPassword, accounts
<1>4. \A s \in Requests : Locked(s)' /\ ListedBare(s)'
  BY <1>1 DEF StaffInv, Locked, ListedBare, HasChosen, HasPassword, accounts, Idle
<1> QED
  BY <1>2, <1>3, <1>4 DEF StaffInv

LEMMA LoginKeeps ==
  ASSUME StaffInv, NEW r \in Requests, NEW e \in Employees,
         Login(r, e) \/ ChangePassword(r, e)
  PROVE  StaffInv'
<1>1. /\ UNCHANGED accounts
      /\ req'[r].op \in {"login", "change"} /\ req'[r].id = e
      /\ req'[r].op = "login" => req'[r].mustChange = employee[e].mustChange
      /\ req'[r] \in StaffRequest
      /\ \A s \in Requests \ {r} : req'[s] = req[s]
  <2>1. employee[e] # Null => employee[e].mustChange \in BOOLEAN
    BY Zenon DEF StaffInv, StaffTypeOK, EmployeeRow
  <2>2. CASE Login(r, e)
    BY <2>1, <2>2 DEF Login, Continue, StaffInv, StaffTypeOK, StaffRequest,
       LiveStaff, Hired
  <2>3. CASE ChangePassword(r, e)
    BY <2>3 DEF ChangePassword, Continue, StaffInv, StaffTypeOK, StaffRequest
  <2> QED
    BY <2>2, <2>3
<1>2. HasPassword(e)
  BY DEF StaffInv, Sound, Login, ChangePassword, LiveStaff, Hired, HasPassword
<1>3. StaffTypeOK'
  BY <1>1 DEF StaffInv, StaffTypeOK, accounts, Login, ChangePassword, Continue
<1>4. \A d \in Employees : Sound(d)'
  BY <1>1 DEF StaffInv, Sound, HasChosen, HasPassword, accounts
<1>5. Locked(r)' /\ ListedBare(r)'
  BY <1>1, <1>2
     DEF StaffInv, Sound, Locked, ListedBare, HasChosen, HasPassword, accounts
<1>6. \A s \in Requests \ {r} : Locked(s)' /\ ListedBare(s)'
  BY <1>1 DEF StaffInv, Locked, ListedBare, HasChosen, HasPassword, accounts
<1> QED
  BY <1>3, <1>4, <1>5, <1>6 DEF StaffInv

LEMMA IssueKeeps ==
  ASSUME StaffInv, NEW r \in Requests, IssueToken(r)
  PROVE  StaffInv'
<1> DEFINE e == req[r].id
<1>1. e \in Employees /\ req[r].mustChange \in BOOLEAN /\ HasPassword(e)
      /\ (~req[r].mustChange => HasChosen(e))
  BY StaffFields DEF StaffInv, Locked, IssueToken
<1>2. /\ token'[e] \in {"setup", "full"}
      /\ token'[e] = "full" => ~req[r].mustChange \/ token[e] = "full"
      /\ \A d \in Employees \ {e} : token'[d] = token[d]
      /\ token' \in [Employees -> {Null, "setup", "full"}]
  BY <1>1 DEF StaffInv, StaffTypeOK, IssueToken
<1>3. /\ UNCHANGED employee
      /\ req'[r] = Idle /\ \A s \in Requests \ {r} : req'[s] = req[s]
      /\ req' \in [Requests -> StaffRequest]
  BY DEF StaffInv, StaffTypeOK, StaffRequest, IssueToken, Reply, Continue
<1> HIDE DEF e
<1>4. StaffTypeOK'
  BY <1>2, <1>3 DEF StaffInv, StaffTypeOK
<1>5. \A d \in Employees : Sound(d)'
  BY <1>1, <1>2, <1>3 DEF StaffInv, Sound, HasChosen, HasPassword
<1>6. \A s \in Requests : Locked(s)' /\ ListedBare(s)'
  BY <1>3 DEF StaffInv, Locked, ListedBare, HasChosen, HasPassword, Idle
<1> QED
  BY <1>4, <1>5, <1>6 DEF StaffInv

(***************************************************************************)
(* Passwords that are written.                                             *)
(***************************************************************************)
LEMMA WriteKeeps ==
  ASSUME StaffInv, NEW r \in Requests, WritePassword(r)
  PROVE  StaffInv'
<1> PICK e \in Employees : e = req[r].id
  BY StaffFields DEF StaffInv, WritePassword
<1>1. HasPassword(e)
  BY DEF StaffInv, Locked, WritePassword
<1>2. employee[e] \in EmployeeRow
  BY <1>1 DEF StaffInv, StaffTypeOK, HasPassword
<1>3. /\ employee'[e] = [employee[e] EXCEPT !.password = "chosen",
                                            !.mustChange = FALSE]
      /\ \A d \in Employees \ {e} : employee'[d] = employee[d]
      /\ employee' = [employee EXCEPT ![e] = employee'[e]]
  BY <1>1, <1>2 DEF StaffInv, StaffTypeOK, WritePassword, EmployeeRow
<1>4. /\ UNCHANGED token
      /\ req'[r] = Idle /\ \A s \in Requests \ {r} : req'[s] = req[s]
      /\ req' \in [Requests -> StaffRequest]
  BY DEF StaffInv, StaffTypeOK, StaffRequest, WritePassword, Reply, Continue
<1>5. /\ employee'[e] \in EmployeeRow /\ employee'[e] # Null
      /\ employee'[e].password = "chosen" /\ employee'[e].mustChange = FALSE
  <2>1. employee'[e] \in EmployeeRow
    BY <1>2, <1>3 DEF EmployeeRow, Passwords
  <2>2. /\ employee'[e].password = "chosen"
        /\ employee'[e].mustChange = FALSE
    BY <1>2, <1>3 DEF EmployeeRow
  <2> QED
    BY <2>1, <2>2, NoAccountAssumption
<1>6. HasChosen(e)' /\ HasPassword(e)'
  <2>1. Null # "chosen"
    BY NoAccountAssumption
  <2> QED
    BY <1>5, <2>1 DEF HasChosen, HasPassword
<1>7. StaffTypeOK'
  BY <1>3, <1>4, <1>5 DEF StaffInv, StaffTypeOK
<1>8. \A d \in Employees : Sound(d)'
  <2>1. Sound(e)'
    BY <1>5, <1>6, Zenon DEF Sound
  <2>2. ASSUME NEW d \in Employees \ {e}
        PROVE  Sound(d)'
    BY <1>3, <1>4 DEF StaffInv, Sound, HasChosen, HasPassword
  <2> QED
    BY <2>1, <2>2
<1>9. \A s \in Requests : Locked(s)' /\ ListedBare(s)'
  <2>1. Locked(r)' /\ ListedBare(r)'
    BY <1>4 DEF Locked, ListedBare, Idle
  <2>2. ASSUME NEW s \in Requests \ {r}
        PROVE  Locked(s)' /\ ListedBare(s)'
    <3>1. Locked(s) /\ ListedBare(s) /\ req'[s] = req[s]
      BY <1>4 DEF StaffInv
    <3>2. Locked(s)'
      <4>1. req[s].op \in {"login", "change"} => req[s].id \in Employees
        BY StaffFields DEF StaffInv
      <4>2. \A d \in Employees : /\ HasPassword(d) => HasPassword(d)'
                                 /\ HasChosen(d) => HasChosen(d)'
        BY <1>3, <1>6 DEF HasChosen, HasPassword
      <4> QED
        BY <3>1, <4>1, <4>2 DEF Locked
    <3>3. ListedBare(s)'
      <4>1. ASSUME req[s].op = "backfill", NEW d \in req[s].todo
            PROVE  employee'[d] = employee[d]
        BY <1>1, <1>3, <3>1, <4>1, StaffFields DEF StaffInv, ListedBare
      <4>2. ASSUME NEW q \in Requests, req'[q].op = "backfill"
            PROVE  req[q].op = "backfill"
        BY <1>4, <4>2 DEF Idle
      <4> QED
        BY <3>1, <4>1, <4>2 DEF ListedBare, HasPassword
    <3> QED
      BY <3>2, <3>3
  <2> QED
    BY <2>1, <2>2
<1> QED
  BY <1>7, <1>8, <1>9 DEF StaffInv

-----------------------------------------------------------------------------
\* A backfill starts only when none is running.
LEMMA BackfillAlone ==
  ASSUME IsFiniteSet(Requests), MaxBackfills <= 1,
         NEW r \in Requests, BackfillPasswords(r)
  PROVE  \A s \in Requests : req[s].op # "backfill"
<1>1. IsFiniteSet(Backfilling)
  BY FS_Subset DEF Backfilling
<1>2. Cardinality(Backfilling) = 0
  BY <1>1, FS_CardinalityType, MaxBackfillsAssumption DEF BackfillPasswords
<1> QED
  BY <1>1, <1>2, FS_EmptySet DEF Backfilling

LEMMA ListKeeps ==
  ASSUME StaffInv, IsFiniteSet(Requests), MaxBackfills <= 1,
         NEW r \in Requests, BackfillPasswords(r)
  PROVE  StaffInv'
<1> DEFINE todo == {e \in LiveStaff : employee[e].password = Null}
<1>1. /\ UNCHANGED accounts
      /\ req'[r] = [op |-> "backfill", todo |-> todo]
      /\ \A s \in Requests \ {r} : req'[s] = req[s]
      /\ todo \subseteq Employees
      /\ \A e \in todo : employee[e] # Null /\ ~HasPassword(e)
  BY DEF StaffInv, StaffTypeOK, BackfillPasswords, Continue, LiveStaff,
     Hired, HasPassword
<1> HIDE DEF todo
<1>2. StaffTypeOK'
  <2>1. req'[r] \in StaffRequest
    BY <1>1 DEF StaffRequest
  <2> QED
    BY <1>1, <2>1
       DEF StaffInv, StaffTypeOK, accounts, BackfillPasswords, Continue
<1>3. \A e \in Employees : Sound(e)'
  BY <1>1 DEF StaffInv, Sound, HasChosen, HasPassword, accounts
<1>4. Locked(r)' /\ ListedBare(r)'
  BY <1>1, BackfillAlone DEF Locked, ListedBare, HasPassword, accounts
<1>5. \A s \in Requests \ {r} : Locked(s)' /\ ListedBare(s)'
  BY <1>1, BackfillAlone
     DEF StaffInv, Locked, ListedBare, HasChosen, HasPassword, accounts
<1> QED
  BY <1>2, <1>3, <1>4, <1>5 DEF StaffInv

\* Where a backfill is, there is no other, and the employee on its list has
\* neither a password nor a token.
LEMMA BackfillFacts ==
  ASSUME StaffInv, NEW r \in Requests, NEW e \in Employees,
         req[r].op = "backfill", e \in req[r].todo,
         Continue(r, [req[r] EXCEPT !.todo = @ \ {e}])
  PROVE  /\ employee[e] \in EmployeeRow /\ ~HasPassword(e) /\ token[e] = Null
         /\ req'[r] = [op |-> "backfill", todo |-> req[r].todo \ {e}]
         /\ req' \in [Requests -> StaffRequest]
         /\ \A s \in Requests \ {r} :
              req'[s] = req[s] /\ req[s].op # "backfill"
<1>1. /\ req[r].todo \subseteq Employees
      /\ [req[r] EXCEPT !.todo = req[r].todo \ {e}] =
           [op |-> "backfill", todo |-> req[r].todo \ {e}]
  BY StaffFields DEF StaffInv
<1>2. employee[e] \in EmployeeRow /\ ~HasPassword(e) /\ token[e] = Null
  BY DEF StaffInv, StaffTypeOK, Sound, ListedBare
<1>3. /\ req'[r] = [op |-> "backfill", todo |-> req[r].todo \ {e}]
      /\ req' = [req EXCEPT ![r] = req'[r]]
  BY <1>1 DEF StaffInv, StaffTypeOK, Continue
<1>4. req'[r] \in StaffRequest
  BY <1>1, <1>3 DEF StaffRequest
<1>5. \A s \in Requests \ {r} : req'[s] = req[s] /\ req[s].op # "backfill"
  BY <1>3 DEF StaffInv, StaffTypeOK, ListedBare
<1>6. req' \in [Requests -> StaffRequest]
  BY <1>3, <1>4 DEF StaffInv, StaffTypeOK
<1> QED
  BY <1>2, <1>3, <1>5, <1>6

LEMMA SkipKeeps ==
  ASSUME StaffInv, NEW r \in Requests, NEW e \in Employees,
         BackfillSkips(r, e)
  PROVE  StaffInv'
<1>1. /\ req'[r] = [op |-> "backfill", todo |-> req[r].todo \ {e}]
      /\ req' \in [Requests -> StaffRequest]
      /\ \A s \in Requests \ {r} :
           req'[s] = req[s] /\ req[s].op # "backfill"
      /\ UNCHANGED accounts
  BY BackfillFacts DEF BackfillSkips
<1>2. StaffTypeOK'
  BY <1>1 DEF StaffInv, StaffTypeOK, accounts
<1>3. \A d \in Employees : Sound(d)'
  BY <1>1 DEF StaffInv, Sound, HasChosen, HasPassword, accounts
<1>4. Locked(r)' /\ ListedBare(r)'
  BY <1>1
     DEF StaffInv, BackfillSkips, Locked, ListedBare, HasPassword, accounts
<1>5. \A s \in Requests \ {r} : Locked(s)' /\ ListedBare(s)'
  BY <1>1 DEF StaffInv, Locked, ListedBare, HasChosen, HasPassword, accounts
<1> QED
  BY <1>2, <1>3, <1>4, <1>5 DEF StaffInv

LEMMA BackfillKeeps ==
  ASSUME StaffInv, NEW r \in Requests, NEW e \in Employees,
         BackfillOne(r, e)
  PROVE  StaffInv'
<1>1. /\ employee[e] \in EmployeeRow /\ ~HasPassword(e) /\ token[e] = Null
      /\ req'[r] = [op |-> "backfill", todo |-> req[r].todo \ {e}]
      /\ req' \in [Requests -> StaffRequest]
      /\ \A s \in Requests \ {r} :
           req'[s] = req[s] /\ req[s].op # "backfill"
      /\ UNCHANGED token
  BY BackfillFacts DEF BackfillOne
<1>2. /\ employee'[e] = [employee[e] EXCEPT !.password = "default",
                                            !.mustChange = TRUE]
      /\ \A d \in Employees \ {e} : employee'[d] = employee[d]
      /\ employee' = [employee EXCEPT ![e] = employee'[e]]
  BY <1>1 DEF StaffInv, StaffTypeOK, BackfillOne, EmployeeRow
<1>3. /\ employee'[e] \in EmployeeRow /\ employee'[e] # Null
      /\ employee'[e].password = "default" /\ employee'[e].mustChange
  <2>1. employee'[e] \in EmployeeRow
    BY <1>1, <1>2 DEF EmployeeRow, Passwords
  <2>2. employee'[e].password = "default" /\ employee'[e].mustChange
    BY <1>1, <1>2 DEF EmployeeRow
  <2> QED
    BY <2>1, <2>2, NoAccountAssumption
<1>4. StaffTypeOK'
  BY <1>1, <1>2, <1>3 DEF StaffInv, StaffTypeOK
<1>5. \A d \in Employees : Sound(d)'
  <2>1. /\ "default" # "chosen"
        /\ token'[e] = Null /\ token'[e] # "full"
    BY <1>1, NoAccountAssumption
  <2>2. Sound(e)'
    <3>1. ~HasChosen(e)' /\ employee'[e].mustChange = TRUE
      BY <1>3, <2>1 DEF HasChosen
    <3> QED
      BY <2>1, <3>1, Zenon DEF Sound
  <2>3. ASSUME NEW d \in Employees \ {e}
        PROVE  Sound(d)'
    BY <1>1, <1>2 DEF StaffInv, Sound, HasChosen, HasPassword
  <2> QED
    BY <2>2, <2>3
<1>6. Locked(r)' /\ ListedBare(r)'
  <2>1. /\ req[r].todo \subseteq Employees
        /\ \A d \in req[r].todo : employee[d] # Null /\ ~HasPassword(d)
    BY StaffFields DEF StaffInv, BackfillOne, ListedBare
  <2>2. req'[r].op = "backfill" /\ req'[r].todo = req[r].todo \ {e}
    BY <1>1
  <2>3. \A d \in req'[r].todo : employee'[d] # Null /\ ~HasPassword(d)'
    BY <1>2, <2>1, <2>2 DEF HasPassword
  <2>4. \A s \in Requests : req'[s].op = "backfill" => s = r
    BY <1>1
  <2> QED
    BY <2>2, <2>3, <2>4 DEF Locked, ListedBare
<1>7. ASSUME NEW s \in Requests \ {r}
      PROVE  Locked(s)' /\ ListedBare(s)'
  <2>1. Locked(s) /\ req'[s] = req[s] /\ req[s].op # "backfill"
    BY <1>1 DEF StaffInv
  <2>2. req[s].op \in {"login", "change"} =>
          req[s].id # e /\ req[s].id \in Employees
    BY <1>1, <2>1, StaffFields DEF StaffInv, Locked
  <2> QED
    BY <1>2, <2>1, <2>2 DEF Locked, ListedBare, HasChosen, HasPassword
<1> QED
  BY <1>4, <1>5, <1>6, <1>7 DEF StaffInv

-----------------------------------------------------------------------------
LEMMA StaffInvStep ==
  ASSUME StaffInv, IsFiniteSet(Requests), MaxBackfills <= 1,
         [StaffNext]_staffVars
  PROVE  StaffInv'
<1>1. CASE UNCHANGED staffVars
  BY <1>1 DEF staffVars, accounts, StaffInv, StaffTypeOK, Sound, Locked,
     ListedBare, HasChosen, HasPassword
<1>2. CASE StaffNext
  <2> PICK r \in Requests :
        \/ \E e \in Employees :
             \/ \E birth \in BOOLEAN, isActive \in BOOLEAN :
                  CreateEmployee(r, e, birth, isActive)
             \/ \E birth \in BOOLEAN \cup {Null},
                   isActive \in BOOLEAN \cup {Null} :
                  UpdateEmployee(r, e, birth, isActive)
             \/ DeleteEmployee(r, e)
             \/ Login(r, e) \/ ChangePassword(r, e)
             \/ BackfillOne(r, e) \/ BackfillSkips(r, e)
        \/ IssueToken(r) \/ WritePassword(r)
        \/ BackfillPasswords(r) \/ BackfillDone(r)
        \/ StaffAbandon(r)
    BY <1>2 DEF StaffNext
  <2>1. ASSUME NEW e \in Employees,
               NEW birth \in BOOLEAN, NEW isActive \in BOOLEAN,
               CreateEmployee(r, e, birth, isActive)
        PROVE  StaffInv'
    BY <2>1, CreateKeeps
  <2>2. ASSUME NEW e \in Employees,
               NEW birth \in BOOLEAN \cup {Null},
               NEW isActive \in BOOLEAN \cup {Null},
               UpdateEmployee(r, e, birth, isActive)
        PROVE  StaffInv'
    BY <2>2, UpdateKeeps
  <2>3. ASSUME NEW e \in Employees,
               DeleteEmployee(r, e) \/ Login(r, e) \/ ChangePassword(r, e)
        PROVE  StaffInv'
    BY <2>3, DeleteKeeps, LoginKeeps
  <2>4. ASSUME NEW e \in Employees,
               BackfillOne(r, e) \/ BackfillSkips(r, e)
        PROVE  StaffInv'
    BY <2>4, BackfillKeeps, SkipKeeps
  <2>5. CASE IssueToken(r) \/ WritePassword(r)
    BY <2>5, IssueKeeps, WriteKeeps
  <2>6. CASE BackfillPasswords(r)
    BY <2>6, ListKeeps
  <2>7. CASE BackfillDone(r) \/ StaffAbandon(r)
    BY <2>7, ReplyKeeps DEF BackfillDone, StaffAbandon, Abandon
  <2> QED
    BY <2>1, <2>2, <2>3, <2>4, <2>5, <2>6, <2>7
<1> QED
  BY <1>1, <1>2

LEMMA StaffInvariant ==
  ASSUME IsFiniteSet(Requests), MaxBackfills <= 1
  PROVE  StaffSpec => []StaffInv
BY StaffInitInv, StaffInvStep, PTL DEF StaffSpec

\* While backfills do not overlap, however many logins, changes and edits do,
\* only who has chosen a password holds a full token, and the choice stands.
THEOREM FullTokensEarned ==
  ASSUME IsFiniteSet(Requests), MaxBackfills <= 1
  PROVE  StaffSpec => []FullTokensAreEarned
<1>1. StaffInv => FullTokensAreEarned
  BY DEF StaffInv, Sound, HasChosen, HasPassword, FullTokensAreEarned, Hired
<1> QED
  BY <1>1, StaffInvariant, PTL

-----------------------------------------------------------------------------
(***************************************************************************)
(* Types, for backfills in any number too: nobody who was hired is         *)
(* forgotten, so a handler that has looked somebody up writes a row.       *)
(***************************************************************************)
LooksUp(q) ==
  /\ q.op \in {"login", "change"} => q.id \in Hired
  /\ q.op = "backfill" => q.todo \subseteq Hired

StaffTyped == StaffTypeOK /\ \A r \in Requests : LooksUp(req[r])

LEMMA StaffTypedInit == StaffInit => StaffTyped
BY DEF StaffInit, HandlersInit, StaffTyped, StaffTypeOK, StaffRequest,
   LooksUp, Idle

LEMMA AccountWritten ==
  ASSUME StaffTypeOK, NEW e \in Employees, NEW row \in EmployeeRow,
         employee' = [employee EXCEPT ![e] = row]
  PROVE  /\ employee' \in [Employees -> EmployeeRow \cup {Null}]
         /\ Hired \subseteq Hired'
BY NoAccountAssumption DEF StaffTypeOK, Hired

LEMMA StaffGoesOn ==
  ASSUME StaffTyped, NEW r \in Requests, NEW c \in StaffRequest, LooksUp(c),
         UNCHANGED req \/ Continue(r, c),
         employee' \in [Employees -> EmployeeRow \cup {Null}],
         token' \in [Employees -> {Null, "setup", "full"}],
         Hired \subseteq Hired'
  PROVE  StaffTyped'
<1>1. req' \in [Requests -> StaffRequest]
        /\ \A q \in Requests : req'[q] = req[q] \/ req'[q] = c
  BY DEF StaffTyped, StaffTypeOK, Continue
<1>2. \A q \in Requests : LooksUp(req[q])'
  BY <1>1 DEF StaffTyped, LooksUp
<1> QED
  BY <1>1, <1>2 DEF StaffTyped, StaffTypeOK

LEMMA IdleLooksUp == Idle \in StaffRequest /\ LooksUp(Idle)
BY DEF StaffRequest, LooksUp, Idle

\* A step between two requests, or the last of one, that writes accounts.
LEMMA AccountEdited ==
  ASSUME StaffTyped, NEW r \in Requests, NEW e \in Employees,
         NEW row \in EmployeeRow, UNCHANGED token, UNCHANGED req \/ Reply(r),
         employee' = [employee EXCEPT ![e] = row]
  PROVE  StaffTyped'
BY AccountWritten, StaffGoesOn, IdleLooksUp
   DEF StaffTyped, StaffTypeOK, Reply

LEMMA StaffEdits ==
  ASSUME StaffTyped, NEW r \in Requests, NEW e \in Employees,
         \/ \E birth \in BOOLEAN, isActive \in BOOLEAN :
              CreateEmployee(r, e, birth, isActive)
         \/ \E birth \in BOOLEAN \cup {Null},
               isActive \in BOOLEAN \cup {Null} :
              UpdateEmployee(r, e, birth, isActive)
         \/ DeleteEmployee(r, e)
  PROVE  StaffTyped'
<1>1. ASSUME NEW birth \in BOOLEAN, NEW isActive \in BOOLEAN,
             CreateEmployee(r, e, birth, isActive)
      PROVE  StaffTyped'
  <2> DEFINE row == [live |-> TRUE, isActive |-> isActive, birth |-> birth,
                     password |-> IF birth THEN "default" ELSE Null,
                     mustChange |-> TRUE]
  <2>1. row \in EmployeeRow
    BY Zenon DEF EmployeeRow, Passwords
  <2>2. /\ employee' = [employee EXCEPT ![e] = row]
        /\ UNCHANGED <<token, req>>
    BY <1>1 DEF CreateEmployee
  <2> HIDE DEF row
  <2> QED
    BY <2>1, <2>2, AccountEdited
<1>2. CASE e \in LiveStaff
  <2>1. employee[e] \in EmployeeRow
    BY <1>2 DEF StaffTyped, StaffTypeOK, LiveStaff, Hired
  <2>2. ASSUME NEW birth \in BOOLEAN \cup {Null},
               NEW isActive \in BOOLEAN \cup {Null},
               UpdateEmployee(r, e, birth, isActive)
        PROVE  StaffTyped'
    <3> PICK b : b = Given(birth, employee[e].birth)
      OBVIOUS
    <3> PICK i : i = Given(isActive, employee[e].isActive)
      OBVIOUS
    <3> DEFINE row == [employee[e] EXCEPT !.birth = b, !.isActive = i]
    <3>1. b \in BOOLEAN /\ i \in BOOLEAN
      <4>1. employee[e].birth \in BOOLEAN /\ employee[e].isActive \in BOOLEAN
        BY <2>1, Zenon DEF EmployeeRow
      <4> QED
        BY <4>1, Zenon DEF Given
    <3>2. row \in EmployeeRow
      BY <2>1, <3>1 DEF EmployeeRow
    <3>3. /\ employee' = [employee EXCEPT ![e] = row]
          /\ UNCHANGED <<token, req>>
      BY <2>1, <2>2 DEF UpdateEmployee, EmployeeRow, StaffTyped, StaffTypeOK
    <3> HIDE DEF row
    <3> QED
      BY <3>2, <3>3, AccountEdited
  <2>3. CASE DeleteEmployee(r, e)
    <3> DEFINE row == [employee[e] EXCEPT !.live = FALSE]
    <3>1. row \in EmployeeRow
      BY <2>1 DEF EmployeeRow
    <3>2. /\ employee' = [employee EXCEPT ![e] = row]
          /\ UNCHANGED <<token, req>>
      BY <2>3 DEF DeleteEmployee
    <3> HIDE DEF row
    <3> QED
      BY <3>1, <3>2, AccountEdited
  <2> QED
    BY <1>1, <2>2, <2>3
<1> QED
  BY <1>1, <1>2 DEF UpdateEmployee, DeleteEmployee

LEMMA StaffSignsOn ==
  ASSUME StaffTyped, NEW r \in Requests, NEW e \in Employees,
         Login(r, e) \/ ChangePassword(r, e)
  PROVE  StaffTyped'
<1>1. UNCHANGED accounts /\ e \in Hired
  BY DEF Login, ChangePassword, LiveStaff
<1>2. ASSUME NEW c \in StaffRequest, LooksUp(c), Continue(r, c)
      PROVE  StaffTyped'
  BY <1>1, <1>2, StaffGoesOn DEF StaffTyped, StaffTypeOK, accounts, Hired
<1>3. CASE Login(r, e)
  <2> PICK must : must = employee[e].mustChange
    OBVIOUS
  <2>1. must \in BOOLEAN
    BY <1>1, Zenon DEF StaffTyped, StaffTypeOK, EmployeeRow, Hired
  <2> DEFINE c == [op |-> "login", id |-> e, mustChange |-> must]
  <2>2. c \in StaffRequest /\ LooksUp(c)
    BY <1>1, <2>1 DEF StaffRequest, LooksUp
  <2>3. Continue(r, c)
    BY <1>3 DEF Login
  <2> QED
    BY <1>2, <2>2, <2>3
<1>4. CASE ChangePassword(r, e)
  <2> DEFINE c == [op |-> "change", id |-> e]
  <2>1. c \in StaffRequest /\ LooksUp(c)
    BY <1>1 DEF StaffRequest, LooksUp
  <2>2. Continue(r, c)
    BY <1>4 DEF ChangePassword
  <2> QED
    BY <1>2, <2>1, <2>2
<1> QED
  BY <1>3, <1>4

LEMMA StaffFinishes ==
  ASSUME StaffTyped, NEW r \in Requests,
         \/ IssueToken(r) \/ WritePassword(r)
         \/ BackfillDone(r) \/ StaffAbandon(r)
  PROVE  StaffTyped'
<1>1. CASE IssueToken(r)
  <2>1. req[r].id \in Employees
    BY <1>1, StaffFields DEF IssueToken, StaffTyped
  <2>2. token' \in [Employees -> {Null, "setup", "full"}]
    BY <1>1, <2>1 DEF IssueToken, StaffTyped, StaffTypeOK
  <2> QED
    BY <1>1, <2>2, StaffGoesOn, IdleLooksUp
       DEF IssueToken, StaffTyped, StaffTypeOK, Reply, Hired
<1>2. CASE WritePassword(r)
  <2> PICK e \in Employees : e = req[r].id
    BY <1>2, StaffFields DEF WritePassword, StaffTyped
  <2>1. employee[e] \in EmployeeRow
    BY <1>2 DEF WritePassword, StaffTyped, StaffTypeOK, LooksUp, Hired
  <2> DEFINE row == [employee[e] EXCEPT !.password = "chosen",
                                        !.mustChange = FALSE]
  <2>2. row \in EmployeeRow
    BY <2>1 DEF EmployeeRow, Passwords
  <2>3. /\ employee' = [employee EXCEPT ![e] = row]
        /\ UNCHANGED token /\ Reply(r)
    BY <1>2, <2>1 DEF WritePassword, EmployeeRow, StaffTyped, StaffTypeOK
  <2> HIDE DEF row
  <2> QED
    BY <2>2, <2>3, AccountEdited
<1>3. CASE BackfillDone(r) \/ StaffAbandon(r)
  <2>1. Reply(r) /\ UNCHANGED accounts
    BY <1>3 DEF BackfillDone, StaffAbandon, Abandon
  <2> QED
    BY <2>1, StaffGoesOn, IdleLooksUp
       DEF StaffTyped, StaffTypeOK, Reply, Hired, accounts
<1> QED
  BY <1>1, <1>2, <1>3

LEMMA StaffBackfills ==
  ASSUME StaffTyped, NEW r \in Requests,
         \/ BackfillPasswords(r)
         \/ \E e \in Employees : BackfillOne(r, e) \/ BackfillSkips(r, e)
  PROVE  StaffTyped'
<1>1. ASSUME NEW todo \in SUBSET Hired, NEW c,
             c = [op |-> "backfill", todo |-> todo], Continue(r, c),
             employee' \in [Employees -> EmployeeRow \cup {Null}],
             Hired \subseteq Hired', UNCHANGED token
      PROVE  StaffTyped'
  <2>1. c \in StaffRequest /\ LooksUp(c)
    BY <1>1 DEF StaffRequest, LooksUp, Hired
  <2> QED
    BY <1>1, <2>1, StaffGoesOn DEF StaffTyped, StaffTypeOK
<1>2. CASE BackfillPasswords(r)
  <2> PICK todo : todo = {e \in LiveStaff : employee[e].password = Null}
    OBVIOUS
  <2> PICK c : c = [op |-> "backfill", todo |-> todo]
    OBVIOUS
  <2>1. Continue(r, c) /\ UNCHANGED accounts /\ todo \in SUBSET Hired
    BY <1>2 DEF BackfillPasswords, LiveStaff
  <2> QED
    BY <1>1, <2>1 DEF accounts, Hired, StaffTyped, StaffTypeOK
<1>3. ASSUME NEW e \in Employees, BackfillOne(r, e) \/ BackfillSkips(r, e)
      PROVE  StaffTyped'
  <2> PICK todo : todo = req[r].todo \ {e}
    OBVIOUS
  <2> PICK c : c = [op |-> "backfill", todo |-> todo]
    OBVIOUS
  <2>1. /\ Continue(r, c) /\ todo \in SUBSET Hired /\ e \in Hired
        /\ UNCHANGED token
    BY <1>3, StaffFields
       DEF BackfillOne, BackfillSkips, StaffTyped, LooksUp, accounts
  <2>2. /\ employee' \in [Employees -> EmployeeRow \cup {Null}]
        /\ Hired \subseteq Hired'
    <3>1. CASE BackfillOne(r, e)
      <4>1. employee[e] \in EmployeeRow
        BY <2>1 DEF StaffTyped, StaffTypeOK, Hired
      <4> DEFINE row == [employee[e] EXCEPT !.password = "default",
                                            !.mustChange = TRUE]
      <4>2. row \in EmployeeRow
        BY <4>1 DEF EmployeeRow, Passwords
      <4>3. employee' = [employee EXCEPT ![e] = row]
        BY <3>1, <4>1 DEF BackfillOne, EmployeeRow, StaffTyped, StaffTypeOK
      <4> HIDE DEF row
      <4> QED
        BY <4>2, <4>3, AccountWritten DEF StaffTyped
    <3>2. CASE BackfillSkips(r, e)
      BY <3>2 DEF BackfillSkips, accounts, Hired, StaffTyped, StaffTypeOK
    <3> QED
      BY <1>3, <3>1, <3>2
  <2> QED
    BY <1>1, <2>1, <2>2
<1> QED
  BY <1>2, <1>3

LEMMA StaffTypedStep ==
  ASSUME StaffTyped, StaffNext
  PROVE  StaffTyped'
BY StaffEdits, StaffSignsOn, StaffFinishes, StaffBackfills DEF StaffNext

\* Every row, token and handler of the accounts stays in its type.
THEOREM StaffTypeCorrect == StaffSpec => []StaffTypeOK
<1>1. StaffTyped /\ UNCHANGED staffVars => StaffTyped'
  BY DEF StaffTyped, StaffTypeOK, LooksUp, Hired, staffVars, accounts
<1>2. StaffTyped /\ [StaffNext]_staffVars => StaffTyped'
  BY <1>1, StaffTypedStep
<1>3. StaffTyped => StaffTypeOK
  BY DEF StaffTyped
<1> QED
  BY <1>2, <1>3, StaffTypedInit, PTL DEF StaffSpec
=============================================================================
