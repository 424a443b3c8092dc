-------------------------- MODULE OnboardingProofs --------------------------
(***************************************************************************)
(* Safety of the onboarding of a school for any number of permissions,     *)
(* activations and logins.                                                 *)
(***************************************************************************)
EXTENDS Onboarding, TLAPS

(***************************************************************************)
(* What the event handler has established by each of its awaits.           *)
(***************************************************************************)
HandlerInv ==
  /\ consumer.at \in {"user", "insertUser", "userRole", "permissions",
                      "record", "audit"} => role
  /\ consumer.at \in {"userRole", "permissions", "record", "audit"}
       => contact # "absent"
  /\ consumer.at \in {"permissions", "record", "audit"}
       => "tenant" \in userRoles
  /\ consumer.at = "audit" => processed
  /\ processed => Provisioned
  /\ delivery = "acked" => processed

(***************************************************************************)
(* What a login has seen by each of its awaits, and which stays true.      *)
(***************************************************************************)
LoginInv ==
  \A l \in Logins :
    /\ login[l] # "idle" => contact = "ACTIVE"
    /\ login[l] \in {"status"} \cup Scopes => userRoles # {}
    /\ login[l] = "school" => tenant.status = "ACTIVE"
    /\ login[l] = "platform" => "PLATFORM_ADMIN" \in userRoles

-----------------------------------------------------------------------------
(***************************************************************************)
(* Every step of the services preserves the types.                         *)
(***************************************************************************)
LEMMA TypeInit == Init => TypeOK
<1>1. Init => FlagsOK
  BY Zenon DEF Init, FlagsOK
<1>2. Init => RowsOK
  BY TokensAssumption, CrashesAssumption
     DEF Init, RowsOK, At, ConsumerState, TenantStatuses, SchoolStatuses,
         UserStatuses, Roles, Scopes
<1> QED
  BY <1>1, <1>2 DEF TypeOK

LEMMA FlagsStep == FlagsOK /\ [Next]_vars => FlagsOK'
<1> SUFFICES ASSUME FlagsOK, [Next]_vars PROVE FlagsOK'
  OBVIOUS
<1> USE DEF FlagsOK
<1>1. CASE TenantService
  BY <1>1, Zenon DEF TenantService, CreatePlatformTenant,
     PublishTenantCreated, UpdateTenant, brokerVars, users, calls
<1>2. CASE IamProcess
  BY <1>2, Zenon DEF IamProcess, StartIam, StartConsumer, DisableConsumer,
     CrashIam, SeedPermission, tenantVars, brokerVars, users, calls
<1>3. CASE Deliver
  BY <1>3, Zenon DEF Deliver, tenantVars, users, calls
<1>4. CASE HandleMessage
  BY <1>4, Zenon DEF HandleMessage, CheckProcessed, SkipProcessed, SeedRole,
     FindContact, InsertContact, AssignRoleToContact, GrantPermission,
     PermissionsDone, RecordProcessed, AuditAndAck, NackAndDrop, Ack,
     tenantVars, brokerVars, users, calls
<1>5. CASE Calls
  BY <1>5, Zenon DEF Calls, ActivateTenant, ActivateUsers, ActivationFails,
     CreateUser, AssignRole, LoginReadsUser, LoginReadsRoles,
     LoginReadsStatus, IssueToken, tenantVars, brokerVars, users, calls
<1>6. CASE UNCHANGED vars
  BY <1>6, Zenon DEF vars, tenantVars, brokerVars, users, calls
<1> QED
  BY <1>1, <1>2, <1>3, <1>4, <1>5, <1>6 DEF Next

LEMMA AtState ==
  ASSUME NEW place \in {"off", "disabled", "idle"} \cup Handling
  PROVE  At(place) \in ConsumerState
  BY DEF At, ConsumerState

LEMMA RowsStep == RowsOK /\ [Next]_vars => RowsOK'
<1> SUFFICES ASSUME RowsOK, [Next]_vars PROVE RowsOK'
  OBVIOUS
<1> USE TokensAssumption, CrashesAssumption
    DEF RowsOK, TenantStatuses, SchoolStatuses, UserStatuses, Roles, Scopes
<1>a. \A place \in {"off", "disabled", "idle"} \cup Handling :
        At(place) \in ConsumerState
  BY AtState
<1>h. Handling = {"check", "role", "user", "insertUser", "userRole",
                  "permissions", "record", "audit"}
  BY DEF Handling
<1>1. CASE TenantService
  BY <1>1 DEF TenantService, CreatePlatformTenant, PublishTenantCreated,
     UpdateTenant, brokerVars, users, process, calls
<1>2. CASE IamProcess
  <2> USE DEF tenantVars, brokerVars, users, calls, process
  <2>1. CASE StartIam \/ \E p \in Permissions : SeedPermission(p)
    BY <2>1 DEF StartIam, SeedPermission
  <2>2. CASE StartConsumer \/ DisableConsumer
    BY <2>2, <1>a DEF StartConsumer, DisableConsumer
  <2>3. CASE CrashIam
    BY <2>3, <1>a DEF CrashIam
  <2> QED
    BY <1>2, <2>1, <2>2, <2>3 DEF IamProcess
<1>3. CASE Deliver
  BY <1>3, <1>a, <1>h DEF Deliver, Goto, tenantVars, users, process, calls
<1>4. CASE HandleMessage
  <2> USE <1>a, <1>h DEF Goto, Ack, tenantVars, brokerVars, users, process,
          calls
  <2>1. CASE CheckProcessed
    BY <2>1 DEF CheckProcessed
  <2>2. CASE SkipProcessed
    BY <2>2 DEF SkipProcessed
  <2>3. CASE SeedRole
    BY <2>3 DEF SeedRole
  <2>4. CASE FindContact
    BY <2>4 DEF FindContact
  <2>5. CASE InsertContact
    BY <2>5 DEF InsertContact
  <2>6. CASE AssignRoleToContact
    BY <2>6 DEF AssignRoleToContact, ConsumerState
  <2>7. ASSUME NEW p \in Permissions, GrantPermission(p)
        PROVE  RowsOK'
    BY <2>7 DEF GrantPermission, ConsumerState
  <2>8. CASE PermissionsDone
    BY <2>8 DEF PermissionsDone
  <2>9. CASE RecordProcessed
    BY <2>9 DEF RecordProcessed
  <2>10. CASE AuditAndAck
    BY <2>10 DEF AuditAndAck
  <2>11. CASE NackAndDrop
    BY <2>11 DEF NackAndDrop
  <2> QED
    BY <1>4, <2>1, <2>2, <2>3, <2>4, <2>5, <2>6, <2>7, <2>8, <2>9, <2>10,
       <2>11 DEF HandleMessage
<1>5. CASE Calls
  <2> USE DEF SetLogin, tenantVars, brokerVars, users, process, calls
  <2>1. ASSUME NEW a \in Activations, ActivateTenant(a)
        PROVE  RowsOK'
    BY <2>1 DEF ActivateTenant
  <2>2. ASSUME NEW a \in Activations, ActivateUsers(a) \/ ActivationFails(a)
        PROVE  RowsOK'
    BY <2>2 DEF ActivateUsers, ActivationFails
  <2>3. CASE CreateUser
    BY <2>3 DEF CreateUser
  <2>4. ASSUME NEW owned \in Roles, AssignRole(owned)
        PROVE  RowsOK'
    BY <2>4 DEF AssignRole
  <2>5. ASSUME NEW l \in Logins, LoginReadsUser(l) \/ LoginReadsRoles(l)
        PROVE  RowsOK'
    BY <2>5 DEF LoginReadsUser, LoginReadsRoles
  <2>6. ASSUME NEW l \in Logins, LoginReadsStatus(l)
        PROVE  RowsOK'
    BY <2>6 DEF LoginReadsStatus
  <2>7. ASSUME NEW l \in Logins, IssueToken(l)
        PROVE  RowsOK'
    BY <2>7 DEF IssueToken
  <2> QED
    BY <1>5, <2>1, <2>2, <2>3, <2>4, <2>5, <2>6, <2>7 DEF Calls
<1>6. CASE UNCHANGED vars
  BY <1>6 DEF vars, tenantVars, brokerVars, users, process, calls
<1> QED
  BY <1>1, <1>2, <1>3, <1>4, <1>5, <1>6 DEF Next

\* The type invariant holds in every reachable state.
THEOREM TypeCorrect == Spec => []TypeOK
<1>1. TypeOK /\ [Next]_vars => TypeOK'
  BY FlagsStep, RowsStep DEF TypeOK
<1> QED
  BY <1>1, TypeInit, PTL DEF Spec

-----------------------------------------------------------------------------
(***************************************************************************)
(* The handler's invariant.  Steps outside the handler only add rows or    *)
(* put the handler back to a place where nothing is claimed.               *)
(***************************************************************************)
LEMMA HandlerStep ==
  TypeOK /\ HandlerInv /\ [Next]_vars => HandlerInv'
<1> SUFFICES ASSUME TypeOK, HandlerInv, [Next]_vars PROVE HandlerInv'
  OBVIOUS
<1> USE DEF HandlerInv, Provisioned
<1>1. CASE TenantService
  BY <1>1 DEF TenantService, CreatePlatformTenant, PublishTenantCreated,
     UpdateTenant, brokerVars, users
<1>2. CASE IamProcess
  BY <1>2 DEF IamProcess, StartIam, StartConsumer, DisableConsumer, CrashIam,
     SeedPermission, brokerVars, users, At
<1>3. CASE Deliver
  BY <1>3 DEF Deliver, Goto, At, users
<1>4. CASE HandleMessage
  <2> USE DEF At, Goto, Ack, brokerVars, users
  <2>1. CASE CheckProcessed \/ SkipProcessed \/ SeedRole \/ FindContact
    BY <2>1 DEF CheckProcessed, SkipProcessed, SeedRole, FindContact
  <2>2. CASE InsertContact \/ AssignRoleToContact
    BY <2>2 DEF InsertContact, AssignRoleToContact
  <2>3. ASSUME NEW p \in Permissions, GrantPermission(p)
        PROVE  HandlerInv'
    BY <2>3 DEF GrantPermission, TypeOK, RowsOK, ConsumerState
  <2>4. CASE PermissionsDone \/ RecordProcessed \/ AuditAndAck \/ NackAndDrop
    BY <2>4 DEF PermissionsDone, RecordProcessed, AuditAndAck, NackAndDrop
  <2> QED
    BY <1>4, <2>1, <2>2, <2>3, <2>4 DEF HandleMessage
<1>5. CASE Calls
  <2> USE DEF brokerVars, users
  <2>1. ASSUME NEW a \in Activations,
               ActivateTenant(a) \/ ActivateUsers(a) \/ ActivationFails(a)
        PROVE  HandlerInv'
    BY <2>1 DEF ActivateTenant, ActivateUsers, ActivationFails
  <2>2. CASE CreateUser
    BY <2>2 DEF CreateUser
  <2>3. ASSUME NEW owned \in Roles, AssignRole(owned)
        PROVE  HandlerInv'
    BY <2>3 DEF AssignRole
  <2>4. ASSUME NEW l \in Logins,
               \/ LoginReadsUser(l) \/ LoginReadsRoles(l)
               \/ LoginReadsStatus(l) \/ IssueToken(l)
        PROVE  HandlerInv'
    BY <2>4 DEF LoginReadsUser, LoginReadsRoles, LoginReadsStatus, IssueToken
  <2> QED
    BY <1>5, <2>1, <2>2, <2>3, <2>4 DEF Calls
<1>6. CASE UNCHANGED vars
  BY <1>6 DEF vars, brokerVars, users
<1> QED
  BY <1>1, <1>2, <1>3, <1>4, <1>5, <1>6 DEF Next

\* An acked event has been handled from end to end.
THEOREM HandledWhenAcked == Spec => []AckedIsProvisioned
<1>1. Init => HandlerInv
  BY DEF Init, HandlerInv, At
<1>2. HandlerInv => AckedIsProvisioned
  BY DEF HandlerInv, AckedIsProvisioned
<1> QED
  BY <1>1, <1>2, TypeCorrect, HandlerStep, PTL DEF Spec

-----------------------------------------------------------------------------
(***************************************************************************)
(* No step of any actor withdraws what a login may have read: the user's   *)
(* status, roles and permissions, the record of the event, and the         *)
(* activation of the school once it is ACTIVE.                             *)
(***************************************************************************)
Grows ==
  /\ contact = "ACTIVE" => contact' = "ACTIVE"
  /\ userRoles \subseteq userRoles'
  /\ granted \subseteq granted'
  /\ processed => processed'
  /\ tenant.status = "ACTIVE" => tenant'.status = "ACTIVE"

LEMMA GrowsStep == TypeOK /\ [Next]_vars => Grows
<1> SUFFICES ASSUME TypeOK, [Next]_vars PROVE Grows
  OBVIOUS
<1> USE DEF Grows, TypeOK, RowsOK, TenantStatuses, SchoolStatuses
<1>1. CASE TenantService
  BY <1>1 DEF TenantService, CreatePlatformTenant, PublishTenantCreated,
     UpdateTenant, users
<1>2. CASE IamProcess
  BY <1>2 DEF IamProcess, StartIam, StartConsumer, DisableConsumer, CrashIam,
     SeedPermission, users, tenantVars
<1>3. CASE Deliver
  BY <1>3 DEF Deliver, users, tenantVars
<1>4. CASE HandleMessage
  BY <1>4 DEF HandleMessage, CheckProcessed, SkipProcessed, SeedRole,
     FindContact, InsertContact, AssignRoleToContact, GrantPermission,
     PermissionsDone, RecordProcessed, AuditAndAck, NackAndDrop, Ack, users,
     tenantVars
<1>5. CASE Calls
  BY <1>5 DEF Calls, ActivateTenant, ActivateUsers, ActivationFails,
     CreateUser, AssignRole, LoginReadsUser, LoginReadsRoles,
     LoginReadsStatus, IssueToken, users, tenantVars
<1>6. CASE UNCHANGED vars
  BY <1>6 DEF vars, users, tenantVars
<1> QED
  BY <1>1, <1>2, <1>3, <1>4, <1>5, <1>6 DEF Next

\* No step takes back an activated user, a role or the record of the event.
THEOREM NothingUndone == Spec => NothingIsUndone
<1>1. TypeOK /\ [Next]_vars
        => [/\ contact = "ACTIVE" => contact' = "ACTIVE"
            /\ userRoles \subseteq userRoles'
            /\ granted \subseteq granted'
            /\ processed => processed']_vars
  BY GrowsStep DEF Grows
<1> QED
  BY <1>1, TypeCorrect, PTL DEF Spec, NothingIsUndone

-----------------------------------------------------------------------------
(***************************************************************************)
(* A login that has not moved keeps what it has read, because the rows     *)
(* only grow; one that moves has just read it.                             *)
(***************************************************************************)
LoginFacts(l) ==
  /\ login[l] # "idle" => contact = "ACTIVE"
  /\ login[l] \in {"status"} \cup Scopes => userRoles # {}
  /\ login[l] = "school" => tenant.status = "ACTIVE"
  /\ login[l] = "platform" => "PLATFORM_ADMIN" \in userRoles

LEMMA LoginStays ==
  ASSUME NEW l \in Logins, Grows, LoginFacts(l), login'[l] = login[l]
  PROVE  LoginFacts(l)'
  BY DEF Grows, LoginFacts

LEMMA LoginStep ==
  TypeOK /\ LoginInv /\ TokensAreFounded /\ [Next]_vars
    => LoginInv' /\ TokensAreFounded'
<1> SUFFICES ASSUME TypeOK, LoginInv, TokensAreFounded, [Next]_vars
             PROVE  LoginInv' /\ TokensAreFounded'
  OBVIOUS
<1> USE TokensAssumption DEF Scopes
<1>g. Grows
  BY GrowsStep
<1>f. \A l \in Logins : LoginFacts(l)
  BY DEF LoginInv, LoginFacts
<1>u. CASE login' = login /\ tokens' = tokens
  <2>1. \A l \in Logins : LoginFacts(l)'
    BY <1>u, <1>g, <1>f, LoginStays
  <2>2. TokensAreFounded'
    BY <1>u, <1>g DEF Grows, TokensAreFounded
  <2> QED
    BY <2>1, <2>2 DEF LoginInv, LoginFacts
<1>1. CASE TenantService
  BY <1>1, <1>u DEF TenantService, CreatePlatformTenant,
     PublishTenantCreated, UpdateTenant, calls
<1>2. CASE CrashIam
  BY <1>2, <1>g DEF CrashIam, LoginInv, TokensAreFounded, Grows
<1>3. CASE IamProcess /\ ~CrashIam
  BY <1>3, <1>u DEF IamProcess, StartIam, StartConsumer, DisableConsumer,
     SeedPermission, calls
<1>4. CASE Deliver
  BY <1>4, <1>u DEF Deliver, calls
<1>5. CASE HandleMessage
  BY <1>5, <1>u DEF HandleMessage, CheckProcessed, SkipProcessed, SeedRole,
     FindContact, InsertContact, AssignRoleToContact, GrantPermission,
     PermissionsDone, RecordProcessed, AuditAndAck, NackAndDrop, Ack, calls
<1>6. ASSUME NEW a \in Activations,
             ActivateTenant(a) \/ ActivateUsers(a) \/ ActivationFails(a)
      PROVE  LoginInv' /\ TokensAreFounded'
  BY <1>6, <1>u DEF ActivateTenant, ActivateUsers, ActivationFails
<1>7. CASE CreateUser \/ \E owned \in Roles : AssignRole(owned)
  BY <1>7, <1>u DEF CreateUser, AssignRole, calls
<1>8. ASSUME NEW l \in Logins,
             \/ LoginReadsUser(l) \/ LoginReadsRoles(l)
             \/ LoginReadsStatus(l) \/ IssueToken(l)
      PROVE  LoginInv' /\ TokensAreFounded'
  <2>1. /\ contact' = contact
        /\ userRoles' = userRoles
        /\ tenant' = tenant
    BY <1>8 DEF LoginReadsUser, LoginReadsRoles, LoginReadsStatus, IssueToken,
       users, tenantVars
  <2>2. \A k \in Logins \ {l} : login'[k] = login[k]
    BY <1>8 DEF LoginReadsUser, LoginReadsRoles, LoginReadsStatus, IssueToken,
       SetLogin, TypeOK, RowsOK
  <2>3. LoginFacts(l)'
    BY <1>8, <1>f, <2>1 DEF LoginReadsUser, LoginReadsRoles,
       LoginReadsStatus, IssueToken, SetLogin, LoginFacts, TypeOK, RowsOK
  <2>4. \A k \in Logins : LoginFacts(k)'
    BY <2>2, <2>3, <1>g, <1>f, LoginStays
  <2>5. TokensAreFounded'
    <3>1. CASE IssueToken(l)
      BY <3>1, <2>1, <1>f DEF IssueToken, LoginFacts, TokensAreFounded
    <3>2. CASE ~IssueToken(l)
      BY <3>2, <2>1, <1>8 DEF LoginReadsUser, LoginReadsRoles,
         LoginReadsStatus, TokensAreFounded
    <3> QED
      BY <3>1, <3>2
  <2> QED
    BY <2>4, <2>5 DEF LoginInv, LoginFacts
<1>9. CASE UNCHANGED vars
  BY <1>9, <1>u DEF vars, calls
<1> QED
  BY <1>1, <1>2, <1>3, <1>4, <1>5, <1>6, <1>7, <1>8, <1>9 DEF Next, Calls

\* However many logins run beside activation, user administration and the event:
\* a token for the school belongs to an active user with a role of a school that
\* was activated, and one for the platform to a user made an admin of it.
THEOREM TokensFounded == Spec => []TokensAreFounded
<1>1. Init => LoginInv /\ TokensAreFounded
  BY DEF Init, LoginInv, TokensAreFounded, Scopes
<1> QED
  BY <1>1, TypeCorrect, LoginStep, PTL DEF Spec
=============================================================================
