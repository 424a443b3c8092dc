----------------------------- MODULE Onboarding -----------------------------
(***************************************************************************)
(* How one school comes into the system: the gateway registers it with     *)
(* tenant-service (apps/tenant-service/src/app.service.ts), which          *)
(* publishes tenant.TenantCreated; iam-service consumes the event, creates *)
(* the school's administrator (apps/iam-service/src/app.service.ts) and    *)
(* lets the administrator log in once a platform admin has activated the   *)
(* school (apps/api-gateway/src/app.service.ts).                           *)
(*                                                                         *)
(* The three services share no transaction: each action is the code        *)
(* between two awaits of one of them.  Tenants touch disjoint rows, so one *)
(* tenant is enough.  RabbitMQ is external: a durable queue that keeps a   *)
(* persistent message until it is acked or nacked and delivers it again    *)
(* when the consumer dies first.                                           *)
(*                                                                         *)
(* Abstracted: profile fields, audit events, the platform's own users, and *)
(* of a token's contents all but the tenant it is issued for.              *)
(***************************************************************************)
EXTENDS Naturals

CONSTANTS
  Permissions,  \* the codes the SCHOOL_ADMIN role is given
  Activations,  \* activateSchool calls that may be in flight at once
  Logins,       \* issueAccessToken calls that may be in flight at once
  MaxTokens,    \* bound on the tokens issued for the school, and for the platform
  MaxCrashes    \* bound on the crashes of iam-service

ASSUME TokensAssumption == MaxTokens \in Nat
ASSUME CrashesAssumption == MaxCrashes \in Nat

VARIABLES
  tenant,       \* tenant-service: the Tenant row
  registering,  \* createPlatformTenant has the row and not yet published
  delivery,     \* iam-service.queue: the TenantCreated message
  bound,        \* the queue was declared and bound by a first start
  iam,          \* the iam-service process
  catalogue,    \* Permission rows, seeded by every start of the process
  role,         \* the tenant's SCHOOL_ADMIN Role row exists
  contact,      \* User.status of the primary contact
  userRoles,    \* the roles of the contact: UserRole rows
  granted,      \* RolePermission rows of the tenant's role
  processed,    \* the ProcessedEvent row of the event exists
  consumer,     \* where handleTenantCreatedEvent is
  activation,   \* where each activateSchool call is
  login,        \* where each issueAccessToken call is
  approved,     \* an activateSchool call has answered with credentials
  tokens,       \* number of tokens issued to the contact, by their tenantId
  crashes

tenantVars == <<tenant, registering>>
brokerVars == <<delivery, bound>>
users == <<role, contact, userRoles, granted, processed>>
process == <<iam, catalogue, crashes>>
calls == <<activation, login, approved, tokens>>
vars == <<tenantVars, brokerVars, users, process, consumer, calls>>

TenantStatuses == {"none", "TRIAL", "ACTIVE"}
SchoolStatuses == {"PENDING", "ACTIVE", "SUSPENDED"}
UserStatuses == {"absent", "PENDING_RESET", "ACTIVE"}

\* The tenant's own SCHOOL_ADMIN; a role of the platform for people of schools;
\* and the role that makes its holder an admin of the platform.
Roles == {"tenant", "platform", "PLATFORM_ADMIN"}

\* The tenantId of a token.
Scopes == {"school", "platform"}

Handling == {"check", "role", "user", "insertUser", "userRole",
             "permissions", "record", "audit"}

At(place) == [at |-> place, todo |-> {}]

ConsumerState == [at : {"off", "disabled", "idle"} \cup Handling,
                  todo : SUBSET Permissions]

Init ==
  /\ tenant = [status |-> "none", schoolStatus |-> "PENDING"]
  /\ registering = FALSE
  /\ delivery = "none"
  /\ bound = FALSE
  /\ iam = "down"
  /\ catalogue = {}
  /\ role = FALSE
  /\ contact = "absent"
  /\ userRoles = {}
  /\ granted = {}
  /\ processed = FALSE
  /\ consumer = At("off")
  /\ activation = [a \in Activations |-> "idle"]
  /\ login = [l \in Logins |-> "idle"]
  /\ approved = FALSE
  /\ tokens = [scope \in Scopes |-> 0]
  /\ crashes = 0

-----------------------------------------------------------------------------
(***************************************************************************)
(* tenant-service                                                          *)
(***************************************************************************)
\* createPlatformTenant; tenantCode is unique, so a second call is a 409.
CreatePlatformTenant ==
  /\ tenant.status = "none"
  /\ tenant' = [status |-> "TRIAL", schoolStatus |-> "PENDING"]
  /\ registering' = TRUE
  /\ UNCHANGED <<brokerVars, users, process, consumer, calls>>

\* The event reaches the queue if there is a queue, or it is lost: the
\* channel is null, the confirm is rejected or the service dies first.
PublishTenantCreated ==
  /\ registering
  /\ registering' = FALSE
  /\ \/ bound /\ delivery' = "ready"
     \/ UNCHANGED delivery
  /\ UNCHANGED <<tenant, bound, users, process, consumer, calls>>

\* Mutant: the edited status goes to the wrong column as well.
UpdateBothStatuses(status) ==
  /\ tenant.status # "none"
  /\ tenant' = [status |-> status, schoolStatus |-> status]
  /\ UNCHANGED <<registering, brokerVars, users, process, consumer, calls>>

\* updateTenant: a platform admin edits any field, schoolStatus included.
UpdateTenant(status) ==
  /\ tenant.status # "none"
  /\ tenant' = [tenant EXCEPT !.schoolStatus = status]
  /\ UNCHANGED <<registering, brokerVars, users, process, consumer, calls>>

-----------------------------------------------------------------------------
(***************************************************************************)
(* The iam-service process.  Nest runs the onModuleInit hooks of AppService*)
(* (the catalogue) and of TenantCreatedConsumer side by side, and listens  *)
(* for HTTP requests when both are through.                                *)
(***************************************************************************)
StartIam ==
  /\ iam = "down"
  /\ iam' = "up"
  /\ UNCHANGED <<tenantVars, brokerVars, users, catalogue, crashes, consumer,
                 calls>>

\* ensurePermissionModel, one INSERT ... ON CONFLICT DO NOTHING.
SeedPermission(p) ==
  /\ iam = "up"
  /\ p \notin catalogue
  /\ catalogue' = catalogue \cup {p}
  /\ UNCHANGED <<tenantVars, brokerVars, users, iam, crashes, consumer, calls>>

\* TenantCreatedConsumer.onModuleInit; without a broker it stays disabled
\* until the process is started again.
StartConsumer ==
  /\ iam = "up"
  /\ consumer.at = "off"
  /\ consumer' = At("idle")
  /\ bound' = TRUE
  /\ UNCHANGED <<tenantVars, delivery, users, process, calls>>

DisableConsumer ==
  /\ iam = "up"
  /\ consumer.at = "off"
  /\ consumer' = At("disabled")
  /\ UNCHANGED <<tenantVars, brokerVars, users, process, calls>>

Listening == /\ iam = "up"
             /\ catalogue = Permissions
             /\ consumer.at # "off"

\* The process dies: the broker takes the unacked message back, and the
\* calls the process was serving fail.
CrashIam ==
  /\ iam = "up"
  /\ crashes < MaxCrashes
  /\ crashes' = crashes + 1
  /\ iam' = "down"
  /\ consumer' = At("off")
  /\ delivery' = IF delivery = "unacked" THEN "ready" ELSE delivery
  /\ login' = [l \in Logins |-> "idle"]
  /\ UNCHANGED <<tenantVars, bound, users, catalogue, activation, approved,
                 tokens>>

-----------------------------------------------------------------------------
(***************************************************************************)
(* processMessage and handleTenantCreatedEvent                             *)
(***************************************************************************)
Goto(place) == consumer' = At(place)

Deliver ==
  /\ consumer.at = "idle"
  /\ delivery = "ready"
  /\ delivery' = "unacked"
  /\ Goto("check")
  /\ UNCHANGED <<tenantVars, bound, users, process, calls>>

Ack ==
  /\ delivery' = "acked"
  /\ Goto("idle")
  /\ UNCHANGED <<tenantVars, bound, users, process, calls>>

CheckProcessed ==
  /\ consumer.at = "check"
  /\ ~processed
  /\ Goto("role")
  /\ UNCHANGED <<tenantVars, brokerVars, users, process, calls>>

\* Mutant: the check is made on the user, which a first attempt may have
\* left behind.
SkipProcessedByUser ==
  /\ consumer.at = "check"
  /\ contact # "absent"
  /\ Ack

SkipProcessed ==
  /\ consumer.at = "check"
  /\ processed
  /\ Ack

SeedRole ==
  /\ consumer.at = "role"
  /\ role' = TRUE
  /\ Goto("user")
  /\ UNCHANGED <<tenantVars, brokerVars, contact, userRoles, granted,
                 processed, process, calls>>

\* Mutant: the user is written on every delivery, found or not.
FindContactAlways ==
  /\ consumer.at = "user"
  /\ contact' = "PENDING_RESET"
  /\ Goto("userRole")
  /\ UNCHANGED <<tenantVars, brokerVars, role, userRoles, granted, processed,
                 process, calls>>

FindContact ==
  /\ consumer.at = "user"
  /\ Goto(IF contact = "absent" THEN "insertUser" ELSE "userRole")
  /\ UNCHANGED <<tenantVars, brokerVars, users, process, calls>>

\* (tenantId, email) is unique: a user created since the look-up rejects it.
InsertContact ==
  /\ consumer.at = "insertUser"
  /\ contact = "absent"
  /\ contact' = "PENDING_RESET"
  /\ Goto("userRole")
  /\ UNCHANGED <<tenantVars, brokerVars, role, userRoles, granted, processed,
                 process, calls>>

AssignRoleToContact ==
  /\ consumer.at = "userRole"
  /\ userRoles' = userRoles \cup {"tenant"}
  /\ consumer' = [at |-> "permissions", todo |-> Permissions]
  /\ UNCHANGED <<tenantVars, brokerVars, role, contact, granted, processed,
                 process, calls>>

\* assignRolePermissions skips a code that is not in the catalogue.
GrantPermission(p) ==
  /\ consumer.at = "permissions"
  /\ p \in consumer.todo
  /\ granted' = granted \cup ({p} \cap catalogue)
  /\ consumer' = [consumer EXCEPT !.todo = @ \ {p}]
  /\ UNCHANGED <<tenantVars, brokerVars, role, contact, userRoles, processed,
                 process, calls>>

PermissionsDone ==
  /\ consumer.at = "permissions"
  /\ consumer.todo = {}
  /\ Goto("record")
  /\ UNCHANGED <<tenantVars, brokerVars, users, process, calls>>

RecordProcessed ==
  /\ consumer.at = "record"
  /\ processed' = TRUE
  /\ Goto("audit")
  /\ UNCHANGED <<tenantVars, brokerVars, role, contact, userRoles, granted,
                 process, calls>>

AuditAndAck ==
  /\ consumer.at = "audit"
  /\ Ack

\* Mutant: the rejection is caught and the message forgotten.
ForgetMessage ==
  /\ consumer.at \in Handling
  /\ Goto("idle")
  /\ UNCHANGED <<tenantVars, brokerVars, users, process, calls>>

\* Any await may reject: nack without requeue, and the queue has no
\* dead-letter exchange.
NackAndDrop ==
  /\ consumer.at \in Handling
  /\ delivery' = "dropped"
  /\ Goto("idle")
  /\ UNCHANGED <<tenantVars, bound, users, process, calls>>

HandleMessage ==
  \/ CheckProcessed \/ SkipProcessed \/ SeedRole \/ FindContact
  \/ InsertContact \/ AssignRoleToContact
  \/ \E p \in Permissions : GrantPermission(p)
  \/ PermissionsDone \/ RecordProcessed \/ AuditAndAck \/ NackAndDrop

-----------------------------------------------------------------------------
(***************************************************************************)
(* The calls of people: a platform admin activating the school or managing *)
(* its users, and the contact logging in.                                  *)
(***************************************************************************)
ActivateTenant(a) ==
  /\ activation[a] = "idle"
  /\ tenant.status # "none"
  /\ tenant' = [status |-> "ACTIVE", schoolStatus |-> "ACTIVE"]
  /\ activation' = [activation EXCEPT ![a] = "users"]
  /\ UNCHANGED <<registering, brokerVars, users, process, consumer, login,
                 approved, tokens>>

\* activateTenantOnboarding, and the gateway's answer.
ActivateUsers(a) ==
  /\ activation[a] = "users"
  /\ Listening
  /\ contact' = IF contact = "PENDING_RESET" THEN "ACTIVE" ELSE contact
  /\ approved' = TRUE
  /\ activation' = [activation EXCEPT ![a] = "idle"]
  /\ UNCHANGED <<tenantVars, brokerVars, role, userRoles, granted, processed,
                 process, consumer, login, tokens>>

\* The call to iam-service fails; the tenant stays activated.
ActivationFails(a) ==
  /\ activation[a] = "users"
  /\ activation' = [activation EXCEPT ![a] = "idle"]
  /\ UNCHANGED <<tenantVars, brokerVars, users, process, consumer, login,
                 approved, tokens>>

\* createUser with the contact's address, as an admin of the tenant or as a
\* platform admin sending x-tenant-id: ON CONFLICT only renames the user.
CreateUser ==
  /\ Listening
  /\ contact' = IF contact = "absent" THEN "ACTIVE" ELSE contact
  /\ UNCHANGED <<tenantVars, brokerVars, role, userRoles, granted, processed,
                 process, consumer, calls>>

\* assignRole with any roleCode that finds a role of the tenant or of the
\* platform; of two with one code LIMIT 1 picks either.
AssignRole(owned) ==
  /\ Listening
  /\ contact # "absent"
  /\ owned = "tenant" => role
  /\ userRoles' = userRoles \cup {owned}
  /\ UNCHANGED <<tenantVars, brokerVars, role, contact, granted, processed,
                 process, consumer, calls>>

SetLogin(l, place) == login' = [login EXCEPT ![l] = place]

LoginReadsUser(l) ==
  /\ Listening
  /\ login[l] = "idle"
  /\ contact = "ACTIVE"
  /\ SetLogin(l, "roles")
  /\ UNCHANGED <<tenantVars, brokerVars, users, process, consumer, activation,
                 approved, tokens>>

\* A PLATFORM_ADMIN gets a token for the platform, whatever the school's status.
LoginReadsRoles(l) ==
  /\ login[l] = "roles"
  /\ SetLogin(l, CASE userRoles = {} -> "idle"
                   [] "PLATFORM_ADMIN" \in userRoles -> "platform"
                   [] OTHER -> "status")
  /\ UNCHANGED <<tenantVars, brokerVars, users, process, consumer, activation,
                 approved, tokens>>

\* Mutant: an answer other than ACTIVE is let through.
LoginReadsStatusOpen(l) ==
  /\ login[l] = "status"
  /\ SetLogin(l, "school")
  /\ UNCHANGED <<tenantVars, brokerVars, users, process, consumer, activation,
                 approved, tokens>>

\* GET /tenants/status of tenant-service; only ACTIVE gets a token.
LoginReadsStatus(l) ==
  /\ login[l] = "status"
  /\ SetLogin(l, IF tenant.status = "ACTIVE" THEN "school" ELSE "idle")
  /\ UNCHANGED <<tenantVars, brokerVars, users, process, consumer, activation,
                 approved, tokens>>

IssueToken(l) ==
  /\ login[l] \in Scopes
  /\ tokens[login[l]] < MaxTokens
  /\ tokens' = [tokens EXCEPT ![login[l]] = @ + 1]
  /\ SetLogin(l, "idle")
  /\ UNCHANGED <<tenantVars, brokerVars, users, process, consumer, activation,
                 approved>>

-----------------------------------------------------------------------------
TenantService ==
  \/ CreatePlatformTenant
  \/ PublishTenantCreated
  \/ \E status \in SchoolStatuses : UpdateTenant(status)

IamProcess ==
  \/ StartIam \/ StartConsumer \/ DisableConsumer \/ CrashIam
  \/ \E p \in Permissions : SeedPermission(p)

Calls ==
  \/ \E a \in Activations :
       ActivateTenant(a) \/ ActivateUsers(a) \/ ActivationFails(a)
  \/ CreateUser
  \/ \E owned \in Roles : AssignRole(owned)
  \/ \E l \in Logins : \/ LoginReadsUser(l) \/ LoginReadsRoles(l)
                       \/ LoginReadsStatus(l) \/ IssueToken(l)

Next == TenantService \/ IamProcess \/ Deliver \/ HandleMessage \/ Calls

Spec == Init /\ [][Next]_vars

(***************************************************************************)
(* The broker delivers a ready message to an idle consumer, the handler's  *)
(* awaits are all settled one way or the other, and a process that died is *)
(* started again by its supervisor.                                        *)
(***************************************************************************)
FairSpec ==
  /\ Spec
  /\ WF_vars(Deliver)
  /\ WF_vars(HandleMessage)
  /\ WF_vars(StartIam)
  /\ WF_vars(StartConsumer \/ DisableConsumer)

-----------------------------------------------------------------------------
\* Every variable keeps its type.
FlagsOK == /\ registering \in BOOLEAN
           /\ bound \in BOOLEAN
           /\ role \in BOOLEAN
           /\ processed \in BOOLEAN
           /\ approved \in BOOLEAN

RowsOK ==
  /\ tenant \in [status : TenantStatuses, schoolStatus : SchoolStatuses]
  /\ delivery \in {"none", "ready", "unacked", "acked", "dropped"}
  /\ iam \in {"down", "up"}
  /\ catalogue \subseteq Permissions
  /\ contact \in UserStatuses
  /\ userRoles \subseteq Roles
  /\ granted \subseteq Permissions
  /\ consumer \in ConsumerState
  /\ activation \in [Activations -> {"idle", "users"}]
  /\ login \in [Logins -> {"idle", "roles", "status"} \cup Scopes]
  /\ tokens \in [Scopes -> 0..MaxTokens]
  /\ crashes \in 0..MaxCrashes

TypeOK == FlagsOK /\ RowsOK

\* The school's administrator exists with the tenant's own admin role.
Provisioned == role /\ contact # "absent" /\ "tenant" \in userRoles

\* An acked TenantCreated event has been handled from end to end, whatever
\* crashes, redeliveries, user creations and activations came between.
AckedIsProvisioned == delivery = "acked" => processed /\ Provisioned

\* A token belongs to an active user who has a role, though the facts are read
\* from two services at three moments.  It is for the school only when the
\* school was activated, and for the platform only when the user was made
\* one of its admins.
TokensAreFounded ==
  /\ \A scope \in Scopes :
       tokens[scope] > 0 => contact = "ACTIVE" /\ userRoles # {}
  /\ tokens["school"] > 0 => tenant.status = "ACTIVE"
  /\ tokens["platform"] > 0 => "PLATFORM_ADMIN" \in userRoles

\* No redelivery, activation or user call takes an administrator back to
\* PENDING_RESET, withdraws a role or forgets that the event was handled.
NothingIsUndone ==
  [][/\ contact = "ACTIVE" => contact' = "ACTIVE"
     /\ userRoles \subseteq userRoles'
     /\ granted \subseteq granted'
     /\ processed => processed']_vars

\* A delivered event is acked or dropped, unless iam-service has come up
\* without its broker and runs with the consumer disabled.
DeliverySettles ==
  delivery \in {"ready", "unacked"}
    ~> delivery \in {"acked", "dropped"} \/ consumer.at = "disabled"

\* Claimed by the comment in activateTenantOnboarding ("Activate all
\* PENDING_RESET users for this tenant (e.g. school admin created at
\* onboarding)"): once the school was activated and its event handled, the
\* administrator is active.
ActivatedAdminsAreActive ==
  approved /\ delivery = "acked" => contact = "ACTIVE"

\* Claimed by the comment in handleTenantCreatedEvent ("wire tenant-scoped
\* SCHOOL_ADMIN role permissions to mirror platform seed"): a handled event
\* leaves the role with all its permissions.
AckedIsGranted == delivery = "acked" => granted = Permissions
=============================================================================
