--------------------------- MODULE ConfigService ---------------------------
(***************************************************************************)
(* config-service for one tenant (apps/config-service/src/app.service.ts): *)
(* the versions of each configuration key, the module entitlements, and    *)
(* the defaults seeded when tenant.TenantCreated is consumed.              *)
(*                                                                         *)
(* No operation runs in a transaction: each action is the code between two *)
(* SQL statements.  Requests are the HTTP handlers that may be in flight   *)
(* while the event handler runs.  RabbitMQ is external, as in Onboarding.  *)
(*                                                                         *)
(* Abstracted: a configType and configKey as one key, payloads, and the    *)
(* events the operations publish when their writes are done.               *)
(***************************************************************************)
EXTENDS Naturals

CONSTANTS
  Keys,         \* configuration keys
  DefaultKeys,  \* the keys with a default (configDefaults)
  Modules,      \* module keys with a default (moduleDefaults)
  EnabledByDefault,
  Requests,     \* handlers that may be in flight at the same time
  MaxVersion,   \* bound on the versions of a key
  MaxFailures   \* bound on crashes and rejected awaits

ASSUME DefaultsAssumption == /\ DefaultKeys \subseteq Keys
                             /\ EnabledByDefault \subseteq Modules
ASSUME BoundsAssumption == MaxVersion \in Nat \ {0} /\ MaxFailures \in Nat

VARIABLES
  config,       \* ConfigMaster: per key and version, its row
  module,       \* ModuleEntitlement: per module, its row
  processed,    \* the ProcessedEvent row of the event exists
  delivery,     \* config-service.queue: the TenantCreated message
  seeder,       \* where handleTenantCreatedEvent is
  req,          \* the handler each request slot is executing
  failures

vars == <<config, module, processed, delivery, seeder, req, failures>>

Versions == 1..MaxVersion

ModuleRow == [exists : BOOLEAN, enabled : BOOLEAN,
              enabledBy : BOOLEAN, disabledBy : BOOLEAN]

Idle == [op |-> "idle"]

UpsertReq == [op : {"deactivate"}, key : Keys, current : Versions,
              version : Versions]
               \cup [op : {"insert"}, key : Keys, version : Versions]
RollbackReq == [op : {"deactivateAll", "activate"}, key : Keys,
                version : Versions]

RequestState == {Idle} \cup UpsertReq \cup RollbackReq

\* todo: defaults not yet seeded; key: the one found missing.
SeederState ==
  [at : {"idle", "check", "record", "ack"}]
    \cup [at : {"modules"}, todo : SUBSET Modules]
    \cup [at : {"keys"}, todo : SUBSET DefaultKeys]
    \cup [at : {"insertKey"}, todo : SUBSET DefaultKeys, key : DefaultKeys]

At(place) == [at |-> place]

Init ==
  /\ config = [k \in Keys |-> [v \in Versions |-> "none"]]
  /\ module = [m \in Modules |-> [exists |-> FALSE, enabled |-> FALSE,
                                  enabledBy |-> FALSE, disabledBy |-> FALSE]]
  /\ processed = FALSE
  /\ delivery = "none"
  /\ seeder = At("idle")
  /\ req = [r \in Requests |-> Idle]
  /\ failures = 0

Continue(r, state) == req' = [req EXCEPT ![r] = state]
Reply(r) == Continue(r, Idle)

Exists(k, v) == config[k][v] # "none"
HasRows(k) == \E v \in Versions : Exists(k, v)
Active(k, v) == config[k][v] = "active"
HasActive(k) == \E v \in Versions : Active(k, v)

InsertOf(k, v) == [op |-> "insert", key |-> k, version |-> v]

SetRow(k, v, state) == config' = [config EXCEPT ![k][v] = state]

-----------------------------------------------------------------------------
(***************************************************************************)
(* upsert: deactivate the active version, insert the next.                 *)
(***************************************************************************)
UpsertOver(r, k, v) ==
  /\ req[r] = Idle
  /\ Active(k, v)                       \* LIMIT 1: any active row
  /\ v < MaxVersion
  /\ Continue(r, [op |-> "deactivate", key |-> k, current |-> v,
                  version |-> v + 1])
  /\ UNCHANGED <<config, module, processed, delivery, seeder, failures>>

\* Mutant: versions are counted from zero.
UpsertFirstZero(r, k) ==
  /\ req[r] = Idle
  /\ ~HasActive(k)
  /\ Continue(r, InsertOf(k, 0))
  /\ UNCHANGED <<config, module, processed, delivery, seeder, failures>>

\* Mutant: a missing current version counts as the first.
UpsertFirstTwo(r, k) ==
  /\ req[r] = Idle
  /\ ~HasActive(k)
  /\ Continue(r, InsertOf(k, 2))
  /\ UNCHANGED <<config, module, processed, delivery, seeder, failures>>

\* Also the road of a save that finds versions but no active one.
UpsertFirst(r, k) ==
  /\ req[r] = Idle
  /\ ~HasActive(k)
  /\ Continue(r, InsertOf(k, 1))
  /\ UNCHANGED <<config, module, processed, delivery, seeder, failures>>

\* Mutant: the current version stays active.
SkipDeactivation(r) ==
  /\ req[r].op = "deactivate"
  /\ Continue(r, InsertOf(req[r].key, req[r].version))
  /\ UNCHANGED <<config, module, processed, delivery, seeder, failures>>

DeactivateCurrent(r) ==
  /\ req[r].op = "deactivate"
  /\ SetRow(req[r].key, req[r].current, "inactive")
  /\ Continue(r, InsertOf(req[r].key, req[r].version))
  /\ UNCHANGED <<module, processed, delivery, seeder, failures>>

\* (key, version) is unique: a version that exists rejects the INSERT.
InsertVersion(r) ==
  /\ req[r].op = "insert"
  /\ IF Exists(req[r].key, req[r].version)
       THEN UNCHANGED config
       ELSE SetRow(req[r].key, req[r].version, "active")
  /\ Reply(r)
  /\ UNCHANGED <<module, processed, delivery, seeder, failures>>

-----------------------------------------------------------------------------
(***************************************************************************)
(* rollbackConfig: deactivate every version, activate the target.          *)
(***************************************************************************)
RollbackConfig(r, k, v) ==
  /\ req[r] = Idle
  /\ Exists(k, v)
  /\ Continue(r, [op |-> "deactivateAll", key |-> k, version |-> v])
  /\ UNCHANGED <<config, module, processed, delivery, seeder, failures>>

DeactivateAll(r) ==
  /\ req[r].op = "deactivateAll"
  /\ config' = [config EXCEPT ![req[r].key] =
                  [v \in Versions |-> IF @[v] = "active" THEN "inactive"
                                                         ELSE @[v]]]
  /\ Continue(r, [req[r] EXCEPT !.op = "activate"])
  /\ UNCHANGED <<module, processed, delivery, seeder, failures>>

ActivateTarget(r) ==
  /\ req[r].op = "activate"
  /\ SetRow(req[r].key, req[r].version, "active")
  /\ Reply(r)
  /\ UNCHANGED <<module, processed, delivery, seeder, failures>>

-----------------------------------------------------------------------------
(***************************************************************************)
(* toggleModule: one INSERT ... ON CONFLICT DO UPDATE.  PostgreSQL reports *)
(* the unqualified "enabledBy", "disabledBy" and their dates of its SET    *)
(* list as ambiguous and rejects the statement.  What its text describes   *)
(* is kept as the second outcome, so that the properties also cover a      *)
(* statement with qualified columns.                                       *)
(***************************************************************************)
ToggleRejected(r) ==
  /\ req[r] = Idle
  /\ UNCHANGED vars

ToggleModule(r, m, enable) ==
  /\ req[r] = Idle
  /\ module' = [module EXCEPT ![m] =
                  [exists |-> TRUE, enabled |-> enable,
                   enabledBy |-> IF enable THEN TRUE ELSE @.enabledBy,
                   disabledBy |-> IF enable THEN @.disabledBy ELSE TRUE]]
  /\ UNCHANGED <<config, processed, delivery, seeder, req, failures>>

-----------------------------------------------------------------------------
(***************************************************************************)
(* processMessage and handleTenantCreatedEvent.                            *)
(***************************************************************************)
\* Published by tenant-service (PublishTenantCreated of Onboarding).
PublishTenantCreated ==
  /\ delivery = "none"
  /\ delivery' = "ready"
  /\ UNCHANGED <<config, module, processed, seeder, req, failures>>

Deliver ==
  /\ seeder.at = "idle"
  /\ delivery = "ready"
  /\ delivery' = "unacked"
  /\ seeder' = At("check")
  /\ UNCHANGED <<config, module, processed, req, failures>>

CheckProcessed ==
  /\ seeder.at = "check"
  /\ seeder' = IF processed THEN At("ack")
                            ELSE [at |-> "modules", todo |-> Modules]
  /\ UNCHANGED <<config, module, processed, delivery, req, failures>>

SeedModule(m) ==
  /\ seeder.at = "modules"
  /\ m \in seeder.todo
  /\ IF module[m].exists
       THEN UNCHANGED module
       ELSE module' = [module EXCEPT ![m].exists = TRUE,
                                     ![m].enabled = m \in EnabledByDefault]
  /\ seeder' = [seeder EXCEPT !.todo = @ \ {m}]
  /\ UNCHANGED <<config, processed, delivery, req, failures>>

ModulesDone ==
  /\ seeder.at = "modules"
  /\ seeder.todo = {}
  /\ seeder' = [at |-> "keys", todo |-> DefaultKeys]
  /\ UNCHANGED <<config, module, processed, delivery, req, failures>>

\* Mutant: return in place of continue.
FindDefaultReturns(k) ==
  /\ seeder.at = "keys"
  /\ k \in seeder.todo
  /\ seeder' = IF HasRows(k)
                 THEN At("record")
                 ELSE [at |-> "insertKey", todo |-> seeder.todo, key |-> k]
  /\ UNCHANGED <<config, module, processed, delivery, req, failures>>

FindDefault(k) ==
  /\ seeder.at = "keys"
  /\ k \in seeder.todo
  /\ seeder' = IF HasRows(k)
                 THEN [seeder EXCEPT !.todo = @ \ {k}]
                 ELSE [at |-> "insertKey", todo |-> seeder.todo, key |-> k]
  /\ UNCHANGED <<config, module, processed, delivery, req, failures>>

\* Mutant: ON CONFLICT DO UPDATE, so that the default wins.
InsertDefaultOver ==
  /\ seeder.at = "insertKey"
  /\ SetRow(seeder.key, 1, "active")
  /\ seeder' = [at |-> "keys", todo |-> seeder.todo \ {seeder.key}]
  /\ UNCHANGED <<module, processed, delivery, req, failures>>

\* Without ON CONFLICT: a version 1 inserted since the look-up rejects it.
InsertDefault ==
  /\ seeder.at = "insertKey"
  /\ ~Exists(seeder.key, 1)
  /\ SetRow(seeder.key, 1, "active")
  /\ seeder' = [at |-> "keys", todo |-> seeder.todo \ {seeder.key}]
  /\ UNCHANGED <<module, processed, delivery, req, failures>>

KeysDone ==
  /\ seeder.at = "keys"
  /\ seeder.todo = {}
  /\ seeder' = At("record")
  /\ UNCHANGED <<config, module, processed, delivery, req, failures>>

RecordProcessed ==
  /\ seeder.at = "record"
  /\ processed' = TRUE
  /\ seeder' = At("ack")
  /\ UNCHANGED <<config, module, delivery, req, failures>>

Ack ==
  /\ seeder.at = "ack"
  /\ delivery' = "acked"
  /\ seeder' = At("idle")
  /\ UNCHANGED <<config, module, processed, req, failures>>

DropMessage ==
  /\ delivery' = "dropped"
  /\ seeder' = At("idle")
  /\ UNCHANGED <<config, module, processed, req>>

InsertDefaultRejected ==
  /\ seeder.at = "insertKey"
  /\ Exists(seeder.key, 1)
  /\ DropMessage
  /\ UNCHANGED failures

-----------------------------------------------------------------------------
(***************************************************************************)
(* What goes wrong: a rejected await ends a handler with an error (nack    *)
(* without requeue for the event handler), a crash ends all of them.       *)
(***************************************************************************)
CountFailure == /\ failures < MaxFailures
                /\ failures' = failures + 1

RequestFails(r) ==
  /\ req[r] # Idle
  /\ CountFailure
  /\ Reply(r)
  /\ UNCHANGED <<config, module, processed, delivery, seeder>>

SeedingFails ==
  /\ seeder.at # "idle"
  /\ CountFailure
  /\ DropMessage

Crash ==
  /\ CountFailure
  /\ seeder' = At("idle")
  /\ delivery' = IF delivery = "unacked" THEN "ready" ELSE delivery
  /\ req' = [r \in Requests |-> Idle]
  /\ UNCHANGED <<config, module, processed>>

-----------------------------------------------------------------------------
Request(r) ==
  \/ \E k \in Keys, v \in Versions : UpsertOver(r, k, v)
                                       \/ RollbackConfig(r, k, v)
  \/ \E k \in Keys : UpsertFirst(r, k)
  \/ DeactivateCurrent(r) \/ InsertVersion(r)
  \/ DeactivateAll(r) \/ ActivateTarget(r)
  \/ ToggleRejected(r)
  \/ \E m \in Modules, enable \in BOOLEAN : ToggleModule(r, m, enable)
  \/ RequestFails(r)

Seeding ==
  \/ CheckProcessed
  \/ \E m \in Modules : SeedModule(m)
  \/ ModulesDone
  \/ \E k \in DefaultKeys : FindDefault(k)
  \/ InsertDefault \/ InsertDefaultRejected
  \/ KeysDone \/ RecordProcessed \/ Ack

Next ==
  \/ \E r \in Requests : Request(r)
  \/ PublishTenantCreated \/ Deliver \/ Seeding \/ SeedingFails
  \/ Crash

Spec == Init /\ [][Next]_vars

-----------------------------------------------------------------------------
\* Every variable keeps its type.
TypeOK ==
  /\ config \in [Keys -> [Versions -> {"none", "active", "inactive"}]]
  /\ module \in [Modules -> ModuleRow]
  /\ processed \in BOOLEAN
  /\ delivery \in {"none", "ready", "unacked", "acked", "dropped"}
  /\ seeder \in SeederState
  /\ req \in [Requests -> RequestState]
  /\ failures \in 0..MaxFailures

\* The versions of a key are 1, 2, ... without a gap, whatever saves,
\* rollbacks, seedings and failures overlap.
VersionsContiguous ==
  \A k \in Keys : \A v \in Versions :
    Exists(k, v) /\ v > 1 => Exists(k, v - 1)

OneActive(k) ==
  \A v, w \in Versions : Active(k, v) /\ Active(k, w) => v = w

\* Nobody activated a version of the key since the handler read the active one
\* or deactivated what it found.
Undisturbed(q, k) ==
  /\ q.op = "deactivate" /\ q.key = k =>
       \A v \in Versions : Active(k, v) => v = q.current
  /\ q.op \in {"insert", "activate"} /\ q.key = k => ~HasActive(k)

\* However many saves, rollbacks, seedings and failures overlap, only a save or
\* a rollback that was overtaken leaves a second version of a key active: one
\* whose key got an active version between its statements.
AtMostOneActive ==
  [][\A k \in Keys : OneActive(k) =>
       /\ Seeding => OneActive(k)'
       /\ \A r \in Requests :
            Undisturbed(req[r], k) /\ Request(r) =>
              OneActive(k)' /\ Undisturbed(req[r], k)']_vars

\* A recorded event has seeded everything: no crash, redelivery or request
\* in between makes the handler skip a default.
SeededIsComplete ==
  processed => /\ \A m \in Modules : module[m].exists
               /\ \A k \in DefaultKeys : Exists(k, 1)

\* A module whose state differs from its default was switched by somebody:
\* the row names who enabled or disabled it.
SwitchesAreAttributed ==
  \A m \in Modules :
    module[m].exists /\ module[m].enabled # (m \in EnabledByDefault)
      => IF module[m].enabled THEN module[m].enabledBy
                              ELSE module[m].disabledBy

\* Seeding, first time or redelivered, changes no entitlement that exists
\* and no key that has a version, though both are looked up before the write.
SeedingKeepsChoices ==
  [][seeder' # seeder
       => /\ \A m \in Modules : module[m].exists => module'[m] = module[m]
          /\ \A k \in Keys : HasRows(k) => config'[k] = config[k]]_vars

\* Claimed by the comments "version bump strategy - deactivate current,
\* insert new version" of upsert and "Rollback = set old version
\* isActive=true" of ConfigMaster: the version a save is about to insert
\* does not exist yet.
VersionBumpsAreFree ==
  \A r \in Requests :
    req[r].op = "insert" => ~Exists(req[r].key, req[r].version)
=============================================================================
