------------------------ MODULE ConfigServiceProofs ------------------------
(***************************************************************************)
(* Safety of config-service for any number of keys, modules, versions,     *)
(* requests in flight and failures.                                        *)
(***************************************************************************)
EXTENDS ConfigService, TLAPS

-----------------------------------------------------------------------------
(***************************************************************************)
(* Types.                                                                  *)
(***************************************************************************)
LEMMA RequestByOp ==
  ASSUME TypeOK, NEW r \in Requests
  PROVE  /\ req[r].op = "deactivate" =>
              /\ req[r].key \in Keys
              /\ req[r].current \in Versions
              /\ req[r].version \in Versions
         /\ req[r].op \in {"insert", "deactivateAll", "activate"} =>
              /\ req[r].key \in Keys
              /\ req[r].version \in Versions
         /\ req[r].op \in {"idle", "deactivate", "insert", "deactivateAll",
                           "activate"}
<1>1. req[r] \in RequestState
  BY DEF TypeOK
<1> QED
  BY <1>1 DEF RequestState, Idle, UpsertReq, RollbackReq

LEMMA SeederByAt ==
  ASSUME TypeOK
  PROVE  /\ seeder.at = "modules" => seeder.todo \subseteq Modules
         /\ seeder.at = "keys" => seeder.todo \subseteq DefaultKeys
         /\ seeder.at = "insertKey" => /\ seeder.todo \subseteq DefaultKeys
                                       /\ seeder.key \in DefaultKeys
                                       /\ seeder.key \in Keys
  BY DefaultsAssumption DEF TypeOK, SeederState

LEMMA TypeInit == Init => TypeOK
<1> SUFFICES ASSUME Init PROVE TypeOK
  OBVIOUS
<1>1. config \in [Keys -> [Versions -> {"none", "active", "inactive"}]]
  BY DEF Init
<1>2. module \in [Modules -> ModuleRow]
  BY DEF Init, ModuleRow
<1>3. processed \in BOOLEAN
  BY DEF Init
<1>4. seeder \in SeederState
  BY DEF Init, SeederState, At
<1>5. req \in [Requests -> RequestState]
  BY DEF Init, RequestState
<1>6. failures \in 0..MaxFailures
  BY BoundsAssumption DEF Init
<1> QED
  BY <1>1, <1>2, <1>3, <1>4, <1>5, <1>6 DEF Init, TypeOK

LEMMA RequestTypes ==
  ASSUME TypeOK, NEW r \in Requests, Request(r)
  PROVE  TypeOK'
<1> USE BoundsAssumption
<1>v. Versions \subseteq Nat /\ 1 \in Versions
  BY DEF Versions
<1>1. ASSUME NEW k \in Keys, NEW v \in Versions, UpsertOver(r, k, v)
      PROVE  TypeOK'
  <2>1. v + 1 \in Versions
    BY <1>1 DEF UpsertOver, Versions
  <2> QED
    BY <1>1, <2>1 DEF UpsertOver, Continue, TypeOK, RequestState, UpsertReq
<1>2. ASSUME NEW k \in Keys, NEW v \in Versions, RollbackConfig(r, k, v)
      PROVE  TypeOK'
  BY <1>2 DEF RollbackConfig, Continue, TypeOK, RequestState, RollbackReq
<1>3. ASSUME NEW k \in Keys, UpsertFirst(r, k)
      PROVE  TypeOK'
  BY <1>3, <1>v DEF UpsertFirst, Continue, InsertOf, TypeOK, RequestState,
     UpsertReq
<1>4. CASE DeactivateCurrent(r)
  BY <1>4, RequestByOp DEF DeactivateCurrent, Continue, InsertOf, SetRow,
     TypeOK, RequestState, UpsertReq
<1>5. CASE InsertVersion(r)
  BY <1>5, RequestByOp DEF InsertVersion, Reply, Continue, SetRow, TypeOK,
     RequestState
<1>6. CASE DeactivateAll(r)
  <2>1. req[r] \in RollbackReq
    BY <1>6 DEF DeactivateAll, TypeOK, RequestState, RollbackReq, UpsertReq,
       Idle
  <2>2. req'[r] = [req[r] EXCEPT !.op = "activate"]
    BY <1>6 DEF DeactivateAll, Continue, TypeOK
  <2>3. req'[r] \in RollbackReq
    BY <2>1, <2>2 DEF RollbackReq
  <2> QED
    BY <1>6, <2>3, RequestByOp
       DEF DeactivateAll, Continue, TypeOK, RequestState
<1>7. CASE ActivateTarget(r)
  BY <1>7, RequestByOp DEF ActivateTarget, Reply, Continue, SetRow, TypeOK,
     RequestState
<1>8. ASSUME NEW m \in Modules, NEW enable \in BOOLEAN,
             ToggleModule(r, m, enable)
      PROVE  TypeOK'
  BY <1>8 DEF ToggleModule, TypeOK, ModuleRow
<1>9. CASE RequestFails(r)
  BY <1>9 DEF RequestFails, CountFailure, Reply, Continue, TypeOK,
     RequestState
<1>10. CASE ToggleRejected(r)
  BY <1>10 DEF ToggleRejected, vars, TypeOK
<1> QED
  BY <1>1, <1>2, <1>3, <1>4, <1>5, <1>6, <1>7, <1>8, <1>9, <1>10 DEF Request

LEMMA SeedingTypes ==
  ASSUME TypeOK, Seeding
  PROVE  TypeOK'
<1> USE BoundsAssumption, DefaultsAssumption, SeederByAt DEF At
<1>v. 1 \in Versions
  BY DEF Versions
<1>1. CASE CheckProcessed
  BY <1>1 DEF CheckProcessed, TypeOK, SeederState
<1>2. ASSUME NEW m \in Modules, SeedModule(m)
      PROVE  TypeOK'
  <2>1. seeder' \in SeederState
    BY <1>2 DEF SeedModule, SeederState, TypeOK
  <2>2. module' \in [Modules -> ModuleRow]
    <3>1. CASE module[m].exists
      BY <1>2, <3>1 DEF SeedModule, TypeOK
    <3>2. CASE ~module[m].exists
      <4> DEFINE on == m \in EnabledByDefault
                 row == [module[m] EXCEPT !.exists = TRUE, !.enabled = on]
      <4>0. on \in BOOLEAN /\ module[m] \in ModuleRow
        BY DEF TypeOK
      <4>1. row \in ModuleRow
        <5> HIDE DEF on
        <5> QED
          BY <4>0 DEF ModuleRow
      <4>2. module' = [module EXCEPT ![m] = row]
        BY <1>2, <3>2 DEF SeedModule, TypeOK, ModuleRow
      <4> HIDE DEF row
      <4> QED
        BY <4>1, <4>2 DEF TypeOK
    <3> QED
      BY <3>1, <3>2
  <2> QED
    BY <1>2, <2>1, <2>2 DEF SeedModule, TypeOK
<1>3. CASE ModulesDone \/ KeysDone \/ RecordProcessed \/ Ack
  <2>1. seeder' \in SeederState
    BY <1>3 DEF ModulesDone, KeysDone, RecordProcessed, Ack, SeederState
  <2>2. processed' \in BOOLEAN
    BY <1>3, Zenon DEF ModulesDone, KeysDone, RecordProcessed, Ack, TypeOK
  <2>3. delivery' \in {"none", "ready", "unacked", "acked", "dropped"}
    BY <1>3 DEF ModulesDone, KeysDone, RecordProcessed, Ack, TypeOK
  <2> QED
    BY <1>3, <2>1, <2>2, <2>3
       DEF ModulesDone, KeysDone, RecordProcessed, Ack, TypeOK
<1>4. ASSUME NEW k \in DefaultKeys, FindDefault(k)
      PROVE  TypeOK'
  <2>1. seeder' \in SeederState
    BY <1>4 DEF FindDefault, SeederState, TypeOK
  <2> QED
    BY <1>4, <2>1 DEF FindDefault, TypeOK
<1>5. CASE InsertDefault
  <2>1. seeder' \in SeederState
    BY <1>5 DEF InsertDefault, SeederState, TypeOK
  <2> QED
    BY <1>5, <2>1, <1>v DEF InsertDefault, SetRow, TypeOK
<1>6. CASE InsertDefaultRejected
  BY <1>6 DEF InsertDefaultRejected, DropMessage, TypeOK, SeederState
<1> QED
  BY <1>1, <1>2, <1>3, <1>4, <1>5, <1>6 DEF Seeding

LEMMA TypeStep == TypeOK /\ [Next]_vars => TypeOK'
<1> SUFFICES ASSUME TypeOK, [Next]_vars PROVE TypeOK'
  OBVIOUS
<1> USE BoundsAssumption
<1>1. CASE PublishTenantCreated \/ Deliver
  BY <1>1 DEF PublishTenantCreated, Deliver, TypeOK, SeederState, At
<1>2. CASE SeedingFails
  BY <1>2 DEF SeedingFails, CountFailure, DropMessage, TypeOK, SeederState, At
<1>3. CASE Crash
  BY <1>3 DEF Crash, CountFailure, TypeOK, SeederState, At, RequestState
<1>4. CASE UNCHANGED vars
  BY <1>4 DEF vars, TypeOK
<1> QED
  BY <1>1, <1>2, <1>3, <1>4, RequestTypes, SeedingTypes DEF Next

\* The type invariant holds in every reachable state.
THEOREM TypeCorrect == Spec => []TypeOK
  BY TypeInit, TypeStep, PTL DEF Spec

-----------------------------------------------------------------------------
(***************************************************************************)
(* Versions.  A handler that is about to write a version has seen the one  *)
(* before it, or the version itself; rows are never removed, so what it    *)
(* saw is still there when it writes.                                      *)
(***************************************************************************)
RequestFounded(r) ==
  /\ req[r].op = "deactivate" => Exists(req[r].key, req[r].current)
  /\ req[r].op \in {"deactivate", "insert"} =>
       \/ req[r].version = 1
       \/ /\ req[r].version - 1 \in Versions
          /\ Exists(req[r].key, req[r].version - 1)
  /\ req[r].op \in {"deactivateAll", "activate"} =>
       Exists(req[r].key, req[r].version)

FirstVersionExists ==
  \A k \in Keys : \A v \in Versions : Exists(k, v) => Exists(k, 1)

VersionInv ==
  /\ VersionsContiguous
  /\ FirstVersionExists
  /\ \A r \in Requests : RequestFounded(r)

\* Rows are never removed, and a new one follows its predecessor.
ConfigGrows ==
  \A k \in Keys : \A v \in Versions :
    /\ Exists(k, v) => Exists(k, v)'
    /\ Exists(k, v)' => \/ Exists(k, v)
                        \/ v = 1
                        \/ v - 1 \in Versions /\ Exists(k, v - 1)

LEMMA ConfigUnchanged ==
  ASSUME config' = config
  PROVE  ConfigGrows
  BY DEF ConfigGrows, Exists

\* The steps that leave ConfigMaster alone.
LEMMA ConfigWriters ==
  ASSUME [Next]_vars
  PROVE  \/ config' = config
         \/ \E r \in Requests : \/ DeactivateCurrent(r) \/ InsertVersion(r)
                                \/ DeactivateAll(r) \/ ActivateTarget(r)
         \/ InsertDefault
<1>1. CASE \E r \in Requests : Request(r)
  BY <1>1 DEF Request, UpsertOver, RollbackConfig, UpsertFirst, ToggleModule,
     ToggleRejected, RequestFails, vars
<1>2. CASE Seeding
  BY <1>2 DEF Seeding, CheckProcessed, SeedModule, ModulesDone, FindDefault,
     InsertDefaultRejected, DropMessage, KeysDone, RecordProcessed, Ack
<1>3. CASE PublishTenantCreated \/ Deliver \/ SeedingFails \/ Crash
  BY <1>3 DEF PublishTenantCreated, Deliver, SeedingFails, DropMessage, Crash
<1> QED
  BY <1>1, <1>2, <1>3 DEF Next, vars

LEMMA ConfigGrowsStep ==
  ASSUME TypeOK, \A r \in Requests : RequestFounded(r), [Next]_vars
  PROVE  ConfigGrows
<1>v. 1 \in Versions
  BY BoundsAssumption DEF Versions
<1>1. ASSUME NEW r \in Requests, DeactivateCurrent(r)
      PROVE  ConfigGrows
  BY <1>1, RequestByOp DEF DeactivateCurrent, SetRow, RequestFounded,
     ConfigGrows, Exists, TypeOK
<1>2. ASSUME NEW r \in Requests, InsertVersion(r)
      PROVE  ConfigGrows
  BY <1>2, RequestByOp DEF InsertVersion, SetRow, RequestFounded,
     ConfigGrows, Exists, TypeOK
<1>3. ASSUME NEW r \in Requests, DeactivateAll(r)
      PROVE  ConfigGrows
  BY <1>3, RequestByOp DEF DeactivateAll, ConfigGrows, Exists, TypeOK
<1>4. ASSUME NEW r \in Requests, ActivateTarget(r)
      PROVE  ConfigGrows
  BY <1>4, RequestByOp DEF ActivateTarget, SetRow, RequestFounded,
     ConfigGrows, Exists, TypeOK
<1>5. CASE InsertDefault
  BY <1>5, <1>v, SeederByAt DEF InsertDefault, SetRow, ConfigGrows, Exists,
     TypeOK
<1> QED
  BY <1>1, <1>2, <1>3, <1>4, <1>5, ConfigWriters, ConfigUnchanged

\* A request that has not moved keeps what it has seen.
LEMMA FoundedStays ==
  ASSUME TypeOK, ConfigGrows, NEW r \in Requests, RequestFounded(r),
         req'[r] = req[r]
  PROVE  RequestFounded(r)'
<1>1. req[r].op \in {"deactivate", "insert", "deactivateAll", "activate"}
        => req[r].key \in Keys /\ req[r].version \in Versions
  BY RequestByOp
<1>2. req[r].op = "deactivate" => req[r].current \in Versions
  BY RequestByOp
<1> QED
  BY <1>1, <1>2 DEF ConfigGrows, RequestFounded

LEMMA FoundedStep ==
  ASSUME TypeOK, \A r \in Requests : RequestFounded(r), [Next]_vars
  PROVE  \A r \in Requests : RequestFounded(r)'
<1>g. ConfigGrows
  BY ConfigGrowsStep
<1>u. CASE req' = req
  BY <1>u, <1>g, FoundedStays
<1>i. ASSUME NEW r \in Requests, req'[r] = Idle
      PROVE  RequestFounded(r)'
  BY <1>i DEF RequestFounded, Idle
<1>1. ASSUME NEW r \in Requests, Request(r)
      PROVE  \A s \in Requests : RequestFounded(s)'
  <2>1. \A s \in Requests \ {r} : req'[s] = req[s]
    BY <1>1 DEF Request, UpsertOver, RollbackConfig, UpsertFirst,
       ToggleModule, ToggleRejected, RequestFails, DeactivateCurrent,
       InsertVersion, DeactivateAll, ActivateTarget, Reply, Continue, TypeOK,
       vars
  <2>2. RequestFounded(r)'
    <3>1. ASSUME NEW k \in Keys, NEW v \in Versions, UpsertOver(r, k, v)
          PROVE  RequestFounded(r)'
      BY <3>1 DEF UpsertOver, Continue, RequestFounded, Exists, Active,
         TypeOK, Versions
    <3>2. ASSUME NEW k \in Keys, NEW v \in Versions,
                 RollbackConfig(r, k, v)
          PROVE  RequestFounded(r)'
      BY <3>2 DEF RollbackConfig, Continue, RequestFounded, Exists, TypeOK
    <3>3. ASSUME NEW k \in Keys, UpsertFirst(r, k)
          PROVE  RequestFounded(r)'
      BY <3>3 DEF UpsertFirst, Continue, InsertOf, RequestFounded, TypeOK
    <3>4. CASE DeactivateCurrent(r)
      <4>1. req'[r] = InsertOf(req[r].key, req[r].version)
        BY <3>4 DEF DeactivateCurrent, Continue, TypeOK
      <4>2. \/ req[r].version = 1
            \/ /\ req[r].version - 1 \in Versions
               /\ Exists(req[r].key, req[r].version - 1)
        BY <3>4 DEF DeactivateCurrent, RequestFounded
      <4>3. req[r].key \in Keys
        BY <3>4, RequestByOp DEF DeactivateCurrent
      <4> QED
        BY <4>1, <4>2, <4>3, <1>g DEF InsertOf, RequestFounded, ConfigGrows
    <3>5. CASE DeactivateAll(r)
      <4>1. /\ req'[r].op = "activate"
            /\ req'[r].key = req[r].key
            /\ req'[r].version = req[r].version
        <5>1. req[r] \in RollbackReq
          BY <3>5 DEF DeactivateAll, TypeOK, RequestState, RollbackReq,
             UpsertReq, Idle
        <5>2. req'[r] = [req[r] EXCEPT !.op = "activate"]
          BY <3>5 DEF DeactivateAll, Continue, TypeOK
        <5> QED
          BY <5>1, <5>2 DEF RollbackReq
      <4>2. /\ Exists(req[r].key, req[r].version)
            /\ req[r].key \in Keys
            /\ req[r].version \in Versions
        BY <3>5, RequestByOp DEF DeactivateAll, RequestFounded
      <4> QED
        BY <4>1, <4>2, <1>g DEF RequestFounded, ConfigGrows
    <3>6. CASE InsertVersion(r) \/ ActivateTarget(r) \/ RequestFails(r)
      BY <3>6, <1>i DEF InsertVersion, ActivateTarget, RequestFails, Reply,
         Continue, TypeOK
    <3>7. ASSUME NEW m \in Modules, NEW enable \in BOOLEAN,
                 ToggleModule(r, m, enable)
          PROVE  RequestFounded(r)'
      BY <3>7, <1>u DEF ToggleModule
    <3>8. CASE ToggleRejected(r)
      BY <3>8, <1>u DEF ToggleRejected, vars
    <3> QED
      BY <1>1, <3>1, <3>2, <3>3, <3>4, <3>5, <3>6, <3>7, <3>8 DEF Request
  <2> QED
    BY <2>1, <2>2, <1>g, FoundedStays
<1>2. CASE Seeding \/ PublishTenantCreated \/ Deliver \/ SeedingFails
  BY <1>2, <1>u DEF Seeding, CheckProcessed, SeedModule, ModulesDone,
     FindDefault, InsertDefault, InsertDefaultRejected, DropMessage, KeysDone,
     RecordProcessed, Ack, PublishTenantCreated, Deliver, SeedingFails
<1>3. CASE Crash
  BY <1>3, <1>i DEF Crash
<1>4. CASE UNCHANGED vars
  BY <1>4, <1>u DEF vars
<1> QED
  BY <1>1, <1>2, <1>3, <1>4 DEF Next

LEMMA VersionStep ==
  TypeOK /\ VersionInv /\ [Next]_vars => VersionInv'
<1> SUFFICES ASSUME TypeOK, VersionInv, [Next]_vars PROVE VersionInv'
  OBVIOUS
<1>g. ConfigGrows
  BY ConfigGrowsStep DEF VersionInv
<1>v. 1 \in Versions /\ Versions \subseteq Nat
  BY BoundsAssumption DEF Versions
<1>1. VersionsContiguous'
  <2> SUFFICES ASSUME NEW k \in Keys, NEW v \in Versions,
                      Exists(k, v)', v > 1
               PROVE  Exists(k, v - 1)'
    BY DEF VersionsContiguous
  <2>1. v - 1 \in Versions
    BY BoundsAssumption DEF Versions
  <2>2. Exists(k, v - 1)
    BY <1>g, <1>v DEF ConfigGrows, VersionInv, VersionsContiguous
  <2> QED
    BY <2>1, <2>2, <1>g DEF ConfigGrows
<1>2. FirstVersionExists'
  BY <1>g, <1>v DEF ConfigGrows, VersionInv, FirstVersionExists
<1>3. \A r \in Requests : RequestFounded(r)'
  BY FoundedStep DEF VersionInv
<1> QED
  BY <1>1, <1>2, <1>3 DEF VersionInv

LEMMA VersionInit == Init => VersionInv
  BY BoundsAssumption
     DEF Init, VersionInv, VersionsContiguous, FirstVersionExists,
         RequestFounded, Exists, Idle, Versions

LEMMA VersionCorrect == Spec => []VersionInv
  BY VersionInit, VersionStep, TypeCorrect, PTL DEF Spec

\* The versions of a key have no gap, for any number of requests.
THEOREM VersionsHaveNoGap == Spec => []VersionsContiguous
<1>1. VersionInv => VersionsContiguous
  BY DEF VersionInv
<1> QED
  BY <1>1, VersionCorrect, PTL

-----------------------------------------------------------------------------
(***************************************************************************)
(* Seeding.  What the event handler has already seeded at each await.      *)
(***************************************************************************)
AllModules == \A m \in Modules : module[m].exists

SeededKeys(todo) == \A k \in DefaultKeys \ todo : Exists(k, 1)

SeedingInv ==
  /\ seeder.at = "modules" =>
       \A m \in Modules \ seeder.todo : module[m].exists
  /\ seeder.at \in {"keys", "insertKey", "record"} => AllModules
  /\ seeder.at \in {"keys", "insertKey"} => SeededKeys(seeder.todo)
  /\ seeder.at = "record" => SeededKeys({})
  /\ processed => AllModules /\ SeededKeys({})

\* No step removes an entitlement, and only toggleModule rewrites one.
LEMMA ModulesGrow ==
  ASSUME TypeOK, [Next]_vars, NEW m \in Modules, module[m].exists
  PROVE  /\ module'[m].exists
         /\ seeder' # seeder => module'[m] = module[m]
<1>1. ASSUME NEW r \in Requests, NEW n \in Modules, NEW enable \in BOOLEAN,
             ToggleModule(r, n, enable)
      PROVE  seeder' = seeder /\ module'[m].exists
  <2>1. CASE n = m
    BY <1>1, <2>1 DEF ToggleModule, TypeOK
  <2>2. CASE n # m
    BY <1>1, <2>2 DEF ToggleModule, TypeOK
  <2> QED
    BY <2>1, <2>2
<1>2. ASSUME NEW r \in Requests, Request(r),
             ~\E n \in Modules, enable \in BOOLEAN : ToggleModule(r, n, enable)
      PROVE  seeder' = seeder /\ module' = module
  BY <1>2 DEF Request, UpsertOver, RollbackConfig, UpsertFirst,
     DeactivateCurrent, InsertVersion, DeactivateAll, ActivateTarget,
     ToggleRejected, RequestFails, vars
<1>3. CASE Seeding
  BY <1>3 DEF Seeding, CheckProcessed, SeedModule, ModulesDone, FindDefault,
     InsertDefault, InsertDefaultRejected, DropMessage, KeysDone,
     RecordProcessed, Ack, TypeOK
<1>4. CASE PublishTenantCreated \/ Deliver \/ SeedingFails \/ Crash
  BY <1>4 DEF PublishTenantCreated, Deliver, SeedingFails, DropMessage, Crash
<1> QED
  BY <1>1, <1>2, <1>3, <1>4 DEF Next, vars

LEMMA SeedingStep ==
  TypeOK /\ VersionInv /\ SeedingInv /\ [Next]_vars => SeedingInv'
<1> SUFFICES ASSUME TypeOK, VersionInv, SeedingInv, [Next]_vars
             PROVE  SeedingInv'
  OBVIOUS
<1>m. \A m \in Modules : module[m].exists => module'[m].exists
  BY ModulesGrow
<1>k. \A k \in DefaultKeys : Exists(k, 1) => Exists(k, 1)'
  BY ConfigGrowsStep, BoundsAssumption, DefaultsAssumption
     DEF ConfigGrows, VersionInv, Versions
<1>a. AllModules => AllModules'
  BY <1>m DEF AllModules
<1>s. \A todo : SeededKeys(todo) => SeededKeys(todo)'
  BY <1>k DEF SeededKeys
<1>u. CASE seeder' = seeder /\ processed' = processed
  BY <1>u, <1>m, <1>a, <1>s DEF SeedingInv
<1>i. CASE seeder'.at \in {"idle", "check", "ack"} /\ processed' = processed
  BY <1>i, <1>a, <1>s DEF SeedingInv
<1>1. CASE \E r \in Requests : Request(r)
  BY <1>1, <1>u DEF Request, UpsertOver, RollbackConfig, UpsertFirst,
     DeactivateCurrent, InsertVersion, DeactivateAll, ActivateTarget,
     ToggleModule, ToggleRejected, RequestFails, vars
<1>2. CASE PublishTenantCreated
  BY <1>2, <1>u DEF PublishTenantCreated
<1>3. CASE Deliver \/ SeedingFails \/ Crash \/ InsertDefaultRejected \/ Ack
  BY <1>3, <1>i DEF Deliver, SeedingFails, DropMessage, Crash,
     InsertDefaultRejected, Ack, At
<1>4. CASE CheckProcessed
  BY <1>4, <1>a, <1>s DEF CheckProcessed, At, SeedingInv
<1>5. ASSUME NEW m \in Modules, SeedModule(m)
      PROVE  SeedingInv'
  <2>1. /\ seeder'.at = "modules"
        /\ seeder'.todo = seeder.todo \ {m}
        /\ seeder.at = "modules"
        /\ processed' = processed
    <3>1. seeder \in [at : {"modules"}, todo : SUBSET Modules]
      BY <1>5 DEF SeedModule, TypeOK, SeederState
    <3> QED
      BY <1>5, <3>1 DEF SeedModule
  <2>2. module'[m].exists
    BY <1>5 DEF SeedModule, TypeOK, ModuleRow
  <2> QED
    BY <2>1, <2>2, <1>m, <1>a, <1>s DEF SeedingInv
<1>6. CASE ModulesDone
  <2>1. /\ seeder'.at = "keys"
        /\ seeder'.todo = DefaultKeys
        /\ processed' = processed
        /\ seeder.at = "modules"
        /\ seeder.todo = {}
    BY <1>6 DEF ModulesDone
  <2>2. AllModules
    BY <2>1 DEF SeedingInv, AllModules
  <2> QED
    BY <2>1, <2>2, <1>a, <1>s DEF SeedingInv, SeededKeys
<1>7. ASSUME NEW k \in DefaultKeys, FindDefault(k)
      PROVE  SeedingInv'
  <2>1. seeder.at = "keys" /\ processed' = processed
    BY <1>7 DEF FindDefault
  <2>2. CASE HasRows(k)
    <3>1. seeder'.at = "keys" /\ seeder'.todo = seeder.todo \ {k}
      <4>1. seeder \in [at : {"keys"}, todo : SUBSET DefaultKeys]
        BY <2>1 DEF TypeOK, SeederState
      <4> QED
        BY <1>7, <2>2, <4>1 DEF FindDefault
    <3>2. Exists(k, 1)
      BY <2>2, DefaultsAssumption
         DEF HasRows, VersionInv, FirstVersionExists
    <3>3. SeededKeys(seeder.todo \ {k})
      BY <2>1, <3>2 DEF SeedingInv, SeededKeys
    <3> QED
      BY <2>1, <3>1, <3>3, <1>a, <1>s DEF SeedingInv
  <2>3. CASE ~HasRows(k)
    BY <1>7, <2>1, <2>3, <1>a, <1>s DEF FindDefault, SeedingInv
  <2> QED
    BY <2>2, <2>3
<1>8. CASE InsertDefault
  <2>1. /\ seeder.at = "insertKey"
        /\ seeder'.at = "keys"
        /\ seeder'.todo = seeder.todo \ {seeder.key}
        /\ processed' = processed
    BY <1>8 DEF InsertDefault
  <2>2. config'[seeder.key][1] # "none"
    <3>1. seeder.key \in Keys /\ 1 \in Versions
      BY <2>1, SeederByAt, BoundsAssumption DEF Versions
    <3>2. config' = [config EXCEPT ![seeder.key][1] = "active"]
      BY <1>8 DEF InsertDefault, SetRow
    <3> QED
      BY <3>1, <3>2 DEF TypeOK
  <2>3. \A k \in DefaultKeys \ seeder.todo : config'[k][1] # "none"
    BY <2>1, <1>k DEF SeedingInv, SeededKeys, Exists
  <2>4. \A k \in DefaultKeys \ seeder'.todo : config'[k][1] # "none"
    BY <2>1, <2>2, <2>3
  <2> QED
    BY <2>1, <2>4, <1>a, <1>s DEF SeedingInv, SeededKeys, Exists
<1>9. CASE KeysDone
  BY <1>9, <1>a, <1>s DEF KeysDone, At, SeedingInv
<1>10. CASE RecordProcessed
  <2>1. AllModules /\ SeededKeys({}) /\ seeder'.at = "ack"
    BY <1>10 DEF RecordProcessed, SeedingInv, At
  <2> QED
    BY <2>1, <1>a, <1>s DEF SeedingInv
<1>11. CASE UNCHANGED vars
  BY <1>11, <1>u DEF vars
<1> QED
  BY <1>1, <1>2, <1>3, <1>4, <1>5, <1>6, <1>7, <1>8, <1>9, <1>10, <1>11
     DEF Next, Seeding

LEMMA SeedingCorrect == Spec => []SeedingInv
<1>1. Init => SeedingInv
  BY DEF Init, SeedingInv, At
<1> QED
  BY <1>1, SeedingStep, TypeCorrect, VersionCorrect, PTL DEF Spec

\* A recorded event has seeded every default.
THEOREM RecordedIsSeeded == Spec => []SeededIsComplete
<1>1. SeedingInv => SeededIsComplete
  BY DEF SeedingInv, SeededIsComplete, AllModules, SeededKeys
<1> QED
  BY <1>1, SeedingCorrect, PTL

-----------------------------------------------------------------------------
(***************************************************************************)
(* Seeding against requests.  The look-up and the insert of a default are  *)
(* two statements; the unique key makes up for it, because a key with any  *)
(* version has version 1.                                                  *)
(***************************************************************************)
LEMMA SeederConfig ==
  ASSUME TypeOK, VersionInv, [Next]_vars, seeder' # seeder,
         NEW k \in Keys, HasRows(k)
  PROVE  config'[k] = config[k]
<1>1. CASE InsertDefault
  <2>1. Exists(k, 1)
    BY DEF HasRows, VersionInv, FirstVersionExists
  <2>2. k # seeder.key
    BY <1>1, <2>1 DEF InsertDefault
  <2> QED
    BY <1>1, <2>2, SeederByAt DEF InsertDefault, SetRow, TypeOK
<1>2. ASSUME NEW r \in Requests,
             \/ DeactivateCurrent(r) \/ InsertVersion(r)
             \/ DeactivateAll(r) \/ ActivateTarget(r)
      PROVE  FALSE
  BY <1>2 DEF DeactivateCurrent, InsertVersion, DeactivateAll, ActivateTarget
<1> QED
  BY <1>1, <1>2, ConfigWriters

\* Seeding rewrites no entitlement and no configured key.
THEOREM SeedingKeeps == Spec => SeedingKeepsChoices
<1>1. TypeOK /\ VersionInv /\ [Next]_vars =>
        [seeder' # seeder
           => /\ \A m \in Modules : module[m].exists => module'[m] = module[m]
              /\ \A k \in Keys : HasRows(k) => config'[k] = config[k]]_vars
  BY ModulesGrow, SeederConfig
<1> QED
  BY <1>1, TypeCorrect, VersionCorrect, PTL DEF Spec, SeedingKeepsChoices

-----------------------------------------------------------------------------
(***************************************************************************)
(* Entitlements.  Only a toggle and the first seeding write a row.         *)
(***************************************************************************)
Attributed(row, m) ==
  row.exists /\ row.enabled # (m \in EnabledByDefault)
    => IF row.enabled THEN row.enabledBy ELSE row.disabledBy

LEMMA AttributedStep ==
  ASSUME TypeOK, [Next]_vars, NEW m \in Modules, Attributed(module[m], m)
  PROVE  Attributed(module'[m], m)
<1>u. CASE module' = module
  BY <1>u
<1>1. ASSUME NEW r \in Requests, NEW n \in Modules, NEW enable \in BOOLEAN,
             ToggleModule(r, n, enable)
      PROVE  Attributed(module'[m], m)
  <2>1. CASE n = m
    <3>1. CASE enable
      BY <1>1, <2>1, <3>1 DEF ToggleModule, TypeOK, Attributed
    <3>2. CASE ~enable
      BY <1>1, <2>1, <3>2 DEF ToggleModule, TypeOK, Attributed
    <3> QED
      BY <3>1, <3>2
  <2>2. CASE n # m
    BY <1>1, <2>2 DEF ToggleModule, TypeOK
  <2> QED
    BY <2>1, <2>2
<1>2. ASSUME NEW r \in Requests, Request(r),
             ~\E n \in Modules, enable \in BOOLEAN : ToggleModule(r, n, enable)
      PROVE  module' = module
  BY <1>2 DEF Request, UpsertOver, RollbackConfig, UpsertFirst,
     DeactivateCurrent, InsertVersion, DeactivateAll, ActivateTarget,
     ToggleRejected, RequestFails, vars
<1>3. ASSUME NEW n \in Modules, SeedModule(n)
      PROVE  Attributed(module'[m], m)
  <2>1. CASE n = m /\ ~module[m].exists
    <3>1. module'[m].enabled = (m \in EnabledByDefault)
      BY <1>3, <2>1 DEF SeedModule, TypeOK, ModuleRow
    <3> QED
      BY <3>1 DEF Attributed
  <2>2. CASE n # m \/ module[n].exists
    BY <1>3, <2>2 DEF SeedModule, TypeOK
  <2> QED
    BY <2>1, <2>2
<1>4. CASE Seeding /\ ~\E n \in Modules : SeedModule(n)
  BY <1>4, <1>u DEF Seeding, CheckProcessed, ModulesDone, FindDefault,
     InsertDefault, InsertDefaultRejected, DropMessage, KeysDone,
     RecordProcessed, Ack
<1>5. CASE PublishTenantCreated \/ Deliver \/ SeedingFails \/ Crash
  BY <1>5, <1>u DEF PublishTenantCreated, Deliver, SeedingFails, DropMessage,
     Crash
<1>6. CASE UNCHANGED vars
  BY <1>6, <1>u DEF vars
<1> QED
  BY <1>1, <1>2, <1>3, <1>4, <1>5, <1>6, <1>u DEF Next

\* A module that is not at its default names who switched it.
THEOREM SwitchesAttributed == Spec => []SwitchesAreAttributed
<1>1. SwitchesAreAttributed <=> \A m \in Modules : Attributed(module[m], m)
  BY DEF SwitchesAreAttributed, Attributed
<1>2. Init => \A m \in Modules : Attributed(module[m], m)
  BY DEF Init, Attributed
<1>3. TypeOK /\ (\A m \in Modules : Attributed(module[m], m)) /\ [Next]_vars
        => (\A m \in Modules : Attributed(module[m], m))'
  BY AttributedStep
<1> QED
  BY <1>1, <1>2, <1>3, TypeCorrect, PTL DEF Spec

-----------------------------------------------------------------------------
(***************************************************************************)
(* One active version.  A handler that is not overtaken between its        *)
(* statements, and the seeding, keep it, whatever the others do.           *)
(***************************************************************************)
LEMMA RequestOneActive ==
  ASSUME TypeOK, NEW r \in Requests, Request(r), NEW k \in Keys,
         OneActive(k), Undisturbed(req[r], k)
  PROVE  OneActive(k)' /\ Undisturbed(req[r], k)'
<1> DEFINE Goal == OneActive(k)' /\ Undisturbed(req[r], k)'
<1>c. config' = config => OneActive(k)'
  BY DEF OneActive, Active
<1>i. req'[r] = Idle => Undisturbed(req[r], k)'
  BY DEF Undisturbed, Idle
<1>1. ASSUME NEW l \in Keys, NEW v \in Versions, UpsertOver(r, l, v)
      PROVE  Goal
  <2>1. /\ config' = config /\ Active(l, v)
        /\ req'[r] = [op |-> "deactivate", key |-> l, current |-> v,
                      version |-> v + 1]
    BY <1>1 DEF UpsertOver, Continue, TypeOK
  <2>2. Undisturbed(req[r], k)'
    BY <2>1 DEF Undisturbed, OneActive, Active
  <2> QED
    BY <2>1, <2>2, <1>c
<1>2. ASSUME NEW l \in Keys, NEW v \in Versions, RollbackConfig(r, l, v)
      PROVE  Goal
  <2>1. /\ config' = config
        /\ req'[r] = [op |-> "deactivateAll", key |-> l, version |-> v]
    BY <1>2 DEF RollbackConfig, Continue, TypeOK
  <2>2. Undisturbed(req[r], k)'
    BY <2>1 DEF Undisturbed
  <2> QED
    BY <2>1, <2>2, <1>c
<1>3. ASSUME NEW l \in Keys, UpsertFirst(r, l)
      PROVE  Goal
  <2>1. config' = config /\ req'[r] = InsertOf(l, 1) /\ ~HasActive(l)
    BY <1>3 DEF UpsertFirst, Continue, TypeOK
  <2>2. Undisturbed(req[r], k)'
    BY <2>1 DEF Undisturbed, InsertOf, HasActive, Active
  <2> QED
    BY <2>1, <2>2, <1>c
<1>4. CASE DeactivateCurrent(r)
  <2> DEFINE l == req[r].key
             c == req[r].current
  <2>1. /\ l \in Keys /\ c \in Versions
        /\ req'[r] = InsertOf(l, req[r].version)
        /\ config' = [config EXCEPT ![l][c] = "inactive"]
    BY <1>4, RequestByOp DEF DeactivateCurrent, Continue, SetRow, TypeOK
  <2>2. l = k => \A v \in Versions : Active(k, v) => v = c
    BY <1>4 DEF DeactivateCurrent, Undisturbed
  <2> HIDE DEF l, c
  <2>3. \A v \in Versions : Active(k, v)' => Active(k, v) /\ k # l
    BY <2>1, <2>2 DEF Active, TypeOK
  <2>4. OneActive(k)'
    BY <2>3 DEF OneActive
  <2>5. Undisturbed(req[r], k)'
    BY <2>1, <2>3 DEF Undisturbed, InsertOf, HasActive
  <2> QED
    BY <2>4, <2>5
<1>5. CASE InsertVersion(r)
  <2> DEFINE l == req[r].key
             n == req[r].version
  <2>1. /\ l \in Keys /\ n \in Versions /\ req'[r] = Idle
        /\ \/ config' = config
           \/ config' = [config EXCEPT ![l][n] = "active"]
        /\ l = k => ~HasActive(k)
    BY <1>5, RequestByOp
       DEF InsertVersion, Reply, Continue, SetRow, TypeOK, Undisturbed
  <2> HIDE DEF l, n
  <2>2. OneActive(k)'
    BY <2>1, <1>c DEF OneActive, HasActive, Active, TypeOK
  <2> QED
    BY <2>1, <2>2, <1>i
<1>6. CASE DeactivateAll(r)
  <2>1. req[r] \in RollbackReq
    BY <1>6 DEF DeactivateAll, TypeOK, RequestState, RollbackReq,
       UpsertReq, Idle
  <2>2. req'[r].op = "activate" /\ req'[r].key = req[r].key
    BY <1>6, <2>1 DEF DeactivateAll, Continue, TypeOK, RollbackReq
  <2>3. req[r].key \in Keys
    BY <2>1 DEF RollbackReq
  <2>4. \A v \in Versions : Active(k, v)' => Active(k, v) /\ k # req[r].key
    BY <1>6, <2>3 DEF DeactivateAll, TypeOK, Active
  <2>5. OneActive(k)'
    BY <2>4 DEF OneActive
  <2>6. Undisturbed(req[r], k)'
    BY <2>2, <2>4 DEF Undisturbed, HasActive
  <2> QED
    BY <2>5, <2>6
<1>7. CASE ActivateTarget(r)
  <2> DEFINE l == req[r].key
             n == req[r].version
  <2>1. /\ l \in Keys /\ n \in Versions /\ req'[r] = Idle
        /\ config' = [config EXCEPT ![l][n] = "active"]
        /\ l = k => ~HasActive(k)
    BY <1>7, RequestByOp
       DEF ActivateTarget, Reply, Continue, SetRow, TypeOK, Undisturbed
  <2> HIDE DEF l, n
  <2>2. OneActive(k)'
    BY <2>1 DEF OneActive, HasActive, Active, TypeOK
  <2> QED
    BY <2>1, <2>2, <1>i
<1>8. ASSUME NEW m \in Modules, NEW enable \in BOOLEAN,
             ToggleModule(r, m, enable)
      PROVE  Goal
  BY <1>8, <1>c, <1>i DEF ToggleModule
<1>9. CASE RequestFails(r) \/ ToggleRejected(r)
  BY <1>9, <1>c, <1>i
     DEF RequestFails, ToggleRejected, Reply, Continue, TypeOK, vars
<1> QED
  BY <1>1, <1>2, <1>3, <1>4, <1>5, <1>6, <1>7, <1>8, <1>9 DEF Request

\* A default is inserted only where there is no version, since the first one
\* is never missing from a key that has any.
LEMMA SeedingOneActive ==
  ASSUME TypeOK, VersionInv, Seeding, NEW k \in Keys, OneActive(k)
  PROVE  OneActive(k)'
<1>v. 1 \in Versions
  BY BoundsAssumption DEF Versions
<1>1. CASE InsertDefault
  <2>1. /\ seeder.key \in Keys
        /\ \A v \in Versions : ~Exists(seeder.key, v)
        /\ config' = [config EXCEPT ![seeder.key][1] = "active"]
    BY <1>1, SeederByAt
       DEF InsertDefault, SetRow, VersionInv, FirstVersionExists
  <2> QED
    BY <2>1, <1>v DEF Exists, OneActive, Active, TypeOK
<1>2. CASE ~InsertDefault
  <2>1. config' = config
    BY <1>2 DEF Seeding, CheckProcessed, SeedModule, ModulesDone,
       FindDefault, InsertDefaultRejected, DropMessage, KeysDone,
       RecordProcessed, Ack
  <2> QED
    BY <2>1 DEF OneActive, Active
<1> QED
  BY <1>1, <1>2

\* For any number of requests in flight a key gets a second active version
\* only from a save or a rollback that was overtaken between its statements.
THEOREM OneActiveVersion == Spec => AtMostOneActive
<1> DEFINE Kept ==
      \A k \in Keys : OneActive(k) =>
        /\ Seeding => OneActive(k)'
        /\ \A r \in Requests :
             Undisturbed(req[r], k) /\ Request(r) =>
               OneActive(k)' /\ Undisturbed(req[r], k)'
<1>1. TypeOK /\ VersionInv => Kept
  BY RequestOneActive, SeedingOneActive
<1> HIDE DEF Kept
<1>2. Spec => [][Kept]_vars
  BY <1>1, TypeCorrect, VersionCorrect, PTL DEF Spec
<1> QED
  BY <1>2 DEF AtMostOneActive, Kept
=============================================================================
