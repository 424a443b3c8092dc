---------------------------- MODULE RouteMaster -----------------------------
(***************************************************************************)
(* The transport master data (transport.service.ts of tenant-service): the *)
(* vehicles, stops and routes that the platform administrator keeps in     *)
(* MASTER_TEMPLATE, the only tenant transport.controller.ts edits, their   *)
(* seed, and the copy a school makes of them, which is never edited.       *)
(*                                                                         *)
(* The handlers set and filter softDelete themselves and the unique keys   *)
(* ignore it: one row per registration number, stop name and route code,   *)
(* and in a route one per stop and one per sequence number.                *)
(*                                                                         *)
(* Abstracted: a vehicle, a stop or a route is its key, so edits of the    *)
(* key are left out, and so are the staff of a trip (StaffAccounts) and    *)
(* the capacity of a vehicle (Transport); the reads of an import are one   *)
(* step and its writes another.                                            *)
(***************************************************************************)
EXTENDS Handlers, Sequences

CONSTANTS
  VehicleNos,   \* registration numbers
  StopNames,
  RouteCodes,
  MaxTrips,     \* bounds the RouteTrip rows made
  MaxStops,     \* bounds the RouteStop rows made
  TripForms,    \* the trips a route may be saved with, Null for undefined
  StopForms,    \* and the stops
  SeedPlan,     \* what seedMasterData creates
  EnoughRoutes  \* so many live routes, 5 in the code, need no seed

TripData == VehicleNos \cup {Null}
StopData == StopNames \X (Nat \ {0})   \* a stop and its sequence number

ASSUME BoundsAssumption ==
  MaxTrips \in Nat /\ MaxStops \in Nat /\ EnoughRoutes \in Nat

\* A form sends a row it was filled from with the id, which is not NULL, and
\* sends it once.
ASSUME FormsAssumption ==
  /\ Null \notin (1 .. MaxTrips) \cup (1 .. MaxStops)
  /\ TripForms \subseteq
       {Null} \cup Seq([id : (1 .. MaxTrips) \cup {Null}, data : TripData])
  /\ StopForms \subseteq
       {Null} \cup Seq([id : (1 .. MaxStops) \cup {Null}, data : StopData])
  /\ \A form \in (TripForms \cup StopForms) \ {Null} :
       \A i, j \in DOMAIN form :
         form[i].id = form[j].id => i = j \/ form[i].id = Null

\* Per route the vehicle of each trip, and the stops in their order.
ASSUME SeedPlanAssumption ==
  /\ IsFiniteSet(DOMAIN SeedPlan.routes)
  /\ SeedPlan.vehicles \subseteq VehicleNos
  /\ SeedPlan.stops \subseteq StopNames
  /\ DOMAIN SeedPlan.routes \subseteq RouteCodes
  /\ \A c \in DOMAIN SeedPlan.routes :
       /\ SeedPlan.routes[c].trips \in Seq(SeedPlan.vehicles)
       /\ SeedPlan.routes[c].stops \in Seq(SeedPlan.stops)

VARIABLES
  vehicle,      \* Vehicle rows of MASTER_TEMPLATE
  stop,         \* Stop rows
  route,        \* TransportRoute rows
  routeTrip,    \* RouteTrip rows by id, Null before they are made
  routeStop,    \* RouteStop rows
  schoolCopy    \* the rows of a school

named == <<vehicle, stop, route>>
nested == <<routeTrip, routeStop>>
masterRows == <<named, nested, schoolCopy>>
masterVars == <<masterRows, req>>

TripRow == [line : RouteCodes, data : TripData, live : BOOLEAN]
StopRow == [line : RouteCodes, data : StopData, live : BOOLEAN]

\* NULL is no vehicle and none of the rows.
ASSUME NoTripAssumption == Null \notin VehicleNos \cup TripRow \cup StopRow

MasterInit ==
  /\ vehicle = [v \in VehicleNos |-> "absent"]
  /\ stop = [s \in StopNames |-> "absent"]
  /\ route = [c \in RouteCodes |-> "absent"]
  /\ routeTrip = [t \in 1 .. MaxTrips |-> Null]
  /\ routeStop = [s \in 1 .. MaxStops |-> Null]
  /\ schoolCopy = [vehicles |-> {}, stops |-> {},
                   routes |-> [c \in RouteCodes |-> Null]]
  /\ HandlersInit

-----------------------------------------------------------------------------
(***************************************************************************)
(* Rows of a route                                                         *)
(***************************************************************************)
Unmade(table) == {x \in DOMAIN table : table[x] = Null}

\* The live rows of a route.
Own(table, c) ==
  {x \in DOMAIN table : /\ table[x] # Null
                        /\ table[x].line = c /\ table[x].live}

\* A table with new rows, which get ids of their own.
Added(table, rows) ==
  LET id == CHOOSE f \in [DOMAIN rows -> Unmade(table)] :
              \A j, k \in DOMAIN rows : f[j] = f[k] => j = k
  IN [x \in DOMAIN table |->
        IF table[x] = Null /\ \E k \in DOMAIN rows : id[k] = x
        THEN [line |-> rows[CHOOSE k \in DOMAIN rows : id[k] = x].line,
              data |-> rows[CHOOSE k \in DOMAIN rows : id[k] = x].data,
              live |-> TRUE]
        ELSE table[x]]

\* Bounds the rows made.
Room(table, n) == n <= Cardinality(Unmade(table))

\* What saveRouteWithTripsAndStops makes of the rows of a route when it has
\* marked those the form leaves out and worked through its first n items.
Saved(table, c, form, n) ==
  LET own == Own(table, c)
      Sent(x, m) == {i \in 1 .. m : form[i].id = x}
      new == {i \in 1 .. n : form[i].id \notin own}
      edited == [x \in DOMAIN table |->
                   CASE x \in own /\ Sent(x, Len(form)) = {} ->
                          [table[x] EXCEPT !.live = FALSE]
                     [] x \in own /\ Sent(x, n) # {} ->
                          [table[x] EXCEPT !.data =
                             form[CHOOSE i \in Sent(x, n) : TRUE].data]
                     [] OTHER -> table[x]]
  IN Added(edited, [i \in new |-> [line |-> c, data |-> form[i].data]])

\* The unique keys (routeId, stopId) and (routeId, sequence).
StopKeysHold(table) ==
  \A x, y \in {z \in DOMAIN table : table[z] # Null} :
    x # y /\ table[x].line = table[y].line =>
      /\ table[x].data[1] # table[y].data[1]
      /\ table[x].data[2] # table[y].data[2]

Items(form) == IF form = Null THEN <<>> ELSE form

\* The foreign keys of a form: a deleted row will do.
Refers(trips, stops) ==
  /\ \A i \in DOMAIN Items(trips) :
       trips[i].data # Null => vehicle[trips[i].data] # "absent"
  /\ \A i \in DOMAIN Items(stops) : stop[stops[i].data[1]] # "absent"

-----------------------------------------------------------------------------
(***************************************************************************)
(* Vehicles and stops                                                      *)
(***************************************************************************)
CreateVehicle(r, v) ==
  /\ req[r] = Idle
  /\ vehicle[v] = "absent"
  /\ vehicle' = [vehicle EXCEPT ![v] = "live"]
  /\ UNCHANGED <<stop, route, nested, schoolCopy, req>>

DeleteVehicle(r, v) ==
  /\ req[r] = Idle
  /\ vehicle[v] = "live"
  /\ vehicle' = [vehicle EXCEPT ![v] = "deleted"]
  /\ UNCHANGED <<stop, route, nested, schoolCopy, req>>

CreateStop(r, s) ==
  /\ req[r] = Idle
  /\ stop[s] = "absent"
  /\ stop' = [stop EXCEPT ![s] = "live"]
  /\ UNCHANGED <<vehicle, route, nested, schoolCopy, req>>

DeleteStop(r, s) ==
  /\ req[r] = Idle
  /\ stop[s] = "live"
  /\ stop' = [stop EXCEPT ![s] = "deleted"]
  /\ UNCHANGED <<vehicle, route, nested, schoolCopy, req>>

-----------------------------------------------------------------------------
(***************************************************************************)
(* Routes                                                                  *)
(***************************************************************************)
CreateRoute(r, c, trips, stops) ==
  LET RowsOf(form) == [i \in DOMAIN Items(form) |->
                         [line |-> c, data |-> form[i].data]]
  IN /\ req[r] = Idle
     /\ route[c] = "absent" /\ Refers(trips, stops)
     /\ Room(routeTrip, Len(Items(trips)))
     /\ Room(routeStop, Len(Items(stops)))
     /\ route' = [route EXCEPT ![c] = "live"]
     /\ routeTrip' = Added(routeTrip, RowsOf(trips))
     /\ routeStop' = Added(routeStop, RowsOf(stops))
     /\ StopKeysHold(routeStop')
     /\ UNCHANGED <<vehicle, stop, schoolCopy, req>>

\* saveRouteWithTripsAndStops looks the route up ...
SaveTripsAndStops(r, c, trips, stops) ==
  /\ req[r] = Idle
  /\ route[c] = "live"
  /\ Continue(r, [op |-> "saveRoute", route |-> c, trips |-> trips,
                  stops |-> stops])
  /\ UNCHANGED masterRows

\* ... and in the transaction, which locks the row of the route first, works
\* through what the form has: a key that is taken at any of its statements
\* rolls all of it back (MasterAbandon).
WriteRoute(r) ==
  /\ req[r].op = "saveRoute"
  /\ LET c == req[r].route
         trips == req[r].trips
         stops == req[r].stops
     IN /\ Refers(trips, stops)
        /\ Room(routeTrip, Len(Items(trips)))
        /\ Room(routeStop, Len(Items(stops)))
        /\ routeTrip' = IF trips = Null THEN routeTrip
                        ELSE Saved(routeTrip, c, trips, Len(trips))
        /\ \A n \in DOMAIN Items(stops) :
             StopKeysHold(Saved(routeStop, c, stops, n))
        /\ routeStop' = IF stops = Null THEN routeStop
                        ELSE Saved(routeStop, c, stops, Len(stops))
  /\ Reply(r)
  /\ UNCHANGED <<named, schoolCopy>>

Cleared(table, c) ==
  [x \in DOMAIN table |-> IF x \in Own(table, c)
                          THEN [table[x] EXCEPT !.live = FALSE]
                          ELSE table[x]]

\* Mutant: the trips, which allocations refer to, are left alone.
DeleteStopsOfRoute(r, c) ==
  /\ req[r] = Idle
  /\ route[c] = "live"
  /\ route' = [route EXCEPT ![c] = "deleted"]
  /\ routeStop' = Cleared(routeStop, c)
  /\ UNCHANGED <<vehicle, stop, routeTrip, schoolCopy, req>>

DeleteRoute(r, c) ==
  /\ req[r] = Idle
  /\ route[c] = "live"
  /\ route' = [route EXCEPT ![c] = "deleted"]
  /\ routeTrip' = Cleared(routeTrip, c)
  /\ routeStop' = Cleared(routeStop, c)
  /\ UNCHANGED <<vehicle, stop, schoolCopy, req>>

-----------------------------------------------------------------------------
(***************************************************************************)
(* The seed of MASTER_TEMPLATE                                             *)
(***************************************************************************)
\* What the plan lists for its routes: the route and the place in the list.
Listed(codes, list) ==
  UNION {{c} \X DOMAIN SeedPlan.routes[c][list] : c \in codes}

\* The route has the planned stop, in whatever place.
Served(rows, leg) ==
  \E x \in Own(rows, leg[1]) :
    rows[x].data[1] = SeedPlan.routes[leg[1]].stops[leg[2]]

\* The count, and the look-ups of the transaction ...
SeedTransport(r) ==
  /\ req[r] = Idle
  /\ Cardinality(LiveIn(route)) < EnoughRoutes
  /\ Continue(r, [op |-> "seedTransport",
                  vehicles |-> SeedPlan.vehicles \ LiveIn(vehicle),
                  stops |-> SeedPlan.stops \ LiveIn(stop),
                  routes |-> DOMAIN SeedPlan.routes \ LiveIn(route),
                  legs |-> {leg \in Listed(DOMAIN SeedPlan.routes, "stops") :
                              ~Served(routeStop, leg)}])
  /\ UNCHANGED masterRows

\* ... and its writes: rows for what was not found, which fail where a deleted
\* row has the key; the trips of a route come with it, the stops are completed.
WriteTransportSeed(r) ==
  /\ req[r].op = "seedTransport"
  /\ LET plan == SeedPlan.routes
         legs == req[r].legs
         trips == Listed(req[r].routes, "trips")
     IN /\ \A v \in req[r].vehicles : vehicle[v] = "absent"
        /\ \A s \in req[r].stops : stop[s] = "absent"
        /\ \A c \in req[r].routes : route[c] = "absent"
        /\ Room(routeTrip, Cardinality(trips))
        /\ Room(routeStop, Cardinality(legs))
        /\ vehicle' = [v \in VehicleNos |->
                         IF v \in req[r].vehicles THEN "live" ELSE vehicle[v]]
        /\ stop' = [s \in StopNames |->
                      IF s \in req[r].stops THEN "live" ELSE stop[s]]
        /\ route' = [c \in RouteCodes |->
                       IF c \in req[r].routes THEN "live" ELSE route[c]]
        /\ routeTrip' =
             Added(routeTrip, [leg \in trips |->
                                 [line |-> leg[1],
                                  data |-> plan[leg[1]].trips[leg[2]]]])
        /\ routeStop' =
             Added(routeStop, [leg \in legs |->
                                 [line |-> leg[1],
                                  data |-> <<plan[leg[1]].stops[leg[2]],
                                             leg[2]>>]])
        /\ StopKeysHold(routeStop')
  /\ Reply(r)
  /\ UNCHANGED schoolCopy

-----------------------------------------------------------------------------
(***************************************************************************)
(* The copy of a school                                                    *)
(***************************************************************************)
\* What a route shows, apart from the ids.
Shown(table, c) == {table[x].data : x \in Own(table, c)}

\* cloneTransportFromMaster reads what MASTER_TEMPLATE shows ...
CloneTransport(r) ==
  /\ req[r] = Idle
  /\ LiveIn(route) # {}
  /\ Continue(r, [op |-> "cloneTransport",
                  vehicles |-> LiveIn(vehicle), stops |-> LiveIn(stop),
                  routes |-> [c \in RouteCodes |->
                                IF route[c] # "live" THEN Null
                                ELSE [trips |-> Shown(routeTrip, c),
                                      stops |-> Shown(routeStop, c)]]])
  /\ UNCHANGED masterRows

\* Mutant: the stops are copied without a look at those that are shown.
MappedBlindly(seen, c) ==
  [trips |-> {IF v \in seen.vehicles THEN v ELSE Null :
                v \in seen.routes[c].trips},
   stops |-> seen.routes[c].stops]

\* Trips on a vehicle that is not shown get none, and stops that are not
\* shown are skipped.
Mapped(seen, c) ==
  [trips |-> {IF v \in seen.vehicles THEN v ELSE Null :
                v \in seen.routes[c].trips},
   stops |-> {d \in seen.routes[c].stops : d[1] \in seen.stops}]

\* ... and adds what the school has no row for.  Nothing but another clone
\* writes there: one that makes the same rows meanwhile rejects this one.
WriteClone(r) ==
  /\ req[r].op = "cloneTransport"
  /\ LET seen == req[r]
     IN schoolCopy' =
          [vehicles |-> schoolCopy.vehicles \cup seen.vehicles,
           stops |-> schoolCopy.stops \cup seen.stops,
           routes |-> [c \in RouteCodes |->
                         IF /\ seen.routes[c] # Null
                            /\ schoolCopy.routes[c] = Null
                         THEN Mapped(seen, c) ELSE schoolCopy.routes[c]]]
  /\ Reply(r)
  /\ UNCHANGED <<named, nested>>

MasterAbandon(r) == Abandon(r) /\ UNCHANGED masterRows

\* Whatever handler r may do next.
MasterHandler(r) ==
  \/ \E v \in VehicleNos : CreateVehicle(r, v) \/ DeleteVehicle(r, v)
  \/ \E s \in StopNames : CreateStop(r, s) \/ DeleteStop(r, s)
  \/ \E c \in RouteCodes :
       \/ \E trips \in TripForms, stops \in StopForms :
            \/ CreateRoute(r, c, trips, stops)
            \/ SaveTripsAndStops(r, c, trips, stops)
       \/ DeleteRoute(r, c)
  \/ WriteRoute(r)
  \/ SeedTransport(r) \/ WriteTransportSeed(r)
  \/ CloneTransport(r) \/ WriteClone(r)
  \/ MasterAbandon(r)

MasterNext == \E r \in Requests : MasterHandler(r)

MasterSpec == MasterInit /\ [][MasterNext]_masterVars

-----------------------------------------------------------------------------
RouteData == [trips : SUBSET TripData, stops : SUBSET StopData]

\* What a school has of a route is a row.
ASSUME NoRouteAssumption == Null \notin RouteData

Copied == [RouteCodes -> {Null} \cup RouteData]

MasterRequest ==
  {Idle}
    \cup [op : {"saveRoute"}, route : RouteCodes, trips : TripForms,
          stops : StopForms]
    \cup [op : {"seedTransport"}, vehicles : SUBSET VehicleNos,
          stops : SUBSET StopNames, routes : SUBSET RouteCodes,
          legs : SUBSET (RouteCodes \X Nat)]
    \cup [op : {"cloneTransport"}, vehicles : SUBSET VehicleNos,
          stops : SUBSET StopNames, routes : Copied]

MasterTypeOK ==
  /\ vehicle \in [VehicleNos -> Presence]
  /\ stop \in [StopNames -> Presence]
  /\ route \in [RouteCodes -> Presence]
  /\ routeTrip \in [1 .. MaxTrips -> {Null} \cup TripRow]
  /\ routeStop \in [1 .. MaxStops -> {Null} \cup StopRow]
  /\ schoolCopy \in [vehicles : SUBSET VehicleNos, stops : SUBSET StopNames,
                     routes : Copied]
  /\ req \in [Requests -> MasterRequest]

-----------------------------------------------------------------------------
(***************************************************************************)
(* Properties                                                              *)
(***************************************************************************)
\* The routes that handler q has found, and adds rows to, are still shown.
RoutesStand(q) ==
  /\ q.op = "saveRoute" => route[q.route] = "live"
  /\ q.op = "seedTransport" =>
       DOMAIN SeedPlan.routes \ q.routes \subseteq LiveIn(route)

RoutesAreClear ==
  \A table \in {routeTrip, routeStop} : \A x \in DOMAIN table :
    table[x] # Null /\ table[x].live => table[x].line \in LiveIn(route)

\* A trip or a stop that is shown, and may be given to a student, belongs to
\* a route that is shown, whatever saves, seeds and deletions came before.
\* Only a save or a seed whose route was deleted after it was found breaks
\* that: the transaction does not look at the route again.
RoutesStayClear ==
  \A r \in Requests :
    \/ ~RoutesStand(req[r])
    \/ /\ RoutesStand(req[r])'
       /\ RoutesAreClear => RoutesAreClear'
    \/ ~MasterHandler(r)

\* A table shows what the form has for the route, on the rows it had.
Shows(before, after, c, form) ==
  form # Null =>
    /\ Shown(after, c) = {form[i].data : i \in DOMAIN form}
    /\ \A i \in DOMAIN form :
         form[i].id \in Own(before, c) => form[i].id \in Own(after, c)

\* What a seed or a clone has read is still so.
ReadStands(q) ==
  /\ q.op = "seedTransport" =>
       /\ SeedPlan.vehicles \ q.vehicles \subseteq LiveIn(vehicle)
       /\ SeedPlan.stops \ q.stops \subseteq LiveIn(stop)
       /\ DOMAIN SeedPlan.routes \ q.routes \subseteq LiveIn(route)
       /\ \A leg \in Listed(DOMAIN SeedPlan.routes, "stops") \ q.legs :
            Served(routeStop, leg)
  /\ q.op = "cloneTransport" =>
       /\ q.vehicles = LiveIn(vehicle) /\ q.stops = LiveIn(stop)
       /\ \A c \in LiveIn(route) :
            q.routes[c] = [trips |-> Shown(routeTrip, c),
                           stops |-> Shown(routeStop, c)]

SeededWhole ==
  /\ SeedPlan.vehicles \subseteq LiveIn(vehicle')
  /\ SeedPlan.stops \subseteq LiveIn(stop')
  /\ \A c \in DOMAIN SeedPlan.routes :
       /\ route'[c] = "live"
       /\ \A i \in DOMAIN SeedPlan.routes[c].stops :
            Served(routeStop', <<c, i>>)

\* A school has each stop and each vehicle of a route on rows of its own, all
\* but those deleted under the route.
ClonedWhole ==
  \A c \in LiveIn(route) :
    LET copy == schoolCopy'.routes[c]
    IN IF schoolCopy.routes[c] # Null
       THEN copy = schoolCopy.routes[c]
       ELSE /\ {d[1] : d \in copy.stops} =
                 {d[1] : d \in Shown(routeStop, c)} \cap LiveIn(stop)
            /\ copy.trips \ {Null} = Shown(routeTrip, c) \cap LiveIn(vehicle)
            /\ copy.trips \ {Null} \subseteq schoolCopy'.vehicles
            /\ {d[1] : d \in copy.stops} \subseteq schoolCopy'.stops

\* A route that is saved shows just the trips and stops of the form, and a
\* row of the form that it had keeps its id, which allocations refer to,
\* whoever wrote to the route since it was read.  A seed that changes anything
\* leaves the whole plan shown, and a clone gives the school every route that
\* is shown and leaves the routes the school had as they were, unless what
\* they have read was changed before they write.
RouteWritesAreWhole ==
  \A r \in Requests :
    \/ /\ WriteRoute(r) =>
            /\ Shows(routeTrip, routeTrip', req[r].route, req[r].trips)
            /\ Shows(routeStop, routeStop', req[r].route, req[r].stops)
       /\ ReadStands(req[r]) =>
            /\ ReadStands(req[r])'
            /\ WriteTransportSeed(r) /\ named' # named => SeededWhole
            /\ WriteClone(r) => ClonedWhole
    \/ ~MasterHandler(r)

\* A vehicle, a stop, a route or a row of a route that was deleted is not
\* shown again, and what a school has copied it keeps.
RoutesStayDeleted ==
  [][/\ \A v \in VehicleNos :
          vehicle[v] = "deleted" => vehicle'[v] = "deleted"
     /\ \A s \in StopNames : stop[s] = "deleted" => stop'[s] = "deleted"
     /\ \A c \in RouteCodes :
          /\ route[c] = "deleted" => route'[c] = "deleted"
          /\ schoolCopy.routes[c] # Null =>
               schoolCopy'.routes[c] = schoolCopy.routes[c]
     /\ \A t \in 1 .. MaxTrips :
          routeTrip[t] # Null /\ ~routeTrip[t].live =>
            routeTrip'[t] = routeTrip[t]
     /\ \A s \in 1 .. MaxStops :
          routeStop[s] # Null /\ ~routeStop[s].live =>
            routeStop'[s] = routeStop[s]]_masterVars
=============================================================================
