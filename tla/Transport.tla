----------------------------- MODULE Transport ------------------------------
(***************************************************************************)
(* Seats on the school's vehicles: the trips a vehicle runs                *)
(* (transport.service.ts) and the allocation of students to a pickup and a *)
(* drop trip (transport-allocation.service.ts).                            *)
(*                                                                         *)
(* Abstracted: a student together with an academic year is a Rider; routes *)
(* and stops, which no check reads, are in RouteMaster.  A removed trip or *)
(* vehicle only gets softDelete set, which the capacity check does not     *)
(* look at, so removal changes nothing here.                               *)
(*                                                                         *)
(* Only in MASTER_TEMPLATE, whose administrator allocates with the same    *)
(* handlers, is the fleet edited: a school, which has no such endpoints,   *)
(* behaves as this does without UpdateVehicle and SaveRoute.               *)
(***************************************************************************)
EXTENDS Handlers, Sequences

CONSTANTS
  Riders,       \* a student in an academic year
  Trips,
  Vehicles,
  Capacities,   \* seats a vehicle may be given
  Allocations,  \* ids of TransportAllocation rows: bounds how many are made
  ActiveEdits   \* the isActive fields an update may carry, Null included

ASSUME CapacitiesAssumption == Capacities \subseteq Nat
ASSUME ActiveEditsAssumption == ActiveEdits \subseteq BOOLEAN \cup {Null}

VARIABLES
  capacity,     \* Vehicle.capacity
  trip,         \* RouteTrip.vehicleId, Null when none is assigned
  allocation    \* TransportAllocation rows, Null before they are made

fleet == <<capacity, trip>>
transportVars == <<fleet, allocation, req>>

AllocationRow == [rider : Riders, pickup : Trips, drop : Trips,
                  isActive : BOOLEAN]

ASSUME NoRowAssumption == Null \notin AllocationRow \cup Trips

\* createAllocation and updateAllocation, with the trips they have still to
\* validate: about to read the first of them, to count its seats or to write.
CreateReq == [op : {"create"}, at : {"trip", "count", "write"},
              row : AllocationRow, checks : Seq(Trips),
              seats : Capacities \cup {Null}]
UpdateReq == [op : {"update"}, at : {"trip", "count", "write"},
              id : Allocations, pickup : Trips \cup {Null},
              drop : Trips \cup {Null}, isActive : ActiveEdits,
              checks : Seq(Trips), seats : Capacities \cup {Null}]

TransportRequest == {Idle} \cup CreateReq \cup UpdateReq

TransportInit ==
  /\ capacity \in [Vehicles -> Capacities]
  /\ trip \in [Trips -> Vehicles \cup {Null}]
  /\ allocation = [a \in Allocations |-> Null]
  /\ HandlersInit

Existing == {a \in Allocations : allocation[a] # Null}

ActiveOf(rider) ==
  {a \in Existing : allocation[a].isActive /\ allocation[a].rider = rider}

\* The allocations that take a seat on trip t.
Seated(t) ==
  {a \in Existing : /\ allocation[a].isActive
                    /\ t \in {allocation[a].pickup, allocation[a].drop}}

-----------------------------------------------------------------------------
(***************************************************************************)
(* TransportService                                                        *)
(***************************************************************************)
UpdateVehicle(r, v, seats) ==
  /\ req[r] = Idle
  /\ capacity' = [capacity EXCEPT ![v] = seats]
  /\ UNCHANGED <<trip, allocation, req>>

\* saveRouteWithTripsAndStops assigns another vehicle, or none, to a trip.
SaveRoute(r, t, v) ==
  /\ req[r] = Idle
  /\ trip' = [trip EXCEPT ![t] = v]
  /\ UNCHANGED <<capacity, allocation, req>>

-----------------------------------------------------------------------------
(***************************************************************************)
(* TransportAllocationService                                              *)
(***************************************************************************)
Stage(checks) == IF checks = <<>> THEN "write" ELSE "trip"

\* Mutant: nobody looks for an active allocation of the rider.
CreateUnchecked(r, rider, pickup, drop) ==
  LET checks == IF drop = pickup THEN <<pickup>> ELSE <<pickup, drop>>
  IN /\ req[r] = Idle
     /\ Continue(r, [op |-> "create", at |-> "trip",
                     row |-> [rider |-> rider, pickup |-> pickup,
                              drop |-> drop, isActive |-> TRUE],
                     checks |-> checks, seats |-> Null])
     /\ UNCHANGED <<fleet, allocation>>

CreateAllocation(r, rider, pickup, drop) ==
  LET checks == IF drop = pickup THEN <<pickup>> ELSE <<pickup, drop>>
  IN /\ req[r] = Idle
     /\ ActiveOf(rider) = {}
     /\ Continue(r, [op |-> "create", at |-> "trip",
                     row |-> [rider |-> rider, pickup |-> pickup,
                              drop |-> drop, isActive |-> TRUE],
                     checks |-> checks, seats |-> Null])
     /\ UNCHANGED <<fleet, allocation>>

\* A trip is validated when the request names one that differs from the
\* stored one; the drop trip is spared when it is the pickup trip given.
TripChecks(row, pickup, drop) ==
  LET Changes(new, old) == new # Null /\ new # old
  IN (IF Changes(pickup, row.pickup) THEN <<pickup>> ELSE <<>>)
       \o (IF /\ Changes(drop, row.drop)
              /\ drop # Given(pickup, row.pickup) \/ pickup = Null
           THEN <<drop>> ELSE <<>>)

UpdateAllocation(r, a, pickup, drop, isActive) ==
  /\ req[r] = Idle
  /\ a \in Existing
  /\ LET checks == TripChecks(allocation[a], pickup, drop)
     IN Continue(r, [op |-> "update", at |-> Stage(checks), id |-> a,
                     pickup |-> pickup, drop |-> drop,
                     isActive |-> isActive, checks |-> checks,
                     seats |-> Null])
  /\ UNCHANGED <<fleet, allocation>>

\* validateTripCapacity: the trip needs a vehicle, whose capacity is read.
ReadTrip(r) ==
  /\ req[r].op # "idle" /\ req[r].at = "trip"
  /\ LET v == trip[Head(req[r].checks)]
     IN IF v = Null
        THEN Reply(r)
        ELSE Continue(r, [req[r] EXCEPT !.at = "count",
                                        !.seats = capacity[v]])
  /\ UNCHANGED <<fleet, allocation>>

Excluded(state) == IF state.op = "update" THEN {state.id} ELSE {}

\* Mutant: the count may reach the capacity before a seat is refused.
CountOneMore(r) ==
  /\ req[r].op # "idle" /\ req[r].at = "count"
  /\ LET rest == Tail(req[r].checks)
         taken == Seated(Head(req[r].checks)) \ Excluded(req[r])
     IN IF Cardinality(taken) > req[r].seats
        THEN Reply(r)
        ELSE Continue(r, [req[r] EXCEPT !.at = Stage(rest),
                                        !.checks = rest, !.seats = Null])
  /\ UNCHANGED <<fleet, allocation>>

\* ... and counts the allocations on the trip, the updated one excepted.
CountSeats(r) ==
  /\ req[r].op # "idle" /\ req[r].at = "count"
  /\ LET rest == Tail(req[r].checks)
         taken == Seated(Head(req[r].checks)) \ Excluded(req[r])
     IN IF Cardinality(taken) >= req[r].seats
        THEN Reply(r)
        ELSE Continue(r, [req[r] EXCEPT !.at = Stage(rest),
                                        !.checks = rest, !.seats = Null])
  /\ UNCHANGED <<fleet, allocation>>

InsertAllocation(r, a) ==
  /\ req[r].op = "create" /\ req[r].at = "write"
  /\ a \notin Existing
  /\ allocation' = [allocation EXCEPT ![a] = req[r].row]
  /\ Reply(r)
  /\ UNCHANGED fleet

WriteAllocation(r) ==
  /\ req[r].op = "update" /\ req[r].at = "write"
  /\ allocation' = [allocation EXCEPT ![req[r].id] =
                      [rider |-> @.rider,
                       pickup |-> Given(req[r].pickup, @.pickup),
                       drop |-> Given(req[r].drop, @.drop),
                       isActive |-> Given(req[r].isActive, @.isActive)]]
  /\ Reply(r)
  /\ UNCHANGED fleet

RevokeAllocation(r, a) ==
  /\ req[r] = Idle
  /\ a \in Existing
  /\ allocation' = [allocation EXCEPT ![a].isActive = FALSE]
  /\ UNCHANGED <<fleet, req>>

TransportAbandon(r) == Abandon(r) /\ UNCHANGED <<fleet, allocation>>

\* Whatever handler r may do next.
TransportHandler(r) ==
  \/ \E v \in Vehicles, seats \in Capacities : UpdateVehicle(r, v, seats)
  \/ \E t \in Trips, v \in Vehicles \cup {Null} : SaveRoute(r, t, v)
  \/ \E rider \in Riders, p \in Trips, d \in Trips :
       CreateAllocation(r, rider, p, d)
  \/ \E a \in Allocations, p \in Trips \cup {Null},
        d \in Trips \cup {Null}, isActive \in ActiveEdits :
       UpdateAllocation(r, a, p, d, isActive)
  \/ ReadTrip(r)
  \/ CountSeats(r)
  \/ \E a \in Allocations : InsertAllocation(r, a)
  \/ WriteAllocation(r)
  \/ \E a \in Allocations : RevokeAllocation(r, a)
  \/ TransportAbandon(r)

TransportNext == \E r \in Requests : TransportHandler(r)

TransportSpec == TransportInit /\ [][TransportNext]_transportVars

-----------------------------------------------------------------------------
TransportTypeOK ==
  /\ capacity \in [Vehicles -> Capacities]
  /\ trip \in [Trips -> Vehicles \cup {Null}]
  /\ allocation \in [Allocations -> AllocationRow \cup {Null}]
  /\ req \in [Requests -> TransportRequest]

-----------------------------------------------------------------------------
(***************************************************************************)
(* Properties                                                              *)
(***************************************************************************)
Reactivated(a) ==
  /\ a \in Existing
  /\ ~allocation[a].isActive
  /\ allocation'[a].isActive

\* The trips a handler has still to check.
Left(checks) == {checks[i] : i \in DOMAIN checks}

\* A seat of t is free for the allocation that q makes or updates.
SeatFree(q, t) ==
  /\ trip[t] # Null
  /\ Cardinality(Seated(t) \ Excluded(q)) < capacity[trip[t]]

\* What handler q has found of the rider and of the trips it has checked, or
\* is about to count the seats of, is still so.
SeatsStand(q) ==
  /\ q.op = "create" =>
       /\ ActiveOf(q.row.rider) = {}
       /\ \A t \in {q.row.pickup, q.row.drop} \ Left(q.checks) : SeatFree(q, t)
  /\ q.op = "update" =>
       \A t \in {q.pickup, q.drop} \ (Left(q.checks) \cup {Null}) :
         \/ t \in {allocation[q.id].pickup, allocation[q.id].drop}
         \/ SeatFree(q, t)
  /\ q # Idle /\ q.at = "count" =>
       /\ trip[Head(q.checks)] # Null
       /\ q.seats = capacity[trip[Head(q.checks)]]

\* A trip gains a rider only while a seat of its vehicle is free, and a rider
\* gains an allocation only while it has no active one, unless the handler was
\* overtaken between its checks and its write: by another allocation, or by
\* an edit of the trip or the vehicle.  The step of updateAllocation that sets
\* isActive again is excepted: it checks neither (see OneAllocationPerRider).
AllocationsAreChecked ==
  \A r \in Requests :
    \/ ~SeatsStand(req[r])
    \/ /\ SeatsStand(req[r])'
       /\ (\A a \in Allocations : ~Reactivated(a)) =>
            /\ \A t \in Trips : Seated(t)' \subseteq Seated(t)
                 \/ /\ trip[t] # Null
                    /\ Cardinality(Seated(t)') <= capacity[trip[t]]
            /\ \A rider \in Riders : ActiveOf(rider)' \subseteq ActiveOf(rider)
                 \/ Cardinality(ActiveOf(rider)') = 1
    \/ ~TransportHandler(r)

\* Overlapping handlers may each count before the others insert, so a trip
\* can be oversold, but only by one seat for each other handler: whatever
\* the capacities are edited to, a trip never holds more riders than the
\* largest capacity and those seats.  Only while no allocation is activated
\* again, which no handler counts.
OversoldByOverlapOnly ==
  TRUE \notin ActiveEdits =>
    \A t \in Trips : \E most \in Capacities :
      Cardinality(Seated(t)) <= most + Cardinality(Requests) - 1

\* The rule createAllocation states at transport-allocation.service.ts:115:
\* only one active allocation per student per academic year.
OneAllocationPerRider ==
  \A rider \in Riders : Cardinality(ActiveOf(rider)) <= 1
=============================================================================
