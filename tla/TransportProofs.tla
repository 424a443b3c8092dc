--------------------------- MODULE TransportProofs --------------------------
(***************************************************************************)
(* Proofs about Transport: how far overlapping handlers can oversell a     *)
(* trip, for any number of riders, trips, vehicles and handlers; and that  *)
(* a handler which runs alone finds the seats it has checked.              *)
(***************************************************************************)
EXTENDS Transport, FiniteSetTheorems, SequenceTheorems, TLAPS

-----------------------------------------------------------------------------
(***************************************************************************)
(* A handler has committed to a trip it names once it has no check of the  *)
(* trip left: nothing but its end keeps it from writing the trip.  A seat  *)
(* is claimed by an active allocation that is on the trip, or that an      *)
(* update has committed to put there; a creation that has committed claims *)
(* one of its own.  A check of the trip sees the seats that are taken, and *)
(* every other handler may have committed before them.                     *)
(***************************************************************************)
Creates(r, t) ==
  /\ req[r].op = "create"
  /\ t \in {req[r].row.pickup, req[r].row.drop} \ Left(req[r].checks)

Updates(r, t) ==
  /\ req[r].op = "update"
  /\ t \in {req[r].pickup, req[r].drop} \ Left(req[r].checks)

Creating(t) == {r \in Requests : Creates(r, t)}
Updating(t) == {r \in Requests : Updates(r, t)}

Active == {a \in Existing : allocation[a].isActive}

Claimed(t) == Seated(t) \cup {a \in Active :
                                \E r \in Updating(t) : req[r].id = a}

SeatsBounded ==
  \A t \in Trips : \E most \in Capacities :
    Cardinality(Claimed(t)) + Cardinality(Creating(t))
      <= most + Cardinality(Requests) - 1

\* What a handler found exists, and it writes when no check is left.
InOrder(r) ==
  req[r].op \in {"create", "update"} =>
    /\ req[r].at = "write" <=> req[r].checks = <<>>
    /\ req[r].at = "count" => req[r].seats \in Capacities
    /\ req[r].op = "update" => req[r].id \in Existing
    /\ req[r].op = "create" => req[r].row.isActive

SeatsInv ==
  /\ TransportTypeOK
  /\ \A r \in Requests : InOrder(r)
  /\ SeatsBounded

-----------------------------------------------------------------------------
(***************************************************************************)
(* Counting.                                                               *)
(***************************************************************************)
LEMMA ImageBound ==
  ASSUME NEW W, IsFiniteSet(W), NEW f
  PROVE  /\ IsFiniteSet({f[q] : q \in W})
         /\ Cardinality({f[q] : q \in W}) <= Cardinality(W)
<1> DEFINE T == {f[q] : q \in W}
           g == [q \in W |-> f[q]]
<1>1. g \in Surjection(W, T)
  BY DEF Surjection
<1> QED
  BY <1>1, FS_Surjection

\* A check found fewer than seats taken: the claims of all the handlers
\* together, those in W of an allocation each and those in C of a new one,
\* exceed the seats by less than the handlers there are.
LEMMA OneSeatEach ==
  ASSUME NEW R, IsFiniteSet(R), NEW W \in SUBSET R, NEW C \in SUBSET R,
         W \cap C = {},
         NEW taken, IsFiniteSet(taken), NEW seats \in Nat,
         Cardinality(taken) < seats,
         NEW f, NEW claimed \in SUBSET (taken \cup {f[q] : q \in W})
  PROVE  Cardinality(claimed) + Cardinality(C)
           <= seats + Cardinality(R) - 1
<1> DEFINE ids == {f[q] : q \in W}
<1>1. /\ IsFiniteSet(W) /\ IsFiniteSet(C)
      /\ Cardinality(W) \in Nat /\ Cardinality(C) \in Nat
      /\ Cardinality(R) \in Nat /\ Cardinality(taken) \in Nat
  BY FS_Subset, FS_CardinalityType
<1>2. Cardinality(W) + Cardinality(C) <= Cardinality(R)
  <2>1. /\ IsFiniteSet(W \cup C)
        /\ Cardinality(W \cup C) =
             Cardinality(W) + Cardinality(C) - Cardinality(W \cap C)
    BY <1>1, FS_Union
  <2>2. Cardinality(W \cap C) = 0
    BY FS_EmptySet
  <2>3. Cardinality(W \cup C) <= Cardinality(R)
    BY FS_Subset
  <2> QED
    BY <1>1, <2>1, <2>2, <2>3
<1>3. /\ IsFiniteSet(ids) /\ Cardinality(ids) <= Cardinality(W)
      /\ Cardinality(ids) \in Nat
  BY <1>1, ImageBound, FS_CardinalityType
<1>4. Cardinality(claimed) <= Cardinality(taken) + Cardinality(ids)
  <2> HIDE DEF ids
  <2>1. /\ IsFiniteSet(taken \cup ids)
        /\ Cardinality(taken \cup ids) =
             Cardinality(taken) + Cardinality(ids)
               - Cardinality(taken \cap ids)
    BY <1>3, FS_Union
  <2>2. Cardinality(taken \cap ids) \in Nat
    <3>1. IsFiniteSet(taken \cap ids)
      BY FS_Subset
    <3> QED
      BY <3>1, FS_CardinalityType
  <2>3. claimed \in SUBSET (taken \cup ids)
    BY DEF ids
  <2>4. /\ Cardinality(claimed) <= Cardinality(taken \cup ids)
        /\ Cardinality(claimed) \in Nat
    BY <2>1, <2>3, FS_Subset, FS_CardinalityType
  <2> QED
    BY <1>1, <1>3, <2>1, <2>2, <2>4
<1>5. Cardinality(claimed) \in Nat
  <2>1. IsFiniteSet(taken \cup ids)
    BY <1>3, FS_Union
  <2>2. IsFiniteSet(claimed)
    BY <2>1, FS_Subset
  <2> QED
    BY <2>2, FS_CardinalityType
<1> QED
  BY <1>1, <1>2, <1>3, <1>4, <1>5

-----------------------------------------------------------------------------
(***************************************************************************)
(* The checks that are left, and the handlers that hold them.              *)
(***************************************************************************)
LEMMA LeftFacts ==
  /\ Left(<<>>) = {}
  /\ \A t : Left(<<t>>) = {t}
  /\ \A t, u : Left(<<t, u>>) = {t, u}
  /\ \A s \in Seq(Trips) : s # <<>> =>
       /\ Head(s) \in Trips /\ Tail(s) \in Seq(Trips)
       /\ Left(s) = {Head(s)} \cup Left(Tail(s))
<1>1. Left(<<>>) = {}
  BY DEF Left
<1>2. \A t : Left(<<t>>) = {t}
  BY DEF Left
<1>3. \A t, u : Left(<<t, u>>) = {t, u}
  BY DEF Left
<1>4. ASSUME NEW s \in Seq(Trips), s # <<>>
      PROVE  /\ Head(s) \in Trips /\ Tail(s) \in Seq(Trips)
             /\ Left(s) = {Head(s)} \cup Left(Tail(s))
  <2>1. /\ Head(s) \in Trips /\ Tail(s) \in Seq(Trips)
        /\ Len(Tail(s)) = Len(s) - 1 /\ Len(s) \in Nat /\ Len(s) # 0
        /\ \A i \in 1 .. Len(Tail(s)) : Tail(s)[i] = s[i + 1]
    BY <1>4, HeadTailProperties, EmptySeq
  <2>2. DOMAIN s = 1 .. Len(s) /\ DOMAIN Tail(s) = 1 .. Len(s) - 1
    BY <2>1, LenProperties
  <2>3. Head(s) = s[1]
    BY <1>4
  <2>4. ASSUME NEW i \in 1 .. Len(s), i # 1
        PROVE  i - 1 \in 1 .. Len(s) - 1 /\ Tail(s)[i - 1] = s[i]
    BY <2>1, <2>4
  <2>5. Left(s) \subseteq {Head(s)} \cup Left(Tail(s))
    BY <2>2, <2>3, <2>4 DEF Left
  <2>6. {Head(s)} \cup Left(Tail(s)) \subseteq Left(s)
    BY <2>1, <2>2, <2>3 DEF Left
  <2> QED
    BY <2>1, <2>5, <2>6
<1> QED
  BY <1>1, <1>2, <1>3, <1>4

LEMMA TransportFields ==
  ASSUME TransportTypeOK, NEW r \in Requests
  PROVE  /\ req[r].op = "create" => req[r] \in CreateReq
         /\ req[r].op = "update" => req[r] \in UpdateReq
         /\ req[r].op \in {"create", "update"} =>
              /\ req[r].checks \in Seq(Trips)
              /\ req[r].at \in {"trip", "count", "write"}
              /\ req[r].seats \in Capacities \cup {Null}
         /\ req[r].op = "create" => req[r].row \in AllocationRow
         /\ req[r].op = "update" =>
              /\ req[r].id \in Allocations
              /\ req[r].pickup \in Trips \cup {Null}
              /\ req[r].drop \in Trips \cup {Null}
              /\ req[r].isActive \in ActiveEdits
         /\ req[r].op \in {"idle", "create", "update"}
<1>1. req[r] \in TransportRequest
  BY DEF TransportTypeOK
<1>2. CASE req[r].op = "create"
  <2>1. req[r] \in CreateReq
    BY <1>1, <1>2 DEF TransportRequest, CreateReq, UpdateReq, Idle
  <2> QED
    BY <1>2, <2>1 DEF CreateReq
<1>3. CASE req[r].op = "update"
  <2>1. req[r] \in UpdateReq
    BY <1>1, <1>3 DEF TransportRequest, CreateReq, UpdateReq, Idle
  <2> QED
    BY <1>3, <2>1 DEF UpdateReq
<1>4. CASE req[r].op \notin {"create", "update"}
  BY <1>1, <1>4 DEF TransportRequest, CreateReq, UpdateReq, Idle
<1> QED
  BY <1>2, <1>3, <1>4

GoesOn(state, at, checks, seats) ==
  [state EXCEPT !.at = at, !.checks = checks, !.seats = seats]

\* A handler that goes on keeps what it was asked.
StepsTo(state, c, at, checks, seats) ==
  /\ c \in TransportRequest /\ c.op = state.op
  /\ c.at = at /\ c.checks = checks /\ c.seats = seats
  /\ c.op = "create" => c.row = state.row
  /\ c.op = "update" => /\ c.id = state.id
                        /\ c.pickup = state.pickup
                        /\ c.drop = state.drop

LEMMA Advances ==
  ASSUME TransportTypeOK, NEW r \in Requests,
         req[r].op \in {"create", "update"},
         NEW at \in {"trip", "count", "write"}, NEW checks \in Seq(Trips),
         NEW seats \in Capacities \cup {Null}, NEW c,
         c = GoesOn(req[r], at, checks, seats)
  PROVE  StepsTo(req[r], c, at, checks, seats)
<1> USE DEF StepsTo
<1>1. CASE req[r].op = "create"
  <2>1. req[r] \in CreateReq
    BY <1>1, TransportFields
  <2> QED
    BY <1>1, <2>1 DEF CreateReq, TransportRequest, GoesOn
<1>2. CASE req[r].op = "update"
  <2>1. req[r] \in UpdateReq
    BY <1>2, TransportFields
  <2> QED
    BY <1>2, <2>1 DEF UpdateReq, TransportRequest, GoesOn
<1> QED
  BY <1>1, <1>2

LEMMA LeftConcat ==
  ASSUME NEW s1 \in Seq(Trips), NEW s2 \in Seq(Trips)
  PROVE  /\ s1 \o s2 \in Seq(Trips)
         /\ Left(s1) \cup Left(s2) \subseteq Left(s1 \o s2)
<1>1. /\ s1 \o s2 \in Seq(Trips)
      /\ Len(s1 \o s2) = Len(s1) + Len(s2)
      /\ Len(s1) \in Nat /\ Len(s2) \in Nat
      /\ \A i \in 1 .. Len(s1) + Len(s2) : (s1 \o s2)[i] =
           IF i <= Len(s1) THEN s1[i] ELSE s2[i - Len(s1)]
  BY ConcatProperties, LenProperties
<1>2. /\ DOMAIN s1 = 1 .. Len(s1) /\ DOMAIN s2 = 1 .. Len(s2)
      /\ DOMAIN (s1 \o s2) = 1 .. Len(s1) + Len(s2)
  BY <1>1, LenProperties
<1>3. ASSUME NEW i \in DOMAIN s1
      PROVE  s1[i] \in Left(s1 \o s2)
  <2>1. i \in DOMAIN (s1 \o s2) /\ (s1 \o s2)[i] = s1[i]
    BY <1>1, <1>2
  <2> QED
    BY <2>1 DEF Left
<1>4. ASSUME NEW i \in DOMAIN s2
      PROVE  s2[i] \in Left(s1 \o s2)
  <2> DEFINE j == i + Len(s1)
  <2>1. /\ j \in 1 .. Len(s1) + Len(s2) /\ ~(j <= Len(s1))
        /\ j - Len(s1) = i
    BY <1>1, <1>2
  <2>2. j \in DOMAIN (s1 \o s2) /\ (s1 \o s2)[j] = s2[i]
    BY <1>1, <1>2, <2>1
  <2> QED
    BY <2>2 DEF Left
<1> QED
  BY <1>1, <1>3, <1>4 DEF Left

\* What updateAllocation does not validate is where the allocation is.
LEMMA ChecksFacts ==
  ASSUME NEW row \in AllocationRow, NEW pickup \in Trips \cup {Null},
         NEW drop \in Trips \cup {Null}
  PROVE  /\ TripChecks(row, pickup, drop) \in Seq(Trips)
         /\ \A t \in {pickup, drop} \ Left(TripChecks(row, pickup, drop)) :
              t = Null \/ t \in {row.pickup, row.drop}
<1> DEFINE Changes(new, old) == new # Null /\ new # old
           first == IF Changes(pickup, row.pickup) THEN <<pickup>> ELSE <<>>
           second == IF /\ Changes(drop, row.drop)
                        /\ drop # Given(pickup, row.pickup) \/ pickup = Null
                     THEN <<drop>> ELSE <<>>
<1>1. TripChecks(row, pickup, drop) = first \o second
  BY DEF TripChecks
<1>2. first \in Seq(Trips) /\ second \in Seq(Trips)
  OBVIOUS
<1>3. \/ pickup = Null \/ pickup = row.pickup \/ pickup \in Left(first)
  BY LeftFacts
<1>4. \/ drop = Null \/ drop = row.drop
      \/ drop = row.pickup \/ drop = pickup \/ drop \in Left(second)
  BY LeftFacts DEF Given
<1> HIDE DEF first, second
<1> QED
  BY <1>1, <1>2, <1>3, <1>4, LeftConcat

-----------------------------------------------------------------------------
(***************************************************************************)
(* How the claims move.                                                    *)
(***************************************************************************)
SeatsAssumptions ==
  /\ IsFiniteSet(Requests) /\ Requests # {}
  /\ IsFiniteSet(Allocations)
  /\ Capacities # {}
  /\ TRUE \notin ActiveEdits

LEMMA ClaimSizes ==
  ASSUME SeatsAssumptions, NEW t
  PROVE  /\ IsFiniteSet(Claimed(t)) /\ Cardinality(Claimed(t)) \in Nat
         /\ IsFiniteSet(Creating(t)) /\ Cardinality(Creating(t)) \in Nat
         /\ IsFiniteSet(Seated(t)) /\ Cardinality(Requests) \in Nat
<1>1. /\ Claimed(t) \in SUBSET Allocations
      /\ Creating(t) \in SUBSET Requests
      /\ Seated(t) \in SUBSET Allocations
  BY DEF Claimed, Seated, Active, Existing, Creating
<1> QED
  BY <1>1, FS_Subset, FS_CardinalityType DEF SeatsAssumptions

LEMMA ClaimSizesNext ==
  ASSUME SeatsAssumptions, NEW t
  PROVE  /\ IsFiniteSet(Claimed(t)') /\ Cardinality(Claimed(t)') \in Nat
         /\ IsFiniteSet(Creating(t)') /\ Cardinality(Creating(t)') \in Nat
<1>1. /\ Claimed(t)' \in SUBSET Allocations
      /\ Creating(t)' \in SUBSET Requests
  BY DEF Claimed, Seated, Active, Existing, Creating
<1> QED
  BY <1>1, FS_Subset, FS_CardinalityType DEF SeatsAssumptions

Shrinks(t) == /\ Claimed(t)' \subseteq Claimed(t)
              /\ Creating(t)' \subseteq Creating(t)

BoundedAt(t) == \E most \in Capacities :
                  Cardinality(Claimed(t)) + Cardinality(Creating(t))
                    <= most + Cardinality(Requests) - 1

LEMMA ShrinkingIsBounded ==
  ASSUME SeatsAssumptions, NEW t \in Trips, BoundedAt(t), Shrinks(t)
  PROVE  BoundedAt(t)'
<1>1. /\ Cardinality(Claimed(t)') <= Cardinality(Claimed(t))
      /\ Cardinality(Creating(t)') <= Cardinality(Creating(t))
  BY ClaimSizes, FS_Subset DEF Shrinks
<1> PICK most \in Capacities :
      Cardinality(Claimed(t)) + Cardinality(Creating(t))
        <= most + Cardinality(Requests) - 1
  BY DEF BoundedAt
<1>2. /\ Cardinality(Claimed(t)') + Cardinality(Creating(t)')
           <= Cardinality(Claimed(t)) + Cardinality(Creating(t))
      /\ Cardinality(Claimed(t)') + Cardinality(Creating(t)') \in Int
      /\ Cardinality(Claimed(t)) + Cardinality(Creating(t)) \in Int
      /\ most + Cardinality(Requests) - 1 \in Int
  BY <1>1, ClaimSizes, ClaimSizesNext, CapacitiesAssumption
<1>3. Cardinality(Claimed(t)') + Cardinality(Creating(t)')
        <= most + Cardinality(Requests) - 1
  BY <1>2
<1> QED
  BY <1>3 DEF BoundedAt

\* One handler goes on; the rows are as they were.
LEMMA WaitingShrinks ==
  ASSUME UNCHANGED allocation, NEW r \in Requests, NEW t \in Trips,
         \A q \in Requests \ {r} : req'[q] = req[q],
         Creates(r, t)' => Creates(r, t),
         Updates(r, t)' => \/ Updates(r, t) /\ req'[r].id = req[r].id
                           \/ req'[r].id \in Active => req'[r].id \in Seated(t)
  PROVE  Shrinks(t)
<1>1. Seated(t)' = Seated(t) /\ Active' = Active
  BY DEF Seated, Active, Existing
<1>2. \A q \in Requests \ {r} : /\ Creates(q, t)' <=> Creates(q, t)
                                /\ Updates(q, t)' <=> Updates(q, t)
  BY DEF Creates, Updates
<1>3. Creating(t)' \subseteq Creating(t)
  BY <1>2 DEF Creating
<1>4. Claimed(t)' \subseteq Claimed(t)
  <2> SUFFICES ASSUME NEW a \in Active', NEW q \in Updating(t)',
                      req'[q].id = a
               PROVE  a \in Claimed(t)
    BY <1>1 DEF Claimed
  <2>1. CASE q = r
    BY <1>1, <2>1 DEF Updating, Claimed
  <2>2. CASE q # r
    BY <1>1, <1>2, <2>2 DEF Updating, Claimed
  <2> QED
    BY <2>1, <2>2
<1> QED
  BY <1>3, <1>4 DEF Shrinks

LEMMA EndingShrinks ==
  ASSUME TransportTypeOK, UNCHANGED allocation, NEW r \in Requests, Reply(r),
         NEW t \in Trips
  PROVE  Shrinks(t)
<1>1. req'[r] = Idle /\ \A q \in Requests \ {r} : req'[q] = req[q]
  BY DEF TransportTypeOK, Reply, Continue
<1>2. ~Creates(r, t)' /\ ~Updates(r, t)'
  BY <1>1 DEF Creates, Updates, Idle
<1> QED
  BY <1>1, <1>2, WaitingShrinks

-----------------------------------------------------------------------------
(***************************************************************************)
(* The steps.                                                              *)
(***************************************************************************)
\* What is left to show of a step of r.
LEMMA StepKeeps ==
  ASSUME SeatsInv, NEW r \in Requests, TransportTypeOK', InOrder(r)',
         \A q \in Requests \ {r} : req'[q] = req[q],
         Existing \subseteq Existing',
         \A t \in Trips : BoundedAt(t)'
  PROVE  SeatsInv'
<1>1. \A q \in Requests \ {r} : InOrder(q)'
  BY DEF SeatsInv, InOrder
<1> QED
  BY <1>1 DEF SeatsInv, SeatsBounded, BoundedAt

LEMMA RowWaits ==
  ASSUME SeatsInv, SeatsAssumptions, NEW r \in Requests,
         UNCHANGED <<fleet, allocation>>,
         NEW c \in TransportRequest, req' = [req EXCEPT ![r] = c],
         InOrder(r)', \A t \in Trips : Shrinks(t) \/ BoundedAt(t)'
  PROVE  SeatsInv'
<1>1. TransportTypeOK' /\ \A q \in Requests \ {r} : req'[q] = req[q]
  BY DEF SeatsInv, TransportTypeOK, fleet
<1>2. Existing' = Existing
  BY DEF Existing
<1>3. \A t \in Trips : BoundedAt(t)'
  BY ShrinkingIsBounded DEF SeatsInv, SeatsBounded, BoundedAt
<1> QED
  BY <1>1, <1>2, <1>3, StepKeeps

LEMMA EndKeeps ==
  ASSUME SeatsInv, SeatsAssumptions, NEW r \in Requests, Reply(r),
         UNCHANGED <<fleet, allocation>>
  PROVE  SeatsInv'
<1>1. Idle \in TransportRequest /\ req' = [req EXCEPT ![r] = Idle]
  BY DEF TransportRequest, Reply, Continue
<1>2. InOrder(r)'
  BY <1>1 DEF SeatsInv, TransportTypeOK, InOrder, Idle
<1> QED
  BY <1>1, <1>2, EndingShrinks, RowWaits DEF SeatsInv

LEMMA CreateKeepsSeats ==
  ASSUME SeatsInv, SeatsAssumptions, NEW r \in Requests,
         NEW rider \in Riders, NEW pickup \in Trips, NEW drop \in Trips,
         CreateAllocation(r, rider, pickup, drop)
  PROVE  SeatsInv'
<1> DEFINE checks == IF drop = pickup THEN <<pickup>> ELSE <<pickup, drop>>
           row == [rider |-> rider, pickup |-> pickup, drop |-> drop,
                   isActive |-> TRUE]
           c == [op |-> "create", at |-> "trip", row |-> row,
                 checks |-> checks, seats |-> Null]
<1>1. /\ checks \in Seq(Trips) /\ checks # <<>>
      /\ pickup \in Left(checks) /\ drop \in Left(checks)
  BY LeftFacts
<1>2. row \in AllocationRow /\ row.isActive
  BY DEF AllocationRow
<1>3. row.pickup = pickup /\ row.drop = drop
  OBVIOUS
<1>4. req' = [req EXCEPT ![r] = c] /\ UNCHANGED <<fleet, allocation>>
  BY DEF CreateAllocation, Continue
<1> HIDE DEF checks, row
<1>5. c \in TransportRequest
  BY <1>1, <1>2 DEF TransportRequest, CreateReq
<1>6. /\ c.op = "create" /\ c.at = "trip" /\ c.row = row
      /\ c.checks = checks
  OBVIOUS
<1> HIDE DEF c
<1>7. req'[r] = c /\ \A q \in Requests \ {r} : req'[q] = req[q]
  BY <1>4 DEF SeatsInv, TransportTypeOK
<1>8. \A t \in Trips : Shrinks(t)
  BY <1>1, <1>3, <1>4, <1>6, <1>7, WaitingShrinks DEF Creates, Updates
<1>9. InOrder(r)'
  BY <1>1, <1>2, <1>6, <1>7 DEF InOrder
<1> QED
  BY <1>4, <1>5, <1>8, <1>9, RowWaits

LEMMA UpdateKeepsSeats ==
  ASSUME SeatsInv, SeatsAssumptions, NEW r \in Requests,
         NEW a \in Allocations, NEW pickup \in Trips \cup {Null},
         NEW drop \in Trips \cup {Null}, NEW isActive \in ActiveEdits,
         UpdateAllocation(r, a, pickup, drop, isActive)
  PROVE  SeatsInv'
<1> DEFINE checks == TripChecks(allocation[a], pickup, drop)
           c == [op |-> "update", at |-> Stage(checks), id |-> a,
                 pickup |-> pickup, drop |-> drop, isActive |-> isActive,
                 checks |-> checks, seats |-> Null]
<1>1. a \in Existing /\ allocation[a] \in AllocationRow
  BY DEF UpdateAllocation, Existing, SeatsInv, TransportTypeOK
<1>2. /\ checks \in Seq(Trips)
      /\ \A t \in {pickup, drop} \ Left(checks) :
           t = Null \/ t \in {allocation[a].pickup, allocation[a].drop}
  BY <1>1, ChecksFacts
<1>3. req' = [req EXCEPT ![r] = c] /\ UNCHANGED <<fleet, allocation>>
  BY DEF UpdateAllocation, Continue
<1> HIDE DEF checks
<1>4. /\ Stage(checks) \in {"trip", "write"}
      /\ Stage(checks) = "write" <=> checks = <<>>
  BY DEF Stage
<1>5. c \in TransportRequest
  BY <1>2, <1>4 DEF TransportRequest, UpdateReq
<1>6. /\ c.op = "update" /\ c.at = Stage(checks) /\ c.id = a
      /\ c.pickup = pickup /\ c.drop = drop /\ c.checks = checks
  OBVIOUS
<1> HIDE DEF c
<1>7. req'[r] = c /\ \A q \in Requests \ {r} : req'[q] = req[q]
  BY <1>3 DEF SeatsInv, TransportTypeOK
<1>8. \A t \in Trips : Shrinks(t)
  <2> TAKE t \in Trips
  <2>1. ~Creates(r, t)'
    BY <1>6, <1>7 DEF Creates
  <2>2. ASSUME Updates(r, t)', a \in Active
        PROVE  a \in Seated(t)
    <3>1. t \in {pickup, drop} \ Left(checks)
      BY <2>2, <1>6, <1>7 DEF Updates
    <3>2. t # Null
      BY NoRowAssumption
    <3> QED
      BY <1>2, <2>2, <3>1, <3>2 DEF Seated, Active
  <2> QED
    BY <1>3, <1>6, <1>7, <2>1, <2>2, WaitingShrinks
<1>9. InOrder(r)'
  <2>1. Existing' = Existing
    BY <1>3 DEF Existing
  <2> QED
    BY <1>1, <1>4, <1>6, <1>7, <2>1 DEF InOrder
<1> QED
  BY <1>3, <1>5, <1>8, <1>9, RowWaits

LEMMA ReadKeepsSeats ==
  ASSUME SeatsInv, SeatsAssumptions, NEW r \in Requests, ReadTrip(r)
  PROVE  SeatsInv'
<1>1. /\ req[r].op \in {"create", "update"} /\ req[r].checks # <<>>
      /\ req[r].checks \in Seq(Trips)
  BY TransportFields DEF ReadTrip, SeatsInv, InOrder
<1> PICK v : v = trip[Head(req[r].checks)]
  OBVIOUS
<1>2. CASE v = Null
  <2>1. Reply(r) /\ UNCHANGED <<fleet, allocation>>
    BY <1>2 DEF ReadTrip
  <2> QED
    BY <2>1, EndKeeps
<1>3. CASE v # Null
  <2> PICK seats \in Capacities : seats = capacity[v]
    BY <1>1, <1>3, LeftFacts DEF SeatsInv, TransportTypeOK
  <2> PICK c : c = [req[r] EXCEPT !.at = "count", !.seats = seats]
    OBVIOUS
  <2>1. req' = [req EXCEPT ![r] = c] /\ UNCHANGED <<fleet, allocation>>
    BY <1>3 DEF ReadTrip, Continue
  <2>2. c = GoesOn(req[r], "count", req[r].checks, seats)
    <3>1. CASE req[r].op = "create"
      BY <3>1, TransportFields DEF SeatsInv, CreateReq, GoesOn
    <3>2. CASE req[r].op = "update"
      BY <3>2, TransportFields DEF SeatsInv, UpdateReq, GoesOn
    <3> QED
      BY <1>1, <3>1, <3>2
  <2>3. /\ c \in TransportRequest /\ c.op = req[r].op
        /\ c.at = "count" /\ c.checks = req[r].checks /\ c.seats = seats
        /\ c.op = "create" => c.row = req[r].row
        /\ c.op = "update" => /\ c.id = req[r].id
                              /\ c.pickup = req[r].pickup
                              /\ c.drop = req[r].drop
    <3>1. TransportTypeOK
      BY DEF SeatsInv
    <3>2. req[r].op \in {"create", "update"} /\ req[r].checks \in Seq(Trips)
      BY <1>1
    <3> QED
      <4>1. "count" \in {"trip", "count", "write"}
            /\ seats \in Capacities \cup {Null}
        OBVIOUS
      <4>2. StepsTo(req[r], c, "count", req[r].checks, seats)
        BY <2>2, <3>1, <3>2, <4>1, Advances
      <4> QED
        BY <4>2 DEF StepsTo
  <2>4. req'[r] = c /\ \A q \in Requests \ {r} : req'[q] = req[q]
    BY <2>1 DEF SeatsInv, TransportTypeOK
  <2>5. \A t \in Trips : Shrinks(t)
    <3>1. \A t : Creates(r, t)' => Creates(r, t)
      BY <1>1, <2>3, <2>4 DEF Creates
    <3>2. \A t : Updates(r, t)' => Updates(r, t) /\ req'[r].id = req[r].id
      BY <1>1, <2>3, <2>4 DEF Updates
    <3> QED
      BY <2>1, <2>4, <3>1, <3>2, WaitingShrinks
  <2>6. InOrder(r)'
    BY <1>1, <2>1, <2>3, <2>4 DEF SeatsInv, InOrder, Existing
  <2> QED
    BY <2>1, <2>3, <2>5, <2>6, RowWaits
<1> QED
  BY <1>2, <1>3

\* A check that passes: the seats that were taken, and the claims of the
\* other handlers and of this one.
LEMMA CountBounds ==
  ASSUME SeatsInv, SeatsAssumptions, NEW r \in Requests, NEW h \in Trips,
         NEW taken, taken = Seated(h) \ Excluded(req[r]),
         NEW seats \in Capacities, Cardinality(taken) < seats,
         UNCHANGED allocation, NEW c, req'[r] = c, c.op = req[r].op,
         c.op = "update" => c.id = req[r].id
  PROVE  BoundedAt(h)'
<1> PICK own : own = IF c.op = "update" THEN {r} ELSE {}
  OBVIOUS
<1> PICK W : W = Updating(h)' \cup own
  OBVIOUS
<1> PICK C : C = Creating(h)'
  OBVIOUS
<1> PICK f : f = [q \in Requests |-> req'[q].id]
  OBVIOUS
<1>1. W \in SUBSET Requests /\ C \in SUBSET Requests
  BY DEF Updating, Creating
<1>2. W \cap C = {}
  BY DEF Updating, Creating, Updates, Creates
<1>3. IsFiniteSet(taken)
  BY ClaimSizes, FS_Subset
<1>4. seats \in Nat
  BY CapacitiesAssumption
<1>5. Seated(h)' = Seated(h)
  BY DEF Seated, Existing
<1>6. Seated(h) \subseteq taken \cup {f[q] : q \in W}
  <2>1. ASSUME NEW a \in Seated(h), a \notin taken
        PROVE  a \in {f[q] : q \in W}
    <3>1. c.op = "update" /\ a = c.id
      BY <2>1 DEF Excluded
    <3>2. r \in W /\ f[r] = a
      BY <3>1
    <3> QED
      BY <3>2
  <2> QED
    BY <2>1
<1>7. \A q \in Updating(h)' : req'[q].id \in {f[p] : p \in W}
  <2> SUFFICES ASSUME NEW q \in Updating(h)'
               PROVE  req'[q].id \in {f[p] : p \in W}
    OBVIOUS
  <2>1. q \in W /\ f[q] = req'[q].id
    BY DEF Updating
  <2> QED
    BY <2>1
<1>8. Claimed(h)' \subseteq taken \cup {f[q] : q \in W}
  BY <1>5, <1>6, <1>7 DEF Claimed
<1>9. Cardinality(Claimed(h)') + Cardinality(C)
        <= seats + Cardinality(Requests) - 1
  BY <1>1, <1>2, <1>3, <1>4, <1>8, OneSeatEach DEF SeatsAssumptions
<1> QED
  BY <1>9 DEF BoundedAt

LEMMA CountKeepsSeats ==
  ASSUME SeatsInv, SeatsAssumptions, NEW r \in Requests, CountSeats(r)
  PROVE  SeatsInv'
<1>1. /\ req[r].op \in {"create", "update"} /\ req[r].checks # <<>>
      /\ req[r].checks \in Seq(Trips) /\ req[r].seats \in Capacities
  BY TransportFields DEF CountSeats, SeatsInv, InOrder
<1>h. PICK h \in Trips : h = Head(req[r].checks)
  BY <1>1, LeftFacts
<1>r. PICK rest \in Seq(Trips) : rest = Tail(req[r].checks)
  BY <1>1, LeftFacts
<1>t. PICK taken : taken = Seated(h) \ Excluded(req[r])
  OBVIOUS
<1> PICK seats \in Capacities : seats = req[r].seats
  BY <1>1
<1>a. PICK at \in {"trip", "count", "write"} : at = Stage(rest)
  BY DEF Stage
<1> PICK none \in Capacities \cup {Null} : none = Null
  OBVIOUS
<1> PICK c : c = GoesOn(req[r], at, rest, none)
  OBVIOUS
<1>2. Left(req[r].checks) = {h} \cup Left(rest)
  BY <1>1, <1>h, <1>r, LeftFacts
<1>3. CASE Cardinality(taken) >= seats
  <2>1. Reply(r) /\ UNCHANGED <<fleet, allocation>>
    BY <1>h, <1>t, <1>3 DEF CountSeats
  <2> QED
    BY <2>1, EndKeeps
<1>4. CASE ~(Cardinality(taken) >= seats)
  <2>1. req' = [req EXCEPT ![r] = c] /\ UNCHANGED <<fleet, allocation>>
    BY <1>h, <1>r, <1>t, <1>a, <1>4
       DEF CountSeats, Continue, GoesOn
  <2>2. at # "count" /\ (at = "write" <=> rest = <<>>)
    BY <1>a DEF Stage
  <2>3. /\ c \in TransportRequest /\ c.op = req[r].op
        /\ c.at = at /\ c.checks = rest
        /\ c.op = "create" => c.row = req[r].row
        /\ c.op = "update" => /\ c.id = req[r].id
                              /\ c.pickup = req[r].pickup
                              /\ c.drop = req[r].drop
    <3>1. TransportTypeOK
      BY DEF SeatsInv
    <3>2. req[r].op \in {"create", "update"}
      BY <1>1
    <3> QED
      <4>1. StepsTo(req[r], c, at, rest, none)
        BY <3>1, <3>2, Advances
      <4> QED
        BY <4>1 DEF StepsTo
  <2>4. req'[r] = c /\ \A q \in Requests \ {r} : req'[q] = req[q]
    BY <2>1 DEF SeatsInv, TransportTypeOK
  <2>5. InOrder(r)'
    BY <1>1, <2>1, <2>2, <2>3, <2>4 DEF SeatsInv, InOrder, Existing
  <2>6. ASSUME NEW t \in Trips \ {h}
        PROVE  Shrinks(t)
    <3>1. t \notin Left(rest) => t \notin Left(req[r].checks)
      BY <1>2
    <3>2. Creates(r, t)' => Creates(r, t)
      BY <1>1, <2>3, <2>4, <3>1 DEF Creates
    <3>3. Updates(r, t)' => Updates(r, t) /\ req'[r].id = req[r].id
      BY <1>1, <2>3, <2>4, <3>1 DEF Updates
    <3> QED
      BY <2>1, <2>4, <3>2, <3>3, WaitingShrinks
  <2>7. BoundedAt(h)'
    <3>1. Cardinality(taken) < seats
      <4>1. IsFiniteSet(taken)
        BY <1>t, ClaimSizes, FS_Subset
      <4>2. Cardinality(taken) \in Nat
        BY <4>1, FS_CardinalityType
      <4> QED
        BY <1>4, <4>2, CapacitiesAssumption
    <3> QED
      BY <1>t, <2>1, <2>3, <2>4, <3>1, CountBounds
  <2>8. \A t \in Trips : Shrinks(t) \/ BoundedAt(t)'
    BY <2>6, <2>7
  <2> QED
    BY <2>1, <2>3, <2>5, <2>8, RowWaits
<1> QED
  BY <1>3, <1>4

\* Rows move, and no handler but one that ends.
LEMMA RowsShrink ==
  ASSUME NEW t \in Trips, Active' \subseteq Active,
         Seated(t)' \subseteq Claimed(t),
         \A q \in Requests : req'[q] = req[q] \/ req'[q] = Idle
  PROVE  Shrinks(t)
<1>1. \A q \in Requests :
        /\ Creates(q, t)' => Creates(q, t)
        /\ Updates(q, t)' => Updates(q, t) /\ req'[q].id = req[q].id
  BY DEF Creates, Updates, Idle
<1>2. Creating(t)' \subseteq Creating(t)
  BY <1>1 DEF Creating
<1>3. \A q \in Updating(t)' : q \in Updating(t) /\ req'[q].id = req[q].id
  BY <1>1 DEF Updating
<1>4. Claimed(t)' \subseteq Claimed(t)
  BY <1>3 DEF Claimed
<1> QED
  BY <1>2, <1>4 DEF Shrinks

\* A creation that ends gives up its claim for the seat of its row.
LEMMA InsertBounds ==
  ASSUME SeatsAssumptions, NEW t \in Trips, BoundedAt(t), NEW a,
         NEW r \in Creating(t),
         Claimed(t)' \subseteq Claimed(t) \cup {a},
         Creating(t)' \subseteq Creating(t) \ {r}
  PROVE  BoundedAt(t)'
<1> PICK claims : claims = Claimed(t)
  OBVIOUS
<1> PICK others : others = Creating(t) \ {r}
  OBVIOUS
<1>1. /\ IsFiniteSet(claims \cup {a})
      /\ Cardinality(claims \cup {a}) <= Cardinality(claims) + 1
      /\ Cardinality(claims) \in Nat /\ Cardinality(claims \cup {a}) \in Nat
  <2>1. IsFiniteSet(claims) /\ Cardinality(claims) \in Nat
    BY ClaimSizes
  <2>2. /\ IsFiniteSet(claims \cup {a})
        /\ \/ Cardinality(claims \cup {a}) = Cardinality(claims)
           \/ Cardinality(claims \cup {a}) = Cardinality(claims) + 1
    BY <2>1, FS_AddElement
  <2> QED
    BY <2>1, <2>2
<1>2. /\ IsFiniteSet(others)
      /\ Cardinality(others) = Cardinality(Creating(t)) - 1
      /\ Cardinality(Creating(t)) \in Nat
  <2>1. IsFiniteSet(Creating(t)) /\ Cardinality(Creating(t)) \in Nat
    BY ClaimSizes
  <2> QED
    BY <2>1, FS_RemoveElement
<1>3. /\ Cardinality(Claimed(t)') <= Cardinality(claims \cup {a})
      /\ Cardinality(Creating(t)') <= Cardinality(others)
  BY <1>1, <1>2, FS_Subset
<1> PICK most \in Capacities :
      Cardinality(Claimed(t)) + Cardinality(Creating(t))
        <= most + Cardinality(Requests) - 1
  BY DEF BoundedAt
<1>4. /\ Cardinality(Claimed(t)') \in Nat /\ Cardinality(Creating(t)') \in Nat
      /\ most \in Nat /\ Cardinality(Requests) \in Nat
  BY ClaimSizes, ClaimSizesNext, CapacitiesAssumption
<1>5. Cardinality(Claimed(t)') + Cardinality(Creating(t)')
        <= most + Cardinality(Requests) - 1
  BY <1>1, <1>2, <1>3, <1>4
<1> QED
  BY <1>5 DEF BoundedAt

LEMMA InsertKeepsSeats ==
  ASSUME SeatsInv, SeatsAssumptions, NEW r \in Requests,
         NEW a \in Allocations, InsertAllocation(r, a)
  PROVE  SeatsInv'
<1> PICK row : row = req[r].row
  OBVIOUS
<1>1. /\ req[r].op = "create" /\ req[r].checks = <<>>
      /\ row \in AllocationRow /\ row # Null
      /\ a \notin Existing
  BY TransportFields, NoRowAssumption DEF InsertAllocation, SeatsInv, InOrder
<1>2. /\ allocation' = [allocation EXCEPT ![a] = row]
      /\ req'[r] = Idle /\ \A q \in Requests \ {r} : req'[q] = req[q]
      /\ req' = [req EXCEPT ![r] = Idle] /\ UNCHANGED fleet
  BY DEF InsertAllocation, Reply, Continue, SeatsInv, TransportTypeOK
<1>3. allocation \in [Allocations -> AllocationRow \cup {Null}]
  BY DEF SeatsInv, TransportTypeOK
<1>4. /\ allocation'[a] = row
      /\ \A b \in Allocations \ {a} : allocation'[b] = allocation[b]
  BY <1>2, <1>3
<1>5. TransportTypeOK'
  <2>1. (allocation \in [Allocations -> AllocationRow \cup {Null}])'
    BY <1>1, <1>2, <1>3
  <2>2. (req \in [Requests -> TransportRequest])'
    BY <1>2 DEF SeatsInv, TransportTypeOK, TransportRequest
  <2> QED
    BY <1>2, <2>1, <2>2 DEF SeatsInv, TransportTypeOK, fleet
<1>6. Existing' = Existing \cup {a}
  BY <1>1, <1>4 DEF Existing
<1>7. Existing \subseteq Allocations
  BY DEF Existing
<1>8. InOrder(r)'
  BY <1>2 DEF InOrder, Idle
<1>9. ASSUME NEW t \in Trips
      PROVE  BoundedAt(t)'
  <2>1. \A q \in Requests :
          /\ Creates(q, t)' => Creates(q, t) /\ q # r
          /\ Updates(q, t)' => /\ Updates(q, t) /\ req'[q].id = req[q].id
                               /\ req[q].id # a
    <3> SUFFICES ASSUME NEW q \in Requests
                 PROVE  /\ Creates(q, t)' => Creates(q, t) /\ q # r
                        /\ Updates(q, t)' => /\ Updates(q, t)
                                             /\ req'[q].id = req[q].id
                                             /\ req[q].id # a
      OBVIOUS
    <3>1. CASE q = r
      BY <1>2, <3>1 DEF Creates, Updates, Idle
    <3>2. CASE q # r
      BY <1>1, <1>2, <3>2 DEF Creates, Updates, SeatsInv, InOrder
    <3> QED
      BY <3>1, <3>2
  <2>2. Creating(t)' \subseteq Creating(t) \ {r}
    BY <2>1 DEF Creating
  <2>3. \A b \in Seated(t)' : \/ b \in Seated(t)
                              \/ b = a /\ t \in {row.pickup, row.drop}
    BY <1>1, <1>4, <1>6, <1>7 DEF Seated
  <2>4. \A b \in Active' : b \in Active \/ b = a
    BY <1>1, <1>4, <1>6, <1>7 DEF Active
  <2>5. \A b \in Claimed(t)' : \/ b \in Claimed(t)
                               \/ b = a /\ t \in {row.pickup, row.drop}
    BY <2>1, <2>3, <2>4 DEF Claimed, Updating
  <2>6. BoundedAt(t)
    BY DEF SeatsInv, SeatsBounded, BoundedAt
  <2>7. CASE t \in {row.pickup, row.drop}
    <3>1. r \in Creating(t)
      BY <1>1, <2>7, LeftFacts DEF Creating, Creates
    <3> QED
      BY <2>2, <2>5, <2>6, <3>1, InsertBounds
  <2>8. CASE t \notin {row.pickup, row.drop}
    BY <2>2, <2>5, <2>6, <2>8, ShrinkingIsBounded DEF Shrinks
  <2> QED
    BY <2>7, <2>8
<1> QED
  BY <1>2, <1>5, <1>6, <1>8, <1>9, StepKeeps

LEMMA WriteKeepsSeats ==
  ASSUME SeatsInv, SeatsAssumptions, NEW r \in Requests, WriteAllocation(r)
  PROVE  SeatsInv'
<1> PICK a : a = req[r].id
  OBVIOUS
<1>1. /\ req[r].op = "update" /\ req[r].checks = <<>>
      /\ a \in Existing /\ allocation[a] \in AllocationRow
      /\ req[r].pickup \in Trips \cup {Null}
      /\ req[r].drop \in Trips \cup {Null}
      /\ req[r].isActive \in ActiveEdits
  BY TransportFields
     DEF WriteAllocation, SeatsInv, InOrder, TransportTypeOK, Existing
<1> PICK row : row =
      [rider |-> allocation[a].rider,
       pickup |-> Given(req[r].pickup, allocation[a].pickup),
       drop |-> Given(req[r].drop, allocation[a].drop),
       isActive |-> Given(req[r].isActive, allocation[a].isActive)]
  OBVIOUS
<1>2. row \in AllocationRow /\ row # Null
  BY <1>1, ActiveEditsAssumption, NoRowAssumption DEF AllocationRow, Given
<1>3. row.isActive => allocation[a].isActive
  BY <1>1, ActiveEditsAssumption
     DEF Given, AllocationRow, SeatsAssumptions
<1>4. \A t \in {row.pickup, row.drop} :
        \/ t \in {allocation[a].pickup, allocation[a].drop}
        \/ t \in {req[r].pickup, req[r].drop}
  BY DEF Given
<1>5. /\ allocation' = [allocation EXCEPT ![a] = row]
      /\ req'[r] = Idle /\ \A q \in Requests \ {r} : req'[q] = req[q]
      /\ req' = [req EXCEPT ![r] = Idle] /\ UNCHANGED fleet
  BY DEF WriteAllocation, Reply, Continue, SeatsInv, TransportTypeOK
<1>6. allocation \in [Allocations -> AllocationRow \cup {Null}]
  BY DEF SeatsInv, TransportTypeOK
<1>7. /\ allocation'[a] = row
      /\ \A b \in Allocations \ {a} : allocation'[b] = allocation[b]
  BY <1>1, <1>5, <1>6 DEF Existing
<1>8. TransportTypeOK'
  <2>1. (allocation \in [Allocations -> AllocationRow \cup {Null}])'
    BY <1>2, <1>5, <1>6
  <2>2. (req \in [Requests -> TransportRequest])'
    BY <1>5 DEF SeatsInv, TransportTypeOK, TransportRequest
  <2> QED
    BY <1>5, <2>1, <2>2 DEF SeatsInv, TransportTypeOK, fleet
<1>9. Existing' = Existing
  BY <1>1, <1>2, <1>7 DEF Existing
<1>10. InOrder(r)'
  BY <1>5 DEF InOrder, Idle
<1>11. Active' \subseteq Active
  BY <1>1, <1>3, <1>7, <1>9 DEF Active, Existing
<1>12. ASSUME NEW t \in Trips
       PROVE  BoundedAt(t)'
  <2>1. ASSUME NEW b \in Seated(t)'
        PROVE  b \in Claimed(t)
    <3>1. b \in Active'
      BY DEF Seated, Active
    <3>2. CASE b # a
      BY <1>7, <1>9, <3>2 DEF Seated, Claimed, Existing
    <3>3. CASE b = a /\ t \in {allocation[a].pickup, allocation[a].drop}
      BY <1>11, <3>1, <3>3 DEF Seated, Claimed, Active
    <3>4. CASE b = a /\ t \in {req[r].pickup, req[r].drop}
      <4>1. r \in Updating(t)
        BY <1>1, <3>4, LeftFacts DEF Updating, Updates
      <4> QED
        BY <1>11, <3>1, <3>4, <4>1 DEF Claimed
    <3>5. b = a => t \in {row.pickup, row.drop}
      BY <1>7 DEF Seated
    <3> QED
      BY <1>4, <3>2, <3>3, <3>4, <3>5
  <2>2. Shrinks(t)
    BY <1>5, <1>11, <2>1, RowsShrink
  <2> QED
    BY <2>2, ShrinkingIsBounded DEF SeatsInv, SeatsBounded, BoundedAt
<1> QED
  BY <1>5, <1>8, <1>9, <1>10, <1>12, StepKeeps

LEMMA RevokeKeepsSeats ==
  ASSUME SeatsInv, SeatsAssumptions, NEW r \in Requests,
         NEW a \in Allocations, RevokeAllocation(r, a)
  PROVE  SeatsInv'
<1>1. a \in Existing /\ allocation[a] \in AllocationRow
  BY DEF RevokeAllocation, SeatsInv, TransportTypeOK, Existing
<1> PICK row : row = [allocation[a] EXCEPT !.isActive = FALSE]
  OBVIOUS
<1>2. row \in AllocationRow /\ row # Null /\ ~row.isActive
  BY <1>1, NoRowAssumption DEF AllocationRow
<1>3. /\ allocation' = [allocation EXCEPT ![a] = row]
      /\ UNCHANGED <<fleet, req>>
  BY DEF RevokeAllocation
<1>4. allocation \in [Allocations -> AllocationRow \cup {Null}]
  BY DEF SeatsInv, TransportTypeOK
<1>5. /\ allocation'[a] = row
      /\ \A b \in Allocations \ {a} : allocation'[b] = allocation[b]
  BY <1>3, <1>4
<1>6. TransportTypeOK'
  <2>1. (allocation \in [Allocations -> AllocationRow \cup {Null}])'
    BY <1>2, <1>3, <1>4
  <2> QED
    BY <1>3, <2>1 DEF SeatsInv, TransportTypeOK, fleet
<1>7. Existing' = Existing
  BY <1>1, <1>2, <1>5 DEF Existing
<1>8. InOrder(r)'
  BY <1>3, <1>7 DEF SeatsInv, InOrder
<1>9. Active' \subseteq Active
  BY <1>2, <1>5, <1>7 DEF Active, Existing
<1>10. ASSUME NEW t \in Trips
       PROVE  BoundedAt(t)'
  <2>1. Seated(t)' \subseteq Claimed(t)
    BY <1>2, <1>5, <1>7 DEF Seated, Claimed, Existing
  <2>2. Shrinks(t)
    BY <1>3, <1>9, <2>1, RowsShrink
  <2> QED
    BY <2>2, ShrinkingIsBounded DEF SeatsInv, SeatsBounded, BoundedAt
<1>11. \A q \in Requests \ {r} : req'[q] = req[q]
  BY <1>3
<1> QED
  BY <1>6, <1>7, <1>8, <1>10, <1>11, StepKeeps

\* The fleet may be changed as it likes: no claim depends on it any more.
LEMMA FleetKeepsSeats ==
  ASSUME SeatsInv, UNCHANGED <<allocation, req>>,
         capacity' \in [Vehicles -> Capacities],
         trip' \in [Trips -> Vehicles \cup {Null}]
  PROVE  SeatsInv'
<1>1. Existing' = Existing
  BY DEF Existing
<1>2. \A r \in Requests : InOrder(r)'
  BY <1>1 DEF SeatsInv, InOrder
<1>3. \A t \in Trips : Claimed(t)' = Claimed(t) /\ Creating(t)' = Creating(t)
  <2>1. Active' = Active
    BY <1>1 DEF Active
  <2>2. \A t \in Trips : /\ Seated(t)' = Seated(t)
                         /\ Updating(t)' = Updating(t)
                         /\ Creating(t)' = Creating(t)
    BY <1>1 DEF Seated, Updating, Updates, Creating, Creates
  <2> QED
    BY <2>1, <2>2 DEF Claimed
<1>4. SeatsBounded'
  BY <1>3 DEF SeatsInv, SeatsBounded
<1> QED
  BY <1>2, <1>4 DEF SeatsInv, TransportTypeOK

-----------------------------------------------------------------------------
LEMMA SeatsInvInit ==
  ASSUME SeatsAssumptions, TransportInit
  PROVE  SeatsInv
<1>1. \A r \in Requests : req[r] = Idle
  BY DEF TransportInit, HandlersInit
<1>2. TransportTypeOK
  BY DEF TransportInit, HandlersInit, TransportTypeOK, TransportRequest
<1>3. \A r \in Requests : InOrder(r)
  BY <1>1 DEF InOrder, Idle
<1>4. Existing = {}
  BY DEF TransportInit, Existing
<1>5. ASSUME NEW t \in Trips
      PROVE  \E most \in Capacities :
               Cardinality(Claimed(t)) + Cardinality(Creating(t))
                 <= most + Cardinality(Requests) - 1
  <2>1. Claimed(t) = {}
    BY <1>4 DEF Claimed, Seated, Active
  <2>2. Creating(t) = {}
    BY <1>1 DEF Creating, Creates, Idle
  <2>3. /\ Cardinality(Claimed(t)) = 0 /\ Cardinality(Creating(t)) = 0
    BY <2>1, <2>2, FS_EmptySet
  <2>4. Cardinality(Requests) \in Nat /\ Cardinality(Requests) # 0
    BY FS_EmptySet, FS_CardinalityType DEF SeatsAssumptions
  <2> PICK most \in Capacities : TRUE
    BY DEF SeatsAssumptions
  <2>5. most \in Nat
    BY CapacitiesAssumption
  <2> QED
    BY <2>3, <2>4, <2>5
<1> QED
  BY <1>2, <1>3, <1>5 DEF SeatsInv, SeatsBounded

LEMMA SeatsInvStep ==
  ASSUME SeatsAssumptions, SeatsInv, [TransportNext]_transportVars
  PROVE  SeatsInv'
<1>1. CASE UNCHANGED transportVars
  BY <1>1, FleetKeepsSeats
     DEF transportVars, fleet, SeatsInv, TransportTypeOK
<1>2. ASSUME NEW r \in Requests, NEW v \in Vehicles, NEW seats \in Capacities,
             UpdateVehicle(r, v, seats)
      PROVE  SeatsInv'
  BY <1>2, FleetKeepsSeats DEF UpdateVehicle, SeatsInv, TransportTypeOK
<1>3. ASSUME NEW r \in Requests, NEW t \in Trips,
             NEW v \in Vehicles \cup {Null}, SaveRoute(r, t, v)
      PROVE  SeatsInv'
  BY <1>3, FleetKeepsSeats DEF SaveRoute, SeatsInv, TransportTypeOK
<1>4. ASSUME NEW r \in Requests, TransportAbandon(r)
      PROVE  SeatsInv'
  BY <1>4, EndKeeps DEF TransportAbandon, Abandon
<1> QED
  BY <1>1, <1>2, <1>3, <1>4, CreateKeepsSeats, UpdateKeepsSeats,
     ReadKeepsSeats, CountKeepsSeats, InsertKeepsSeats, WriteKeepsSeats,
     RevokeKeepsSeats DEF TransportNext, TransportHandler

LEMMA SeatsInvBounds ==
  ASSUME SeatsAssumptions, SeatsInv
  PROVE  OversoldByOverlapOnly
<1> SUFFICES ASSUME NEW t \in Trips
             PROVE  \E most \in Capacities :
               Cardinality(Seated(t)) <= most + Cardinality(Requests) - 1
  BY DEF OversoldByOverlapOnly
<1> PICK most \in Capacities :
      Cardinality(Claimed(t)) + Cardinality(Creating(t))
        <= most + Cardinality(Requests) - 1
  BY DEF SeatsInv, SeatsBounded
<1>1. Cardinality(Seated(t)) <= Cardinality(Claimed(t))
  BY ClaimSizes, FS_Subset DEF Claimed
<1>2. Cardinality(Seated(t)) \in Nat
  BY ClaimSizes, FS_CardinalityType
<1>3. most \in Nat
  BY CapacitiesAssumption
<1> QED
  BY <1>1, <1>2, <1>3, ClaimSizes

\* However many handlers of transport-allocation.service.ts overlap, and
\* whatever happens to the vehicles meanwhile, a trip is oversold by at most
\* one seat for each handler but the one whose count was last.
THEOREM OversoldOnlyByOverlap ==
  ASSUME IsFiniteSet(Requests), Requests # {}, IsFiniteSet(Allocations),
         Capacities # {}
  PROVE  TransportSpec => []OversoldByOverlapOnly
<1>1. CASE TRUE \in ActiveEdits
  <2>1. OversoldByOverlapOnly
    BY <1>1 DEF OversoldByOverlapOnly
  <2> QED
    BY <2>1, PTL
<1>2. CASE TRUE \notin ActiveEdits
  <2> SeatsAssumptions
    BY <1>2 DEF SeatsAssumptions
  <2>1. TransportInit => SeatsInv
    BY SeatsInvInit
  <2>2. SeatsInv /\ [TransportNext]_transportVars => SeatsInv'
    BY SeatsInvStep
  <2>3. SeatsInv => OversoldByOverlapOnly
    BY SeatsInvBounds
  <2> QED
    BY <2>1, <2>2, <2>3, PTL DEF TransportSpec
<1> QED
  BY <1>1, <1>2

-----------------------------------------------------------------------------
(***************************************************************************)
(* What a handler that is not overtaken has found of the rider and of the  *)
(* trips it has checked still holds when it writes.                        *)
(***************************************************************************)
FreshFor(q) ==
  /\ q.op = "create" =>
       /\ ActiveOf(q.row.rider) = {}
       /\ \A t \in {q.row.pickup, q.row.drop} \ Left(q.checks) : SeatFree(q, t)
  /\ q.op = "update" =>
       /\ q.id \in Existing
       /\ \A t \in {q.pickup, q.drop} \ Left(q.checks) :
            \/ t = Null
            \/ t \in {allocation[q.id].pickup, allocation[q.id].drop}
            \/ SeatFree(q, t)
  /\ q.op \in {"create", "update"} =>
       /\ q.at = "write" <=> q.checks = <<>>
       /\ q.at = "count" => /\ trip[Head(q.checks)] # Null
                            /\ q.seats = capacity[trip[Head(q.checks)]]

FreshInv(r) == r \in Requests /\ TransportTypeOK /\ FreshFor(req[r])

\* What AllocationsAreChecked asks of a step.
SeatsChecked ==
  (\A a \in Allocations : ~Reactivated(a)) =>
    /\ \A t \in Trips : Seated(t)' \subseteq Seated(t)
         \/ /\ trip[t] # Null
            /\ Cardinality(Seated(t)') <= capacity[trip[t]]
    /\ \A rider \in Riders : ActiveOf(rider)' \subseteq ActiveOf(rider)
         \/ Cardinality(ActiveOf(rider)') = 1

LEMMA FreshOn ==
  ASSUME NEW r \in Requests, TransportTypeOK,
         NEW c \in TransportRequest, Continue(r, c), FreshFor(c)',
         capacity' \in [Vehicles -> Capacities],
         trip' \in [Trips -> Vehicles \cup {Null}],
         allocation' \in [Allocations -> AllocationRow \cup {Null}]
  PROVE  FreshInv(r)'
<1>1. req' \in [Requests -> TransportRequest] /\ req'[r] = c
  BY DEF TransportTypeOK, Continue
<1>2. FreshFor(req[r])'
  BY <1>1 DEF FreshFor, SeatFree, Excluded
<1> QED
  BY <1>1, <1>2 DEF FreshInv, TransportTypeOK

\* A step that writes no table checks nothing in vain.
LEMMA FreshGoesOn ==
  ASSUME NEW r \in Requests, TransportTypeOK,
         NEW c \in TransportRequest, Continue(r, c), FreshFor(c),
         UNCHANGED <<fleet, allocation>>
  PROVE  FreshInv(r)' /\ SeatsChecked
<1>1. /\ \A t : Seated(t)' = Seated(t)
      /\ \A rider : ActiveOf(rider)' = ActiveOf(rider)
      /\ Existing' = Existing
  BY DEF Seated, ActiveOf, Existing
<1>2. FreshFor(c)'
  BY <1>1 DEF FreshFor, SeatFree, fleet
<1>3. FreshInv(r)'
  BY <1>2, FreshOn DEF TransportTypeOK, fleet
<1>4. SeatsChecked
  BY <1>1 DEF SeatsChecked
<1> QED
  BY <1>3, <1>4

LEMMA IdleFresh == Idle \in TransportRequest /\ FreshFor(Idle) /\ FreshFor(Idle)'
  BY DEF TransportRequest, FreshFor, Idle

\* A step between two requests that gives nobody a seat.
LEMMA FreshBetween ==
  ASSUME NEW r \in Requests, TransportTypeOK, req[r] = Idle, UNCHANGED req,
         capacity' \in [Vehicles -> Capacities],
         trip' \in [Trips -> Vehicles \cup {Null}],
         allocation' \in [Allocations -> AllocationRow \cup {Null}],
         \A t : Seated(t)' \subseteq Seated(t),
         \A rider : ActiveOf(rider)' \subseteq ActiveOf(rider)
  PROVE  FreshInv(r)' /\ SeatsChecked
<1>1. FreshFor(req[r])'
  BY DEF FreshFor, Idle
<1> QED
  BY <1>1 DEF FreshInv, TransportTypeOK, SeatsChecked

LEMMA CreateFresh ==
  ASSUME NEW r, FreshInv(r),
         NEW rider \in Riders, NEW pickup \in Trips, NEW drop \in Trips,
         CreateAllocation(r, rider, pickup, drop)
  PROVE  FreshInv(r)' /\ SeatsChecked
<1> DEFINE checks == IF drop = pickup THEN <<pickup>> ELSE <<pickup, drop>>
           row == [rider |-> rider, pickup |-> pickup, drop |-> drop,
                   isActive |-> TRUE]
           c == [op |-> "create", at |-> "trip", row |-> row,
                 checks |-> checks, seats |-> Null]
<1>1. /\ checks \in Seq(Trips) /\ checks # <<>>
      /\ pickup \in Left(checks) /\ drop \in Left(checks)
  BY LeftFacts
<1>2. row \in AllocationRow
  BY DEF AllocationRow
<1>3. row.pickup = pickup /\ row.drop = drop /\ row.rider = rider
  OBVIOUS
<1>4. /\ Continue(r, c) /\ UNCHANGED <<fleet, allocation>>
      /\ ActiveOf(rider) = {}
  BY DEF CreateAllocation
<1> HIDE DEF checks, row
<1>5. c \in TransportRequest
  BY <1>1, <1>2 DEF TransportRequest, CreateReq
<1>6. /\ c.op = "create" /\ c.at = "trip" /\ c.row = row
      /\ c.checks = checks
  OBVIOUS
<1> HIDE DEF c
<1>7. FreshFor(c)
  BY <1>1, <1>3, <1>4, <1>6 DEF FreshFor
<1> QED
  BY <1>4, <1>5, <1>7, FreshGoesOn DEF FreshInv

LEMMA UpdateFresh ==
  ASSUME NEW r, FreshInv(r),
         NEW a \in Allocations, NEW pickup \in Trips \cup {Null},
         NEW drop \in Trips \cup {Null}, NEW isActive \in ActiveEdits,
         UpdateAllocation(r, a, pickup, drop, isActive)
  PROVE  FreshInv(r)' /\ SeatsChecked
<1>0. a \in Existing /\ allocation[a] \in AllocationRow
  BY DEF UpdateAllocation, Existing, FreshInv, TransportTypeOK
<1>1. PICK checks \in Seq(Trips) :
        /\ checks = TripChecks(allocation[a], pickup, drop)
        /\ \A t \in {pickup, drop} \ Left(checks) :
             t = Null \/ t \in {allocation[a].pickup, allocation[a].drop}
  BY <1>0, ChecksFacts
<1> DEFINE c == [op |-> "update", at |-> Stage(checks), id |-> a,
                 pickup |-> pickup, drop |-> drop, isActive |-> isActive,
                 checks |-> checks, seats |-> Null]
<1>2. Continue(r, c) /\ UNCHANGED <<fleet, allocation>>
  BY <1>1 DEF UpdateAllocation
<1>3. /\ Stage(checks) \in {"trip", "write"}
      /\ Stage(checks) = "write" <=> checks = <<>>
  BY DEF Stage
<1>4. c \in TransportRequest
  BY <1>3 DEF TransportRequest, UpdateReq
<1>5. /\ c.op = "update" /\ c.at = Stage(checks) /\ c.id = a
      /\ c.pickup = pickup /\ c.drop = drop /\ c.checks = checks
  OBVIOUS
<1> HIDE DEF c
<1>6. FreshFor(c)
  BY <1>0, <1>1, <1>3, <1>5 DEF FreshFor
<1> QED
  BY <1>2, <1>4, <1>6, FreshGoesOn DEF FreshInv

LEMMA EndFresh ==
  ASSUME NEW r, FreshInv(r), Reply(r),
         UNCHANGED <<fleet, allocation>>
  PROVE  FreshInv(r)' /\ SeatsChecked
  BY IdleFresh, FreshGoesOn DEF Reply, FreshInv

LEMMA ReadFresh ==
  ASSUME NEW r, FreshInv(r), ReadTrip(r)
  PROVE  FreshInv(r)' /\ SeatsChecked
<1>0. TransportTypeOK /\ FreshFor(req[r]) /\ r \in Requests
  BY DEF FreshInv
<1>1. /\ req[r].op \in {"create", "update"} /\ req[r].checks # <<>>
      /\ req[r].checks \in Seq(Trips)
  BY <1>0, TransportFields DEF ReadTrip, FreshFor
<1> PICK v : v = trip[Head(req[r].checks)]
  OBVIOUS
<1>2. CASE v = Null
  <2>1. Reply(r) /\ UNCHANGED <<fleet, allocation>>
    BY <1>2 DEF ReadTrip
  <2> QED
    BY <2>1, EndFresh
<1>3. CASE v # Null
  <2> PICK seats \in Capacities : seats = capacity[v]
    BY <1>0, <1>1, <1>3, LeftFacts DEF TransportTypeOK
  <2> PICK c : c = GoesOn(req[r], "count", req[r].checks, seats)
    OBVIOUS
  <2>1. Continue(r, c) /\ UNCHANGED <<fleet, allocation>>
    <3>1. c = [req[r] EXCEPT !.at = "count", !.seats = seats]
      <4>1. CASE req[r].op = "create"
        BY <1>0, <4>1, TransportFields DEF CreateReq, GoesOn
      <4>2. CASE req[r].op = "update"
        BY <1>0, <4>2, TransportFields DEF UpdateReq, GoesOn
      <4> QED
        BY <1>1, <4>1, <4>2
    <3> QED
      BY <1>3, <3>1 DEF ReadTrip
  <2>2. /\ c \in TransportRequest /\ c.op = req[r].op
        /\ c.at = "count" /\ c.checks = req[r].checks /\ c.seats = seats
        /\ c.op = "create" => c.row = req[r].row
        /\ c.op = "update" => /\ c.id = req[r].id
                              /\ c.pickup = req[r].pickup
                              /\ c.drop = req[r].drop
    <3>1. req[r].op \in {"create", "update"} /\ req[r].checks \in Seq(Trips)
      BY <1>1
    <3>2. TransportTypeOK /\ r \in Requests
      BY <1>0
    <3> QED
      <4>1. "count" \in {"trip", "count", "write"}
            /\ seats \in Capacities \cup {Null}
        OBVIOUS
      <4>2. StepsTo(req[r], c, "count", req[r].checks, seats)
        BY <3>1, <3>2, <4>1, Advances
      <4> QED
        BY <4>2 DEF StepsTo
  <2>3. \A t : SeatFree(c, t) <=> SeatFree(req[r], t)
    BY <1>1, <2>2 DEF SeatFree, Excluded
  <2>4. FreshFor(c)
    BY <1>0, <1>1, <1>3, <2>2, <2>3 DEF FreshFor
  <2> QED
    BY <1>0, <2>1, <2>2, <2>4, FreshGoesOn
<1> QED
  BY <1>2, <1>3

LEMMA CountFresh ==
  ASSUME NEW r, FreshInv(r), IsFiniteSet(Allocations),
         CountSeats(r)
  PROVE  FreshInv(r)' /\ SeatsChecked
<1>0. TransportTypeOK /\ FreshFor(req[r]) /\ r \in Requests
  BY DEF FreshInv
<1>1. /\ req[r].op \in {"create", "update"} /\ req[r].checks # <<>>
      /\ req[r].checks \in Seq(Trips)
      /\ trip[Head(req[r].checks)] # Null
      /\ req[r].seats = capacity[trip[Head(req[r].checks)]]
  BY <1>0, TransportFields DEF CountSeats, FreshFor
<1>h. PICK h \in Trips : h = Head(req[r].checks)
  BY <1>1, LeftFacts
<1>r. PICK rest \in Seq(Trips) : rest = Tail(req[r].checks)
  BY <1>1, LeftFacts
<1>t. PICK taken : taken = Seated(h) \ Excluded(req[r])
  OBVIOUS
<1>s. PICK seats \in Capacities : seats = req[r].seats
  BY <1>0, <1>1, <1>h DEF TransportTypeOK
<1>a. PICK at \in {"trip", "count", "write"} : at = Stage(rest)
  BY DEF Stage
<1> PICK none \in Capacities \cup {Null} : none = Null
  OBVIOUS
<1> PICK c : c = GoesOn(req[r], at, rest, none)
  OBVIOUS
<1>2. Left(req[r].checks) = {h} \cup Left(rest)
  BY <1>1, <1>h, <1>r, LeftFacts
<1>3. CASE Cardinality(taken) >= seats
  <2>1. Reply(r) /\ UNCHANGED <<fleet, allocation>>
    BY <1>h, <1>t, <1>s, <1>3 DEF CountSeats
  <2> QED
    BY <2>1, EndFresh
<1>4. CASE ~(Cardinality(taken) >= seats)
  <2>1. Continue(r, c) /\ UNCHANGED <<fleet, allocation>>
    BY <1>h, <1>r, <1>t, <1>s, <1>a, <1>4 DEF CountSeats, GoesOn
  <2>2. at # "count" /\ (at = "write" <=> rest = <<>>)
    BY <1>a DEF Stage
  <2>3. /\ c \in TransportRequest /\ c.op = req[r].op
        /\ c.at = at /\ c.checks = rest
        /\ c.op = "create" => c.row = req[r].row
        /\ c.op = "update" => /\ c.id = req[r].id
                              /\ c.pickup = req[r].pickup
                              /\ c.drop = req[r].drop
    <3>1. req[r].op \in {"create", "update"}
      BY <1>1
    <3>2. TransportTypeOK /\ r \in Requests
      BY <1>0
    <3> QED
      <4>1. StepsTo(req[r], c, at, rest, none)
        BY <3>1, <3>2, Advances
      <4> QED
        BY <4>1 DEF StepsTo
  <2>4. \A t : SeatFree(c, t) <=> SeatFree(req[r], t)
    BY <1>1, <2>3 DEF SeatFree, Excluded
  <2>5. SeatFree(c, h)
    <3>1. IsFiniteSet(taken) /\ Cardinality(taken) \in Nat
      <4>1. Seated(h) \subseteq Allocations
        BY DEF Seated, Existing
      <4>2. IsFiniteSet(taken)
        BY <1>t, <4>1, FS_Subset
      <4> QED
        BY <4>2, FS_CardinalityType
    <3>2. Cardinality(taken) < seats
      BY <1>4, <3>1, CapacitiesAssumption
    <3>3. SeatFree(req[r], h)
      BY <1>1, <1>h, <1>t, <1>s, <3>2 DEF SeatFree
    <3> QED
      BY <2>4, <3>3
  <2>6. ASSUME c.op = "create"
        PROVE  /\ ActiveOf(c.row.rider) = {}
               /\ \A t \in {c.row.pickup, c.row.drop} \ Left(c.checks) :
                    SeatFree(c, t)
    BY <1>0, <1>2, <2>3, <2>4, <2>5, <2>6 DEF FreshFor
  <2>7. ASSUME c.op = "update"
        PROVE  /\ c.id \in Existing
               /\ \A t \in {c.pickup, c.drop} \ Left(c.checks) :
                    \/ t = Null
                    \/ t \in {allocation[c.id].pickup, allocation[c.id].drop}
                    \/ SeatFree(c, t)
    BY <1>0, <1>2, <2>3, <2>4, <2>5, <2>7 DEF FreshFor
  <2>8. FreshFor(c)
    BY <2>2, <2>3, <2>6, <2>7 DEF FreshFor
  <2> QED
    BY <1>0, <2>1, <2>3, <2>8, FreshGoesOn
<1> QED
  BY <1>3, <1>4

\* The seat that is taken was free.
LEMMA SeatTaken ==
  ASSUME IsFiniteSet(Allocations), TransportTypeOK, NEW t \in Trips, NEW q,
         NEW a, SeatFree(q, t), Excluded(q) \subseteq {a},
         Seated(t)' \subseteq (Seated(t) \ Excluded(q)) \cup {a}
  PROVE  trip[t] # Null /\ Cardinality(Seated(t)') <= capacity[trip[t]]
<1> PICK taken : taken = Seated(t) \ Excluded(q)
  OBVIOUS
<1> PICK seats \in Capacities : seats = capacity[trip[t]]
  BY DEF TransportTypeOK, SeatFree
<1>1. IsFiniteSet(taken) /\ Cardinality(taken) \in Nat
  <2>1. taken \subseteq Allocations
    BY DEF Seated, Existing
  <2>2. IsFiniteSet(taken)
    BY <2>1, FS_Subset
  <2> QED
    BY <2>2, FS_CardinalityType
<1>2. /\ IsFiniteSet(taken \cup {a})
      /\ Cardinality(taken \cup {a}) <= Cardinality(taken) + 1
      /\ Cardinality(taken \cup {a}) \in Nat
  <2>1. /\ IsFiniteSet(taken \cup {a})
        /\ \/ Cardinality(taken \cup {a}) = Cardinality(taken)
           \/ Cardinality(taken \cup {a}) = Cardinality(taken) + 1
    BY <1>1, FS_AddElement
  <2> QED
    BY <1>1, <2>1
<1>3. /\ Cardinality(Seated(t)') <= Cardinality(taken \cup {a})
      /\ Cardinality(Seated(t)') \in Nat
  <2>1. IsFiniteSet(Seated(t)')
    BY <1>2, FS_Subset
  <2> QED
    BY <1>2, <2>1, FS_Subset, FS_CardinalityType
<1>4. Cardinality(taken) < seats /\ seats \in Nat /\ trip[t] # Null
  BY CapacitiesAssumption DEF SeatFree
<1> QED
  BY <1>1, <1>2, <1>3, <1>4

LEMMA InsertFresh ==
  ASSUME NEW r, FreshInv(r), IsFiniteSet(Allocations),
         NEW a \in Allocations, InsertAllocation(r, a)
  PROVE  FreshInv(r)' /\ SeatsChecked
<1>0. TransportTypeOK /\ FreshFor(req[r]) /\ r \in Requests
  BY DEF FreshInv
<1> PICK row : row = req[r].row
  OBVIOUS
<1>1. /\ req[r].op = "create" /\ req[r].checks = <<>>
      /\ row \in AllocationRow /\ row # Null /\ row \in AllocationRow \cup {Null}
      /\ a \notin Existing /\ Excluded(req[r]) = {}
  BY <1>0, TransportFields, NoRowAssumption
  DEF InsertAllocation, FreshFor, Excluded
<1>2. /\ allocation' = [allocation EXCEPT ![a] = row]
      /\ Reply(r) /\ UNCHANGED fleet
  BY DEF InsertAllocation
<1>3. allocation \in [Allocations -> AllocationRow \cup {Null}]
  BY <1>0 DEF TransportTypeOK
<1>4. /\ allocation'[a] = row
      /\ \A b \in Allocations \ {a} : allocation'[b] = allocation[b]
      /\ allocation' \in [Allocations -> AllocationRow \cup {Null}]
  BY <1>1, <1>2, <1>3
<1>5. FreshInv(r)'
  BY <1>0, <1>2, <1>4, IdleFresh, FreshOn DEF Reply, TransportTypeOK, fleet
<1>6. ASSUME NEW t \in Trips
      PROVE  Seated(t)' \subseteq Seated(t)
               \/ /\ trip[t] # Null
                  /\ Cardinality(Seated(t)') <= capacity[trip[t]]
  <2>1. \A b \in Seated(t)' : \/ b \in Seated(t)
                              \/ b = a /\ t \in {row.pickup, row.drop}
    BY <1>1, <1>4 DEF Seated, Existing
  <2>2. CASE t \in {row.pickup, row.drop}
    <3>1. SeatFree(req[r], t)
      BY <1>0, <1>1, <2>2, LeftFacts DEF FreshFor
    <3>2. Seated(t)' \subseteq (Seated(t) \ Excluded(req[r])) \cup {a}
      BY <1>1, <2>1
    <3> QED
      BY <1>0, <1>1, <3>1, <3>2, SeatTaken
  <2> QED
    BY <2>1, <2>2
<1>7. ASSUME NEW rider \in Riders
      PROVE  ActiveOf(rider)' \subseteq ActiveOf(rider)
               \/ Cardinality(ActiveOf(rider)') = 1
  <2>1. \A b \in ActiveOf(rider)' : \/ b \in ActiveOf(rider)
                                    \/ b = a /\ row.rider = rider
    BY <1>1, <1>4 DEF ActiveOf, Existing
  <2>2. CASE row.rider = rider
    <3>1. ActiveOf(rider) = {}
      BY <1>0, <1>1, <2>2 DEF FreshFor
    <3>2. ActiveOf(rider)' = {} \/ ActiveOf(rider)' = {a}
      BY <2>1, <3>1
    <3>3. Cardinality({a}) = 1
      BY FS_Singleton
    <3> QED
      BY <3>2, <3>3
  <2> QED
    BY <2>1, <2>2
<1> QED
  BY <1>5, <1>6, <1>7 DEF SeatsChecked

LEMMA WriteFresh ==
  ASSUME NEW r, FreshInv(r), IsFiniteSet(Allocations),
         WriteAllocation(r)
  PROVE  FreshInv(r)' /\ SeatsChecked
<1>0. TransportTypeOK /\ FreshFor(req[r]) /\ r \in Requests
  BY DEF FreshInv
<1> PICK a : a = req[r].id
  OBVIOUS
<1>1. /\ req[r].op = "update" /\ req[r].checks = <<>>
      /\ a \in Existing /\ a \in Allocations /\ allocation[a] \in AllocationRow
      /\ req[r].pickup \in Trips \cup {Null}
      /\ req[r].drop \in Trips \cup {Null}
      /\ req[r].isActive \in ActiveEdits
      /\ Excluded(req[r]) = {a}
  BY <1>0, TransportFields
  DEF WriteAllocation, FreshFor, TransportTypeOK, Existing, Excluded
<1> PICK row : row =
      [rider |-> allocation[a].rider,
       pickup |-> Given(req[r].pickup, allocation[a].pickup),
       drop |-> Given(req[r].drop, allocation[a].drop),
       isActive |-> Given(req[r].isActive, allocation[a].isActive)]
  OBVIOUS
<1>2. row \in AllocationRow /\ row # Null
  BY <1>1, ActiveEditsAssumption, NoRowAssumption DEF AllocationRow, Given
<1>3. \A t \in {row.pickup, row.drop} :
        \/ t \in {allocation[a].pickup, allocation[a].drop}
        \/ t \in {req[r].pickup, req[r].drop}
  BY DEF Given
<1>4. /\ allocation' = [allocation EXCEPT ![a] = row]
      /\ Reply(r) /\ UNCHANGED fleet
  BY DEF WriteAllocation
<1>5. allocation \in [Allocations -> AllocationRow \cup {Null}]
  BY <1>0 DEF TransportTypeOK
<1>6. /\ allocation'[a] = row
      /\ \A b \in Allocations \ {a} : allocation'[b] = allocation[b]
      /\ allocation' \in [Allocations -> AllocationRow \cup {Null}]
  BY <1>1, <1>2, <1>4, <1>5
<1>7. FreshInv(r)'
  BY <1>0, <1>4, <1>6, IdleFresh, FreshOn DEF Reply, TransportTypeOK, fleet
<1>8. SUFFICES ASSUME ~Reactivated(a)
               PROVE  /\ \A t \in Trips : Seated(t)' \subseteq Seated(t)
                           \/ /\ trip[t] # Null
                              /\ Cardinality(Seated(t)') <= capacity[trip[t]]
                      /\ \A rider \in Riders :
                           ActiveOf(rider)' \subseteq ActiveOf(rider)
  BY <1>1, <1>7 DEF SeatsChecked
<1>9. row.isActive => allocation[a].isActive
  BY <1>1, <1>6, <1>8 DEF Reactivated
<1>10. ASSUME NEW t \in Trips
       PROVE  Seated(t)' \subseteq Seated(t)
                \/ /\ trip[t] # Null
                   /\ Cardinality(Seated(t)') <= capacity[trip[t]]
  <2>1. ASSUME NEW b \in Seated(t)', b # a
        PROVE  b \in Seated(t)
    BY <1>6, <2>1 DEF Seated, Existing
  <2>2. ASSUME a \in Seated(t)'
        PROVE  \/ a \in Seated(t)
               \/ t \in {req[r].pickup, req[r].drop}
                    \ {allocation[a].pickup, allocation[a].drop}
    BY <1>1, <1>3, <1>6, <1>9, <2>2 DEF Seated
  <2>3. CASE t \in {req[r].pickup, req[r].drop}
               \ {allocation[a].pickup, allocation[a].drop}
    <3>1. t # Null
      BY NoRowAssumption
    <3>2. SeatFree(req[r], t)
      BY <1>0, <1>1, <2>3, <3>1, LeftFacts DEF FreshFor
    <3>3. Seated(t)' \subseteq (Seated(t) \ Excluded(req[r])) \cup {a}
      BY <1>1, <2>1
    <3> QED
      BY <1>0, <1>1, <3>2, <3>3, SeatTaken
  <2> QED
    BY <2>1, <2>2, <2>3
<1>11. ASSUME NEW rider \in Riders
       PROVE  ActiveOf(rider)' \subseteq ActiveOf(rider)
  BY <1>1, <1>6, <1>9 DEF ActiveOf, Existing
<1> QED
  BY <1>10, <1>11

LEMMA RevokeFresh ==
  ASSUME NEW r, FreshInv(r),
         NEW a \in Allocations, RevokeAllocation(r, a)
  PROVE  FreshInv(r)' /\ SeatsChecked
<1>0. TransportTypeOK /\ r \in Requests
  BY DEF FreshInv
<1>1. a \in Existing /\ allocation[a] \in AllocationRow
  BY <1>0 DEF RevokeAllocation, TransportTypeOK, Existing
<1> PICK row : row = [allocation[a] EXCEPT !.isActive = FALSE]
  OBVIOUS
<1>2. row \in AllocationRow /\ row # Null /\ ~row.isActive
  BY <1>1, NoRowAssumption DEF AllocationRow
<1>3. /\ allocation' = [allocation EXCEPT ![a] = row]
      /\ UNCHANGED <<fleet, req>> /\ req[r] = Idle
  BY DEF RevokeAllocation
<1>4. allocation \in [Allocations -> AllocationRow \cup {Null}]
  BY <1>0 DEF TransportTypeOK
<1>5. /\ allocation'[a] = row
      /\ \A b \in Allocations \ {a} : allocation'[b] = allocation[b]
      /\ allocation' \in [Allocations -> AllocationRow \cup {Null}]
  BY <1>2, <1>3, <1>4
<1>6. /\ \A t : Seated(t)' \subseteq Seated(t)
      /\ \A rider : ActiveOf(rider)' \subseteq ActiveOf(rider)
  BY <1>2, <1>5 DEF Seated, ActiveOf, Existing
<1> QED
  BY <1>0, <1>3, <1>5, <1>6, FreshBetween DEF TransportTypeOK, fleet

LEMMA FleetFresh ==
  ASSUME NEW r, FreshInv(r), req[r] = Idle,
         UNCHANGED <<allocation, req>>,
         capacity' \in [Vehicles -> Capacities],
         trip' \in [Trips -> Vehicles \cup {Null}]
  PROVE  FreshInv(r)' /\ SeatsChecked
<1>1. /\ \A t : Seated(t)' \subseteq Seated(t)
      /\ \A rider : ActiveOf(rider)' \subseteq ActiveOf(rider)
  BY DEF Seated, ActiveOf, Existing
<1> QED
  BY <1>1, FreshBetween DEF FreshInv, TransportTypeOK

LEMMA FreshStep ==
  ASSUME NEW r, FreshInv(r), IsFiniteSet(Allocations),
         TransportHandler(r)
  PROVE  FreshInv(r)' /\ SeatsChecked
<1>1. ASSUME NEW v \in Vehicles, NEW seats \in Capacities,
             UpdateVehicle(r, v, seats)
      PROVE  FreshInv(r)' /\ SeatsChecked
  BY <1>1, FleetFresh DEF UpdateVehicle, FreshInv, TransportTypeOK
<1>2. ASSUME NEW t \in Trips, NEW v \in Vehicles \cup {Null},
             SaveRoute(r, t, v)
      PROVE  FreshInv(r)' /\ SeatsChecked
  BY <1>2, FleetFresh DEF SaveRoute, FreshInv, TransportTypeOK
<1>3. CASE TransportAbandon(r)
  BY <1>3, EndFresh DEF TransportAbandon, Abandon
<1> QED
  BY <1>1, <1>2, <1>3, CreateFresh, UpdateFresh, ReadFresh, CountFresh,
     InsertFresh, WriteFresh, RevokeFresh DEF TransportHandler

-----------------------------------------------------------------------------
(***************************************************************************)
(* Types, for handlers in any number and order: what they hold is in order *)
(* (InOrder), so a check has a trip to look at and an update a row.        *)
(***************************************************************************)
TransportTyped == TransportTypeOK /\ \A r \in Requests : InOrder(r)

LEMMA TransportTypedInit == TransportInit => TransportTyped
<1> SUFFICES ASSUME TransportInit PROVE TransportTyped
  OBVIOUS
<1>1. \A q \in Requests : req[q] = Idle
  BY DEF TransportInit, HandlersInit
<1>2. TransportTypeOK
  BY DEF TransportInit, HandlersInit, TransportTypeOK, TransportRequest
<1> QED
  BY <1>1, <1>2 DEF TransportTyped, InOrder, Idle

LEMMA TransportGoesOn ==
  ASSUME TransportTyped, NEW r \in Requests, NEW c \in TransportRequest,
         Continue(r, c), InOrder(r)', Existing \subseteq Existing',
         capacity' \in [Vehicles -> Capacities],
         trip' \in [Trips -> Vehicles \cup {Null}],
         allocation' \in [Allocations -> AllocationRow \cup {Null}]
  PROVE  TransportTyped'
<1>1. req' \in [Requests -> TransportRequest]
        /\ \A q \in Requests \ {r} : req'[q] = req[q]
  BY DEF TransportTyped, TransportTypeOK, Continue
<1>2. \A q \in Requests \ {r} : InOrder(q)'
  BY <1>1 DEF TransportTyped, InOrder
<1> QED
  BY <1>1, <1>2 DEF TransportTyped, TransportTypeOK

LEMMA TransportEnds ==
  ASSUME TransportTyped, NEW r \in Requests, Reply(r),
         UNCHANGED fleet, Existing \subseteq Existing',
         allocation' \in [Allocations -> AllocationRow \cup {Null}]
  PROVE  TransportTyped'
<1>1. Idle \in TransportRequest /\ Continue(r, Idle)
  BY DEF TransportRequest, Reply
<1>2. req'[r] = Idle
  BY <1>1 DEF Continue, TransportTyped, TransportTypeOK
<1>3. InOrder(r)'
  BY <1>2 DEF InOrder, Idle
<1> QED
  BY <1>1, <1>3, TransportGoesOn DEF TransportTyped, TransportTypeOK, fleet

\* A handler that goes on reads or counts for one of the trips it checks.
LEMMA TransportAdvances ==
  ASSUME TransportTyped, NEW r \in Requests,
         req[r].op \in {"create", "update"},
         NEW at \in {"trip", "count", "write"}, NEW checks \in Seq(Trips),
         NEW seats \in Capacities \cup {Null},
         at = "write" <=> checks = <<>>, at = "count" => seats \in Capacities,
         Continue(r, GoesOn(req[r], at, checks, seats)),
         UNCHANGED <<fleet, allocation>>
  PROVE  TransportTyped'
<1> PICK c : c = GoesOn(req[r], at, checks, seats)
  OBVIOUS
<1>1. StepsTo(req[r], c, at, checks, seats)
  BY Advances DEF TransportTyped
<1>2. Existing' = Existing /\ req'[r] = c
  BY DEF Existing, Continue, TransportTyped, TransportTypeOK
<1>3. InOrder(r)'
  BY <1>1, <1>2 DEF TransportTyped, InOrder, StepsTo
<1> QED
  BY <1>1, <1>2, <1>3, TransportGoesOn
     DEF StepsTo, TransportTyped, TransportTypeOK, fleet

LEMMA TransportStarts ==
  ASSUME TransportTyped, NEW r \in Requests,
         \/ \E rider \in Riders, p \in Trips, d \in Trips :
              CreateAllocation(r, rider, p, d)
         \/ \E a \in Allocations, p \in Trips \cup {Null},
               d \in Trips \cup {Null}, isActive \in ActiveEdits :
              UpdateAllocation(r, a, p, d, isActive)
  PROVE  TransportTyped'
<1>1. ASSUME NEW rider \in Riders, NEW p \in Trips, NEW d \in Trips,
             CreateAllocation(r, rider, p, d)
      PROVE  TransportTyped'
  <2> PICK checks : checks = IF d = p THEN <<p>> ELSE <<p, d>>
    OBVIOUS
  <2> PICK row : row = [rider |-> rider, pickup |-> p, drop |-> d,
                        isActive |-> TRUE]
    OBVIOUS
  <2> PICK c : c = [op |-> "create", at |-> "trip", row |-> row,
                    checks |-> checks, seats |-> Null]
    OBVIOUS
  <2>1. /\ checks \in Seq(Trips) /\ checks # <<>>
        /\ row \in AllocationRow /\ row.isActive
    BY DEF AllocationRow
  <2>2. c \in TransportRequest
    BY <2>1 DEF TransportRequest, CreateReq
  <2>3. Continue(r, c) /\ UNCHANGED <<fleet, allocation>>
    BY <1>1 DEF CreateAllocation
  <2>4. req'[r] = c
    BY <2>3 DEF Continue, TransportTyped, TransportTypeOK
  <2>5. InOrder(r)'
    BY <2>1, <2>4 DEF InOrder
  <2> QED
    BY <2>2, <2>3, <2>5, TransportGoesOn
       DEF Existing, TransportTyped, TransportTypeOK, fleet
<1>2. ASSUME NEW a \in Allocations, NEW p \in Trips \cup {Null},
             NEW d \in Trips \cup {Null}, NEW isActive \in ActiveEdits,
             UpdateAllocation(r, a, p, d, isActive)
      PROVE  TransportTyped'
  <2> PICK checks : checks = TripChecks(allocation[a], p, d)
    OBVIOUS
  <2> PICK c : c = [op |-> "update", at |-> Stage(checks), id |-> a,
                    pickup |-> p, drop |-> d, isActive |-> isActive,
                    checks |-> checks, seats |-> Null]
    OBVIOUS
  <2>1. a \in Existing /\ allocation[a] \in AllocationRow
    BY <1>2 DEF UpdateAllocation, Existing, TransportTyped, TransportTypeOK
  <2>2. checks \in Seq(Trips)
    BY <2>1, ChecksFacts
  <2>3. /\ Stage(checks) \in {"trip", "write"}
        /\ Stage(checks) = "write" <=> checks = <<>>
    BY DEF Stage
  <2>4. c \in TransportRequest
    BY <2>2, <2>3 DEF TransportRequest, UpdateReq
  <2>5. Continue(r, c) /\ UNCHANGED <<fleet, allocation>>
    BY <1>2 DEF UpdateAllocation
  <2>6. req'[r] = c /\ Existing' = Existing
    BY <2>5 DEF Continue, TransportTyped, TransportTypeOK, Existing
  <2>7. InOrder(r)'
    BY <2>1, <2>3, <2>6 DEF InOrder
  <2> QED
    BY <2>4, <2>5, <2>6, <2>7, TransportGoesOn
       DEF TransportTyped, TransportTypeOK, fleet
<1> QED
  BY <1>1, <1>2

LEMMA TransportChecks ==
  ASSUME TransportTyped, NEW r \in Requests, ReadTrip(r) \/ CountSeats(r)
  PROVE  TransportTyped'
<1>1. /\ req[r].op \in {"create", "update"} /\ req[r].checks # <<>>
      /\ req[r].checks \in Seq(Trips) /\ UNCHANGED <<fleet, allocation>>
  BY TransportFields DEF ReadTrip, CountSeats, TransportTyped, InOrder
<1>2. Reply(r) => TransportTyped'
  BY <1>1, TransportEnds DEF Existing, TransportTyped, TransportTypeOK
<1>3. Head(req[r].checks) \in Trips /\ Tail(req[r].checks) \in Seq(Trips)
  BY <1>1, LeftFacts
<1>4. CASE ReadTrip(r) /\ ~Reply(r)
  <2> PICK v \in Vehicles : v = trip[Head(req[r].checks)]
    BY <1>3, <1>4 DEF ReadTrip, TransportTyped, TransportTypeOK
  <2> PICK seats \in Capacities : seats = capacity[v]
    BY DEF TransportTyped, TransportTypeOK
  <2>1. Continue(r, [req[r] EXCEPT !.at = "count", !.seats = seats])
    BY <1>4 DEF ReadTrip
  <2>2. [req[r] EXCEPT !.at = "count", !.seats = seats]
          = GoesOn(req[r], "count", req[r].checks, seats)
    <3>1. CASE req[r].op = "create"
      BY <3>1, TransportFields DEF TransportTyped, CreateReq, GoesOn
    <3>2. CASE req[r].op = "update"
      BY <3>2, TransportFields DEF TransportTyped, UpdateReq, GoesOn
    <3> QED
      BY <1>1, <3>1, <3>2
  <2> PICK checks \in Seq(Trips) : checks = req[r].checks
    BY <1>1
  <2>3. Continue(r, GoesOn(req[r], "count", checks, seats))
    BY <2>1, <2>2
  <2>4. checks # <<>>
    BY <1>1
  <2> QED
    BY <1>1, <2>3, <2>4, TransportAdvances
<1>5. CASE CountSeats(r) /\ ~Reply(r)
  <2> PICK rest \in Seq(Trips) : rest = Tail(req[r].checks)
    BY <1>3
  <2>1. Continue(r, GoesOn(req[r], Stage(rest), rest, Null))
    BY <1>5 DEF CountSeats, GoesOn
  <2> PICK at : at = Stage(rest)
    OBVIOUS
  <2>2. at \in {"trip", "write"} /\ (at = "write" <=> rest = <<>>)
    BY DEF Stage
  <2> QED
    BY <1>1, <2>1, <2>2, TransportAdvances
<1> QED
  BY <1>2, <1>4, <1>5

LEMMA TransportWrites ==
  ASSUME TransportTyped, NEW r \in Requests,
         WriteAllocation(r) \/ \E a \in Allocations : InsertAllocation(r, a)
  PROVE  TransportTyped'
<1>0. allocation \in [Allocations -> AllocationRow \cup {Null}]
  BY DEF TransportTyped, TransportTypeOK
<1>1. ASSUME NEW a \in Allocations, InsertAllocation(r, a)
      PROVE  TransportTyped'
  <2>1. req[r].row \in AllocationRow
    BY <1>1, TransportFields DEF InsertAllocation, TransportTyped
  <2>2. allocation' \in [Allocations -> AllocationRow \cup {Null}]
    BY <1>0, <1>1, <2>1 DEF InsertAllocation
  <2>3. Existing \subseteq Existing'
    BY <1>0, <1>1 DEF InsertAllocation, Existing
  <2> QED
    BY <1>1, <2>2, <2>3, TransportEnds DEF InsertAllocation
<1>2. CASE WriteAllocation(r)
  <2> PICK a : a = req[r].id
    OBVIOUS
  <2>1. /\ a \in Existing /\ allocation[a] \in AllocationRow
        /\ req[r].pickup \in Trips \cup {Null}
        /\ req[r].drop \in Trips \cup {Null}
        /\ req[r].isActive \in ActiveEdits
    BY <1>2, TransportFields
       DEF WriteAllocation, TransportTyped, InOrder, TransportTypeOK, Existing
  <2> PICK row : row =
        [rider |-> allocation[a].rider,
         pickup |-> Given(req[r].pickup, allocation[a].pickup),
         drop |-> Given(req[r].drop, allocation[a].drop),
         isActive |-> Given(req[r].isActive, allocation[a].isActive)]
    OBVIOUS
  <2>2. row \in AllocationRow /\ row # Null
    BY <2>1, ActiveEditsAssumption, NoRowAssumption DEF AllocationRow, Given
  <2>3. allocation' = [allocation EXCEPT ![a] = row]
    BY <1>2 DEF WriteAllocation
  <2>4. allocation' \in [Allocations -> AllocationRow \cup {Null}]
    BY <1>0, <2>2, <2>3
  <2>5. Existing \subseteq Existing'
    BY <1>0, <2>1, <2>2, <2>3 DEF Existing
  <2> QED
    BY <1>2, <2>4, <2>5, TransportEnds DEF WriteAllocation
<1> QED
  BY <1>1, <1>2

LEMMA TransportIdles ==
  ASSUME TransportTyped, NEW r \in Requests,
         \/ \E v \in Vehicles, seats \in Capacities :
              UpdateVehicle(r, v, seats)
         \/ \E t \in Trips, v \in Vehicles \cup {Null} : SaveRoute(r, t, v)
         \/ \E a \in Allocations : RevokeAllocation(r, a)
  PROVE  TransportTyped'
<1>0. /\ capacity \in [Vehicles -> Capacities]
      /\ trip \in [Trips -> Vehicles \cup {Null}]
      /\ allocation \in [Allocations -> AllocationRow \cup {Null}]
  BY DEF TransportTyped, TransportTypeOK
<1>1. ASSUME NEW a \in Allocations, RevokeAllocation(r, a)
      PROVE  /\ allocation' \in [Allocations -> AllocationRow \cup {Null}]
             /\ Existing \subseteq Existing'
  <2>1. allocation[a] \in AllocationRow
    BY <1>0, <1>1 DEF RevokeAllocation, Existing
  <2>2. [allocation[a] EXCEPT !.isActive = FALSE] \in AllocationRow
    BY <2>1 DEF AllocationRow
  <2> QED
    BY <1>0, <1>1, <2>2, NoRowAssumption DEF RevokeAllocation, Existing
<1>2. /\ allocation' \in [Allocations -> AllocationRow \cup {Null}]
      /\ Existing \subseteq Existing'
      /\ capacity' \in [Vehicles -> Capacities]
      /\ trip' \in [Trips -> Vehicles \cup {Null}]
      /\ UNCHANGED req
  BY <1>0, <1>1
     DEF UpdateVehicle, SaveRoute, RevokeAllocation, Existing, fleet
<1>3. \A q \in Requests : InOrder(q)'
  BY <1>2 DEF TransportTyped, InOrder
<1> QED
  BY <1>2, <1>3 DEF TransportTyped, TransportTypeOK

LEMMA TransportTypedStep ==
  ASSUME TransportTyped, TransportNext
  PROVE  TransportTyped'
<1>1. ASSUME NEW r \in Requests, TransportAbandon(r)
      PROVE  TransportTyped'
  BY <1>1, TransportEnds DEF TransportAbandon, Abandon, Existing,
     TransportTyped, TransportTypeOK
<1> QED
  BY <1>1, TransportIdles, TransportStarts, TransportChecks, TransportWrites
     DEF TransportNext, TransportHandler
\* What a handler has found stands, as AllocationsAreChecked and the
\* invariant put it.
LEMMA StandsWhenFresh ==
  ASSUME TransportTyped, NEW r \in Requests
  PROVE  SeatsStand(req[r]) => FreshInv(r)
<1> SUFFICES ASSUME SeatsStand(req[r]) PROVE FreshFor(req[r])
  BY DEF TransportTyped, FreshInv
<1>1. InOrder(r) /\ TransportTypeOK
  BY DEF TransportTyped
<1>2. req[r].op \in {"create", "update"} => req[r] # Idle
  BY DEF Idle
<1> QED
  BY <1>1, <1>2 DEF SeatsStand, FreshFor, InOrder

LEMMA FreshStands ==
  ASSUME NEW r, FreshInv(r)'
  PROVE  SeatsStand(req[r])'
<1>1. /\ FreshFor(req[r])' /\ req'[r] \in TransportRequest
  BY DEF FreshInv, TransportTypeOK
<1>2. req'[r] # Idle => req'[r].op \in {"create", "update"}
  BY <1>1 DEF TransportRequest, CreateReq, UpdateReq
<1> QED
  BY <1>1, <1>2 DEF SeatsStand, FreshFor

\* Whatever handlers do that are not overtaken, no trip gains a rider beyond
\* its vehicle's seats, and no rider a second active allocation, but by the
\* update that sets isActive again.
LEMMA CheckedByAnyHandler ==
  ASSUME IsFiniteSet(Allocations), TransportTyped
  PROVE  AllocationsAreChecked
<1> SUFFICES ASSUME NEW r \in Requests, TransportHandler(r),
                    SeatsStand(req[r])
             PROVE  SeatsStand(req[r])' /\ SeatsChecked
  BY DEF AllocationsAreChecked, SeatsChecked
<1>1. FreshInv(r)
  BY StandsWhenFresh
<1>2. FreshInv(r)' /\ SeatsChecked
  BY <1>1, FreshStep
<1> QED
  BY <1>2, FreshStands
=============================================================================
