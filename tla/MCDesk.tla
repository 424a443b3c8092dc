------------------------------- MODULE MCDesk -------------------------------
(* Small instances of SchoolDesk for TLC. *)
EXTENDS SchoolDesk, TLC

CONSTANTS n1, n2

\* A seed of one name, and of that and another.
MCBatches == {{n1}, {n1, n2}}
MCOneBatch == {{n1, n2}}

\* Day 2 is the second Sunday of its month; day 3 is after the year.
MCWeekday == [d \in Dates |-> IF d = 2 THEN "sunday" ELSE "monday"]
MCOccurrence == [d \in Dates |-> <<MCWeekday[d], IF d = 2 THEN 2 ELSE 1>>]
MCYearDates == Dates \cap 1 .. 2

Row(d, t) == [date |-> d, type |-> t]
Sundays(policy) == [w \in {"sunday", "monday"} |->
                      IF w = "sunday" THEN policy ELSE "none"]
Calendars == {<<Null, Null>>,
              <<Row(1, "Holiday"), Row(3, "Other")>>,
              <<Row(1, "Vacation_Start"), Row(3, "Vacation_End")>>,
              <<Row(2, "Vacation_End"), Row(2, "Vacation_Start")>>}

\* For two handlers: one of the week is off, or none, and a day of the calendar.
FewCalendars == {<<Null, Null>>, <<Row(2, "Holiday"), Null>>}
MCFewWeekends == {Sundays("none"), Sundays("full")}
MCMasterCalendar == <<Row(2, "Holiday"), Null>>

MCWeekendEdits == {Sundays("none"), Sundays("half"), Sundays("full")}
MCMasterWeekend == Sundays("full")
MCMasterMatrix == {<<"sunday", 2>>}
MCMatrixEdits == {{}, MCMasterMatrix}
MCMasterHolidays == 1 :> "CALENDAR" @@ 2 :> "WEEKEND"

\* A school of two levels, and two that are deeper: in one the middle was made
\* before what is below it, in the other after.  In the last the superior of a
\* department and the department of a role are deleted.
Org(superiors, homes) == [superior |-> superiors, home |-> homes]
CONSTANT x1
MCSeedOrg == Org(1 :> Null @@ 2 :> 1, x1 :> 2)
MCMasterOrgs == {Org(1 :> Null @@ 2 :> 1 @@ 3 :> 2, x1 :> 3),
                 Org(1 :> Null @@ 2 :> 3 @@ 3 :> 1, x1 :> 2),
                 Org(2 :> 1 @@ 3 :> Null, x1 :> 1)}
MCFlatOrgs == {Org(1 :> Null, x1 :> 1), Org(2 :> 1, x1 :> 2)}

\* A category above another, and one alone at the top.
Fees(name, place) == [name |-> name, parent |-> place]
Catalog(items, fees) == [items |-> items, fees |-> fees]
MCCatalogues == {Catalog(<<Fees(n1, 0), Fees(n2, 1)>>, {2}),
                 Catalog(<<Fees(n2, 0)>>, {1})}
MCOneCatalogue == {Catalog(<<Fees(n1, 0)>>, {1})}

\* The second display name is the first with a blank at its end.
MCTrimmed == [t \in Titles |-> n1]

\* What a route is saved with: nothing, a new row, a known row on another stop,
\* a known row and a new one, and two known ones in the other order.
Field(id, data) == [id |-> id, data |-> data]
CONSTANTS b1, h1, h2
MCTripForms == {Null, <<Field(1, Null), Field(Null, b1)>>}
MCStopForms == {Null, <<>>, <<Field(Null, <<h1, 1>>)>>,
                <<Field(1, <<h2, 3>>)>>,
                <<Field(1, <<h1, 1>>), Field(Null, <<h2, 2>>)>>,
                <<Field(2, <<h2, 1>>), Field(1, <<h1, 2>>)>>}
MCOneTripForms == {Null, <<Field(Null, b1)>>}
MCOneStopForms == {Null, <<Field(Null, <<h1, 1>>)>>}

MCSeedPlan == [vehicles |-> {b1}, stops |-> {h1, h2},
               routes |-> n1 :> [trips |-> <<b1>>, stops |-> <<h2, h1>>]]
MCOneSeedPlan == [vehicles |-> {b1}, stops |-> {h1},
                  routes |-> n1 :> [trips |-> <<b1>>, stops |-> <<h1>>]]

\* One model value may stand in sets of several services, as rider, pupil,
\* parent and employee, so that one permutation serves them all.  TLC tries
\* every composition of the permutations on every state, of whichever service,
\* so sets whose symmetry gains little are left out.
OverlapSymmetry == Permutations(Requests) \cup Permutations(Riders)
SerialSymmetry == Permutations(Riders) \cup Permutations(Trips)
                    \cup Permutations(Allocations)
=============================================================================
