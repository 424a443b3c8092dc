------------------------------ MODULE Handlers ------------------------------
(***************************************************************************)
(* What the services of tenant-service share: an HTTP request is an async  *)
(* handler of one Node process in front of PostgreSQL, which runs alone    *)
(* between two awaits and may stop at any await when the call is rejected  *)
(* or the process dies.  A module of a service EXTENDS this one, keeps the *)
(* local variables of its handlers in req and its tables in variables of   *)
(* its own; its actions are the code between two awaits.  A $transaction   *)
(* that only writes is one step (READ COMMITTED, no row is locked by a     *)
(* read), and so is a handler that reads, writes unconditional values and  *)
(* can have nothing of what it read changed under it.                      *)
(***************************************************************************)
EXTENDS Naturals, FiniteSets

CONSTANTS
  Requests,     \* handlers that may be in flight at the same time
  Null          \* SQL NULL, and a field a request leaves undefined

VARIABLE req    \* the handler each request slot is executing

Idle == [op |-> "idle"]

HandlersInit == req = [r \in Requests |-> Idle]

Continue(r, state) == req' = [req EXCEPT ![r] = state]
Reply(r) == Continue(r, Idle)

\* The database rejects the pending call, or the process dies: the handler
\* goes no further and what it has committed stays.
Abandon(r) ==
  /\ req[r] # Idle
  /\ Reply(r)

\* The value of a field after an update that may leave it undefined.
Given(value, current) == IF value = Null THEN current ELSE value

\* The flags of a row that is deleted by setting softDelete.
Presence == {"absent", "live", "deleted"}

\* The keys of the rows that are shown: softDelete false.
LiveIn(table) == {k \in DOMAIN table : table[k] = "live"}
=============================================================================
