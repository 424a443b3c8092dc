----------------------------- MODULE FeeLedger -----------------------------
(***************************************************************************)
(* The finance engine of tenant-service for one tenant: fee structures,    *)
(* the invoices generated from them and the payments collected against     *)
(* them (apps/tenant-service/src/finance.service.ts).                      *)
(*                                                                         *)
(* Every HTTP request is an async handler of a Node process in front of    *)
(* PostgreSQL.  The handler runs alone between two awaits, so each action  *)
(* below is the code between two database calls; Requests are the handlers *)
(* that may be in flight at once.  A $transaction runs at READ COMMITTED   *)
(* and no query of this service locks the rows it reads, so a transaction  *)
(* that only writes is one step.                                           *)
(*                                                                         *)
(* Abstracted: the rows of FeePayment are kept as their total per invoice  *)
(* (received), audit events as the set of facts published, an academic     *)
(* year, a class and a category as one key of a structure, and the         *)
(* existence checks on them as always passing.                             *)
(***************************************************************************)
EXTENDS Naturals

CONSTANTS
  Structures,   \* ids of the FeeStructure rows; one per key is enough
  Keys,         \* its unique keys (year, class, category)
  Students,
  Classes,
  Enrolled,     \* live StudentEnrollment rows: class -> students
  Amounts,      \* money amounts the requests carry
  SeedAmount,   \* the amount rule of seedFeeStructures, per key
  Null,         \* SQL NULL, and no row
  Requests,     \* handlers that may be in flight at the same time
  MaxReceived   \* bound: no collection starts that would exceed it

ASSUME EnrolledAssumption == Enrolled \in [Classes -> SUBSET Students]
ASSUME AmountsAssumption == Amounts \subseteq Nat \ {0}
ASSUME SeedAssumption == SeedAmount \in [Keys -> Amounts \cup {Null}]
ASSUME NullAssumption ==
  /\ Null \notin Nat \cup Structures \cup Keys
  /\ Keys # {}
ASSUME BoundAssumption == MaxReceived \in Nat

VARIABLES
  structure,    \* FeeStructure rows
  invoice,      \* FeeInvoice: per (student, structure), its row
  received,     \* the sum of the FeePayment rows of an invoice
  audited,      \* AuditEventRequested events published
  req           \* the handler each request slot is executing

vars == <<structure, invoice, received, audited, req>>

Invoices == Students \X Structures

StructureRow == [state : {"absent", "live", "deleted"},
                 key : Keys \cup {Null}, amount : Amounts \cup {Null}]

NoStructure == [state |-> "absent", key |-> Null, amount |-> Null]

Statuses == {"PENDING", "PARTIAL", "PAID"}

InvoiceRow == [exists : BOOLEAN, amountDue : Nat, amountPaid : Nat,
               status : Statuses]

NoInvoice == [exists |-> FALSE, amountDue |-> 0, amountPaid |-> 0,
              status |-> "PENDING"]

AuditEvents == [entity : {"FeeStructure", "FeeInvoice"}, id : Structures]
                 \cup [entity : {"FeePayment"}, id : Invoices]
                 \cup [entity : {"FeeStructure"}, id : {"BULK"}]

(***************************************************************************)
(* What a handler still holds in its local variables between two awaits.   *)
(***************************************************************************)
Idle == [op |-> "idle"]

GenerateReq == [op : {"generate"}, at : {"select", "insert"},
                structure : Structures, amountDue : Amounts,
                students : SUBSET Students]
CollectReq == [op : {"collect"}, invoice : Invoices, amount : Amounts,
               newAmountPaid : Nat, newStatus : {"PARTIAL", "PAID"}]
DeleteReq == [op : {"delete"}, at : {"count", "update"},
              structure : Structures]
SeedReq == [op : {"seed"}, todo : SUBSET Keys]
SeedWriteReq == [op : {"seedWrite"}, todo : SUBSET Keys, key : Keys,
                 found : Structures \cup {Null}]
AuditReq == [op : {"audit"}, events : SUBSET AuditEvents]

RequestState == {Idle} \cup GenerateReq \cup CollectReq \cup DeleteReq
                  \cup SeedReq \cup SeedWriteReq \cup AuditReq

-----------------------------------------------------------------------------

Init ==
  /\ structure = [s \in Structures |-> NoStructure]
  /\ invoice = [i \in Invoices |-> NoInvoice]
  /\ received = [i \in Invoices |-> 0]
  /\ audited = {}
  /\ req = [r \in Requests |-> Idle]

Continue(r, state) == req' = [req EXCEPT ![r] = state]
Reply(r) == Continue(r, Idle)
ThenAudit(r, events) == Continue(r, [op |-> "audit", events |-> events])

Event(entity, id) == [entity |-> entity, id |-> id]

(***************************************************************************)
(* publishAudit, the last await of every mutation: the event reaches the   *)
(* exchange, or the channel is down and it is lost.  The database write    *)
(* was committed before, either way.                                       *)
(***************************************************************************)
PublishAudit(r) ==
  /\ req[r].op = "audit"
  /\ \/ audited' = audited \cup req[r].events
     \/ UNCHANGED audited
  /\ Reply(r)
  /\ UNCHANGED <<structure, invoice, received>>

(***************************************************************************)
(* FeeStructure                                                            *)
(***************************************************************************)
\* The unique key of the table counts the deleted rows.
KeyFree(k) == \A s \in Structures : structure[s].key # k

CreateFeeStructure(r, s, k, amount) ==
  /\ req[r] = Idle
  /\ structure[s] = NoStructure /\ KeyFree(k)
  /\ structure' = [structure EXCEPT ![s] = [state |-> "live", key |-> k,
                                            amount |-> amount]]
  /\ ThenAudit(r, {Event("FeeStructure", s)})
  /\ UNCHANGED <<invoice, received, audited>>

\* Its invoices stay with a structure that goes to another class.
UpdateFeeStructure(r, s, k, amount) ==
  /\ req[r] = Idle
  /\ structure[s].state = "live"        \* updateMany: count 0 is a 404
  /\ k = structure[s].key \/ KeyFree(k)
  /\ structure' = [structure EXCEPT ![s] = [state |-> "live", key |-> k,
                                            amount |-> amount]]
  /\ ThenAudit(r, {Event("FeeStructure", s)})
  /\ UNCHANGED <<invoice, received, audited>>

DeleteFeeStructure(r, s) ==
  /\ req[r] = Idle
  /\ structure[s].state = "live"
  /\ Continue(r, [op |-> "delete", at |-> "count", structure |-> s])
  /\ UNCHANGED <<structure, invoice, received, audited>>

\* Mutant: only unpaid invoices block the deletion.
HasUnpaidInvoices(s) ==
  \E st \in Students : invoice[<<st, s>>].exists
                         /\ invoice[<<st, s>>].status = "PENDING"

HasInvoices(s) == \E st \in Students : invoice[<<st, s>>].exists

CountInvoices(r) ==
  /\ req[r].op = "delete"
  /\ req[r].at = "count"
  /\ IF HasInvoices(req[r].structure)
       THEN Reply(r)
       ELSE Continue(r, [req[r] EXCEPT !.at = "update"])
  /\ UNCHANGED <<structure, invoice, received, audited>>

SoftDeleteFeeStructure(r) ==
  /\ req[r].op = "delete"
  /\ req[r].at = "update"
  /\ structure' = [structure EXCEPT ![req[r].structure].state = "deleted"]
  /\ ThenAudit(r, {Event("FeeStructure", req[r].structure)})
  /\ UNCHANGED <<invoice, received, audited>>

(***************************************************************************)
(* seedFeeStructures: for every (class, category) of the year, look the    *)
(* row up with soft-deleted rows included; skip a live one, revive a       *)
(* deleted one, create a missing one.  A lost race on the unique key ends  *)
(* the whole request, with the rows written so far left in place.          *)
(***************************************************************************)
SeedFeeStructures(r) ==
  /\ req[r] = Idle
  /\ Continue(r, [op |-> "seed", todo |-> Keys])
  /\ UNCHANGED <<structure, invoice, received, audited>>

SeedFind(r, k) ==
  /\ req[r].op = "seed"
  /\ k \in req[r].todo
  /\ LET rest == req[r].todo \ {k}
         Write(found) == Continue(r, [op |-> "seedWrite", todo |-> rest,
                                      key |-> k, found |-> found])
     IN \/ KeyFree(k) /\ Write(Null)
        \/ \E s \in Structures :
             /\ structure[s].key = k
             /\ IF structure[s].state = "live"
                  THEN Continue(r, [op |-> "seed", todo |-> rest])
                  ELSE Write(s)
  /\ UNCHANGED <<structure, invoice, received, audited>>

\* The row that is revived, or made; where the key was taken meanwhile the
\* request ends (P2002).
SeedWrite(r) ==
  /\ req[r].op = "seedWrite"
  /\ LET k == req[r].key
         found == req[r].found
         Shown(s, key) == [structure EXCEPT
                             ![s] = [state |-> "live", key |-> key,
                                     amount |-> SeedAmount[k]]]
     IN \/ /\ found = Null /\ ~ KeyFree(k)
           /\ Reply(r)
           /\ UNCHANGED structure
        \/ /\ \/ /\ found # Null
                 /\ structure' = Shown(found, structure[found].key)
              \/ /\ found = Null /\ KeyFree(k)
                 /\ \E s \in Structures : /\ structure[s] = NoStructure
                                          /\ structure' = Shown(s, k)
           /\ Continue(r, [op |-> "seed", todo |-> req[r].todo])
  /\ UNCHANGED <<invoice, received, audited>>

\* One event for all of the rows.
SeedDone(r) ==
  /\ req[r].op = "seed"
  /\ req[r].todo = {}
  /\ ThenAudit(r, {Event("FeeStructure", "BULK")})
  /\ UNCHANGED <<structure, invoice, received, audited>>

(***************************************************************************)
(* generateInvoices: the class of the request is not compared with the     *)
(* class of the structure.                                                 *)
(***************************************************************************)
GenerateInvoices(r, s, c) ==
  /\ req[r] = Idle
  /\ structure[s].state = "live"
  /\ structure[s].amount # Null
  /\ Enrolled[c] # {}
  /\ Continue(r, [op |-> "generate", at |-> "select", structure |-> s,
                  amountDue |-> structure[s].amount,
                  students |-> Enrolled[c]])
  /\ UNCHANGED <<structure, invoice, received, audited>>

\* Mutant: the audit event goes out before the insert.
SelectStudentsAuditFirst(r) ==
  /\ req[r].op = "generate"
  /\ req[r].at = "select"
  /\ audited' = audited \cup {Event("FeeInvoice", req[r].structure)}
  /\ Continue(r, [req[r] EXCEPT !.at = "insert"])
  /\ UNCHANGED <<structure, invoice, received>>

SelectStudents(r) ==
  /\ req[r].op = "generate"
  /\ req[r].at = "select"
  /\ LET toCreate == {st \in req[r].students :
                        ~ invoice[<<st, req[r].structure>>].exists} IN
     IF toCreate = {}
       THEN Reply(r)
       ELSE Continue(r, [req[r] EXCEPT !.at = "insert",
                                       !.students = toCreate])
  /\ UNCHANGED <<structure, invoice, received, audited>>

NewInvoice(amountDue) ==
  [exists |-> TRUE, amountDue |-> amountDue, amountPaid |-> 0,
   status |-> "PENDING"]

\* Mutant: createMany overwrites the rows it finds.
InsertInvoicesUpsert(r) ==
  /\ req[r].op = "generate"
  /\ req[r].at = "insert"
  /\ LET batch == req[r].students \X {req[r].structure} IN
     invoice' = [i \in Invoices |-> IF i \in batch
                                      THEN NewInvoice(req[r].amountDue)
                                      ELSE invoice[i]]
  /\ ThenAudit(r, {Event("FeeInvoice", req[r].structure)})
  /\ UNCHANGED <<structure, received, audited>>

\* One createMany: a single duplicate key fails the whole batch.
InsertInvoices(r) ==
  /\ req[r].op = "generate"
  /\ req[r].at = "insert"
  /\ LET batch == req[r].students \X {req[r].structure} IN
     IF \E i \in batch : invoice[i].exists
       THEN /\ Reply(r)
            /\ UNCHANGED invoice
       ELSE /\ invoice' = [i \in Invoices |->
                             IF i \in batch THEN NewInvoice(req[r].amountDue)
                                            ELSE invoice[i]]
            /\ ThenAudit(r, {Event("FeeInvoice", req[r].structure)})
  /\ UNCHANGED <<structure, received, audited>>

(***************************************************************************)
(* collectPayment: the invoice is read outside the transaction that        *)
(* inserts the payment and overwrites amountPaid and status.               *)
(***************************************************************************)
\* Mutant: only waived invoices refuse a payment.
SettledIfWaived == {"WAIVED"}

Settled == {"PAID", "WAIVED"}

\* Mutants: a strict comparison; a status of its own for a part payment.
StatusForStrict(amountPaid, amountDue) ==
  IF amountPaid > amountDue THEN "PAID" ELSE "PARTIAL"

StatusForUnpaid(amountPaid, amountDue) ==
  IF amountPaid >= amountDue THEN "PAID" ELSE "PENDING"

StatusFor(amountPaid, amountDue) ==
  IF amountPaid >= amountDue THEN "PAID" ELSE "PARTIAL"

Collect(r, i, amount, newAmountPaid) ==
  Continue(r, [op |-> "collect", invoice |-> i, amount |-> amount,
               newAmountPaid |-> newAmountPaid,
               newStatus |-> StatusFor(newAmountPaid, invoice[i].amountDue)])

CollectPayment(r, i, amount) ==
  /\ req[r] = Idle
  /\ invoice[i].exists
  /\ invoice[i].status \notin Settled
  /\ received[i] + amount <= MaxReceived       \* bound
  /\ Collect(r, i, amount, invoice[i].amountPaid + amount)
  /\ UNCHANGED <<structure, invoice, received, audited>>

\* Mutant: the invoice is not updated.
CommitPaymentHalf(r) ==
  /\ req[r].op = "collect"
  /\ LET i == req[r].invoice IN
     /\ received' = [received EXCEPT ![i] = @ + req[r].amount]
     /\ ThenAudit(r, {Event("FeePayment", i)})
  /\ UNCHANGED <<structure, invoice, audited>>

CommitPayment(r) ==
  /\ req[r].op = "collect"
  /\ LET i == req[r].invoice IN
     /\ received' = [received EXCEPT ![i] = @ + req[r].amount]
     /\ invoice' = [invoice EXCEPT ![i].amountPaid = req[r].newAmountPaid,
                                   ![i].status = req[r].newStatus]
     /\ ThenAudit(r, {Event("FeePayment", i)})
  /\ UNCHANGED <<structure, audited>>

(***************************************************************************)
(* Any await may reject, and the process may die between two of them: the  *)
(* handler's local state is gone, what it committed stays.                 *)
(***************************************************************************)
Fail(r) ==
  /\ req[r] # Idle
  /\ Reply(r)
  /\ UNCHANGED <<structure, invoice, received, audited>>

-----------------------------------------------------------------------------

Arrive(r) ==
  \/ \E s \in Structures, k \in Keys, a \in Amounts \cup {Null} :
       CreateFeeStructure(r, s, k, a) \/ UpdateFeeStructure(r, s, k, a)
  \/ \E s \in Structures : DeleteFeeStructure(r, s)
  \/ SeedFeeStructures(r)
  \/ \E s \in Structures, c \in Classes : GenerateInvoices(r, s, c)
  \/ \E i \in Invoices, a \in Amounts : CollectPayment(r, i, a)

Proceed(r) ==
  \/ PublishAudit(r)
  \/ CountInvoices(r)
  \/ SoftDeleteFeeStructure(r)
  \/ \E k \in Keys : SeedFind(r, k)
  \/ SeedWrite(r)
  \/ SeedDone(r)
  \/ SelectStudents(r)
  \/ InsertInvoices(r)
  \/ CommitPayment(r)

\* Whatever handler r may do next.
Handler(r) == Arrive(r) \/ Proceed(r) \/ Fail(r)

Next == \E r \in Requests : Handler(r)

Spec == Init /\ [][Next]_vars

-----------------------------------------------------------------------------
(* Properties *)

TypeOK ==
  /\ structure \in [Structures -> StructureRow]
  /\ invoice \in [Invoices -> InvoiceRow]
  /\ received \in [Invoices -> Nat]
  /\ audited \subseteq AuditEvents
  /\ req \in [Requests -> RequestState]

\* An invoice never shows more than was paid into it: whatever stale value a
\* collection overwrites it with, amountPaid stays at or below the sum of its
\* FeePayment rows (collectPayment, concurrent calls on one invoice).
BooksNeverOverstate ==
  \A i \in Invoices : invoice[i].amountPaid <= received[i]

\* The status column and the money columns never disagree, also when two
\* collections overwrite each other: PAID exactly when amountPaid covers
\* amountDue, and PENDING only while no FeePayment row exists.
StatusMatchesMoney ==
  \A i \in Invoices : invoice[i].exists =>
    /\ invoice[i].status = "PAID" <=> invoice[i].amountPaid >= invoice[i].amountDue
    /\ invoice[i].status = "PENDING" <=> received[i] = 0

\* No money is booked, and no collection is about to book money, on an
\* invoice row that does not exist (payments keep a valid foreign key).
PaymentsHaveInvoices ==
  \A i \in Invoices :
    (\/ received[i] > 0
     \/ \E r \in Requests : req[r].op = "collect" /\ req[r].invoice = i)
    => invoice[i].exists

\* What an audit event reports, as a fact about the tables.
Committed(e) ==
  /\ e.entity = "FeePayment" => received[e.id] > 0
  /\ e.entity = "FeeInvoice" =>
       \E st \in Students : invoice[<<st, e.id>>].exists
  /\ e.entity = "FeeStructure" =>
       IF e.id = "BULK"
       THEN \E s \in Structures : structure[s].state # "absent"
       ELSE structure[e.id].state # "absent"

\* The audit trail tells no lies: an event about a payment, an invoice batch
\* or a structure is published only after the row it reports was committed
\* (publishAudit is the last await of every handler).
AuditImpliesEffect == \A e \in audited : Committed(e)

\* An issued invoice is never removed, re-priced or reset by a later request,
\* a second generateInvoices run included.
InvoicesAreKept ==
  [][\A i \in Invoices : invoice[i].exists =>
       /\ invoice'[i].exists
       /\ invoice'[i].amountDue = invoice[i].amountDue
       /\ invoice'[i].status = "PENDING" => invoice[i].status = "PENDING"]_vars

\* What a collection in flight holds is good enough to be written later, however
\* many other collections commit in between: it rests on money that was really
\* received, and its status fits its amount.
InFlightCollections ==
  \A r \in Requests : req[r].op = "collect" =>
    LET q == req[r]
        i == q.invoice
    IN  /\ invoice[i].exists
        /\ q.amount <= q.newAmountPaid
        /\ q.newAmountPaid <= received[i] + q.amount
        /\ q.newStatus = StatusFor(q.newAmountPaid, invoice[i].amountDue)

\* The books are exact: amountPaid is the sum of the FeePayment rows.
\* ("ATOMIC: FeePayment create + FeeInvoice update in one transaction",
\* finance.service.ts:614.)
BooksBalance ==
  \A i \in Invoices : invoice[i].amountPaid = received[i]

\* The structure that an invoice batch was priced by is still shown, and one
\* whose invoices were counted still has none.
StructureStands(q) ==
  /\ q.op = "generate" => structure[q.structure].state = "live"
  /\ q.op = "delete" /\ q.at = "update" => ~ HasInvoices(q.structure)

InvoicedAreLive ==
  \A st \in Students, s \in Structures :
    invoice[<<st, s>>].exists => structure[s].state = "live"

\* A structure with invoices is not deleted ("Cannot delete a fee structure
\* that has active invoices", finance.service.ts:385), however many handlers
\* overlap, but for the one that was overtaken: a deletion by a batch inserted
\* after its count, or a batch by a deletion after it had read the structure.
InvoicedStructuresStayLive ==
  [][\A r \in Requests :
       \/ ~ StructureStands(req[r])
       \/ /\ StructureStands(req[r])'
          /\ InvoicedAreLive => InvoicedAreLive'
       \/ ~ Handler(r)]_vars

\* The books an auditor would draw up from the payments: see FeeBook.
Book ==
  [i \in Invoices |-> [open |-> invoice[i].exists,
                       due |-> invoice[i].amountDue,
                       paid |-> invoice[i].amountPaid,
                       settled |-> invoice[i].status = "PAID"]]

ExactBook == INSTANCE FeeBook WITH book <- Book, Exact <- TRUE
LossyBook == INSTANCE FeeBook WITH book <- Book, Exact <- FALSE

\* Nobody paid into the invoice since the collection read it.
CollectionStands(q) ==
  q.op = "collect" =>
    /\ q.newAmountPaid = invoice[q.invoice].amountPaid + q.amount
    /\ invoice[q.invoice].status \notin Settled

OvertakenCommit ==
  \E r \in Requests : CommitPayment(r) /\ ~ CollectionStands(req[r])

\* However many handlers overlap, a payment on an open invoice is credited in
\* full and a settled invoice takes none, as the exact fee book has it, except
\* by a collection that was overtaken between its read and its commit.
ImplementsExactBook ==
  /\ ExactBook!Init
  /\ [][/\ \A r \in Requests :
            Handler(r) /\ CollectionStands(req[r]) =>
              CollectionStands(req[r])'
        /\ \/ ExactBook!Next
           \/ UNCHANGED <<Book, received>>
           \/ OvertakenCommit]_vars

\* Any number of handlers implements the lossy fee book: a concurrent payment
\* may be credited in part, never in excess of the money received.
ImplementsLossyBook == LossyBook!Spec
=============================================================================
