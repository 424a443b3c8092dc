-------------------------- MODULE FeeLedgerProofs --------------------------
(***************************************************************************)
(* What holds of FeeLedger for any number of students, structures, amounts *)
(* and concurrent handlers; and that only a handler that was overtaken     *)
(* departs from the exact fee book or deletes an invoiced structure.       *)
(***************************************************************************)
EXTENDS FeeLedger, TLAPS

(***************************************************************************)
(* How a request slot moves.                                               *)
(***************************************************************************)
LEMMA ContinueSlot ==
  ASSUME req \in [Requests -> RequestState],
         NEW r \in Requests, NEW state \in RequestState, Continue(r, state)
  PROVE  /\ req' \in [Requests -> RequestState]
         /\ req'[r] = state
         /\ \A q \in Requests : q # r => req'[q] = req[q]
  BY DEF Continue

LEMMA IdleType == Idle \in RequestState
  BY DEF RequestState

LEMMA ReplySlot ==
  ASSUME req \in [Requests -> RequestState], NEW r \in Requests, Reply(r)
  PROVE  /\ req' \in [Requests -> RequestState]
         /\ req'[r] = Idle
         /\ \A q \in Requests : q # r => req'[q] = req[q]
  BY ContinueSlot, IdleType DEF Reply

LEMMA ThenAuditSlot ==
  ASSUME req \in [Requests -> RequestState], NEW r \in Requests,
         NEW events \in SUBSET AuditEvents, ThenAudit(r, events)
  PROVE  /\ req' \in [Requests -> RequestState]
         /\ req'[r] = [op |-> "audit", events |-> events]
         /\ \A q \in Requests : q # r => req'[q] = req[q]
  <1>1. [op |-> "audit", events |-> events] \in RequestState
    BY DEF RequestState, AuditReq
  <1> QED BY <1>1, ContinueSlot DEF ThenAudit

(***************************************************************************)
(* A request's op tells which local variables it has.                      *)
(***************************************************************************)
LEMMA RequestByOp ==
  ASSUME NEW q \in RequestState
  PROVE  /\ q.op = "generate" => q \in GenerateReq
         /\ q.op = "collect" => q \in CollectReq
         /\ q.op = "delete" => q \in DeleteReq
         /\ q.op = "seed" => q \in SeedReq
         /\ q.op = "seedWrite" => q \in SeedWriteReq
         /\ q.op = "audit" => q \in AuditReq
         /\ q = Idle => q.op = "idle"
  BY DEF RequestState, Idle, GenerateReq, CollectReq, DeleteReq, SeedReq,
         SeedWriteReq, AuditReq

LEMMA EventTypes ==
  /\ \A s \in Structures : /\ Event("FeeStructure", s) \in AuditEvents
                           /\ Event("FeeInvoice", s) \in AuditEvents
  /\ \A i \in Invoices : Event("FeePayment", i) \in AuditEvents
  /\ Event("FeeStructure", "BULK") \in AuditEvents
  BY DEF Event, AuditEvents

-----------------------------------------------------------------------------
(* Types *)

LEMMA TypeInit == Init => TypeOK
  BY IdleType
  DEF Init, TypeOK, StructureRow, NoStructure, InvoiceRow, NoInvoice, Statuses

\* One step per action of one handler.
LEMMA TypeNext == TypeOK /\ [Next]_vars => TypeOK'
<1> SUFFICES ASSUME TypeOK, [Next]_vars PROVE TypeOK'
  OBVIOUS
<1> USE DEF TypeOK
<1>1. CASE UNCHANGED vars
  BY <1>1 DEF vars
<1>2. ASSUME NEW r \in Requests, PublishAudit(r) PROVE TypeOK'
  <2>1. req[r] \in AuditReq
    BY <1>2, RequestByOp DEF PublishAudit
  <2>2. audited' \subseteq AuditEvents
    BY <1>2, <2>1 DEF PublishAudit, AuditReq
  <2> QED BY <1>2, <2>2, ReplySlot DEF PublishAudit
<1>3. ASSUME NEW r \in Requests, NEW s \in Structures, NEW k \in Keys,
             NEW a \in Amounts \cup {Null}, CreateFeeStructure(r, s, k, a)
      PROVE TypeOK'
  <2>1. structure' \in [Structures -> StructureRow]
    BY <1>3 DEF CreateFeeStructure, StructureRow
  <2> QED BY <1>3, <2>1, ThenAuditSlot, EventTypes DEF CreateFeeStructure
<1>4. ASSUME NEW r \in Requests, NEW s \in Structures, NEW k \in Keys,
             NEW a \in Amounts \cup {Null}, UpdateFeeStructure(r, s, k, a)
      PROVE TypeOK'
  <2>1. structure' \in [Structures -> StructureRow]
    BY <1>4 DEF UpdateFeeStructure, StructureRow
  <2> QED BY <1>4, <2>1, ThenAuditSlot, EventTypes DEF UpdateFeeStructure
<1>5. ASSUME NEW r \in Requests, NEW s \in Structures,
             DeleteFeeStructure(r, s)
      PROVE TypeOK'
  <2>1. [op |-> "delete", at |-> "count", structure |-> s] \in RequestState
    BY DEF RequestState, DeleteReq
  <2> QED BY <1>5, <2>1, ContinueSlot DEF DeleteFeeStructure
<1>6. ASSUME NEW r \in Requests, CountInvoices(r) PROVE TypeOK'
  <2>1. [req[r] EXCEPT !.at = "update"] \in RequestState
    BY <1>6, RequestByOp DEF CountInvoices, DeleteReq, RequestState
  <2> QED BY <1>6, <2>1, ContinueSlot, ReplySlot DEF CountInvoices
<1>7. ASSUME NEW r \in Requests, SoftDeleteFeeStructure(r) PROVE TypeOK'
  <2>1. req[r].structure \in Structures
    BY <1>7, RequestByOp DEF SoftDeleteFeeStructure, DeleteReq
  <2>2. structure' \in [Structures -> StructureRow]
    BY <1>7, <2>1 DEF SoftDeleteFeeStructure, StructureRow
  <2> QED BY <1>7, <2>1, <2>2, ThenAuditSlot, EventTypes
          DEF SoftDeleteFeeStructure
<1>8. ASSUME NEW r \in Requests, SeedFeeStructures(r) PROVE TypeOK'
  <2>1. [op |-> "seed", todo |-> Keys] \in RequestState
    BY DEF RequestState, SeedReq
  <2> QED BY <1>8, <2>1, ContinueSlot DEF SeedFeeStructures
<1>9. ASSUME NEW r \in Requests, NEW k \in Keys, SeedFind(r, k)
      PROVE TypeOK'
  <2>1. req[r].todo \subseteq Keys
    BY <1>9, RequestByOp DEF SeedFind, SeedReq
  <2>2. PICK state \in SeedReq \cup SeedWriteReq : Continue(r, state)
    <3>1. [op |-> "seed", todo |-> req[r].todo \ {k}] \in SeedReq
      BY <2>1 DEF SeedReq
    <3>2. \A found \in Structures \cup {Null} :
            [op |-> "seedWrite", todo |-> req[r].todo \ {k}, key |-> k,
             found |-> found] \in SeedWriteReq
      BY <2>1 DEF SeedWriteReq
    <3> QED BY <1>9, <3>1, <3>2 DEF SeedFind
  <2>3. state \in RequestState
    BY <2>2 DEF RequestState
  <2> QED BY <1>9, <2>2, <2>3, ContinueSlot DEF SeedFind
<1>10. ASSUME NEW r \in Requests, SeedWrite(r) PROVE TypeOK'
  <2>1. req[r] \in SeedWriteReq
    BY <1>10, RequestByOp DEF SeedWrite
  <2>2. structure' \in [Structures -> StructureRow]
    BY <1>10, <2>1, SeedAssumption DEF SeedWrite, SeedWriteReq, StructureRow
  <2>3. [op |-> "seed", todo |-> req[r].todo] \in RequestState
    BY <2>1 DEF RequestState, SeedReq, SeedWriteReq
  <2> QED BY <1>10, <2>2, <2>3, ContinueSlot, ReplySlot DEF SeedWrite
<1>11. ASSUME NEW r \in Requests, SeedDone(r) PROVE TypeOK'
  <2>1. {Event("FeeStructure", "BULK")} \subseteq AuditEvents
    BY EventTypes
  <2> QED BY <1>11, <2>1, ThenAuditSlot DEF SeedDone
<1>12. ASSUME NEW r \in Requests, NEW s \in Structures, NEW c \in Classes,
              GenerateInvoices(r, s, c)
       PROVE TypeOK'
  <2>1. structure[s].amount \in Amounts /\ Enrolled[c] \subseteq Students
    BY <1>12, EnrolledAssumption DEF GenerateInvoices, StructureRow
  <2>2. [op |-> "generate", at |-> "select", structure |-> s,
         amountDue |-> structure[s].amount, students |-> Enrolled[c]]
           \in RequestState
    BY <2>1 DEF RequestState, GenerateReq
  <2> QED BY <1>12, <2>2, ContinueSlot DEF GenerateInvoices
<1>13. ASSUME NEW r \in Requests, SelectStudents(r) PROVE TypeOK'
  <2> DEFINE toCreate == {st \in req[r].students :
                            ~ invoice[<<st, req[r].structure>>].exists}
  <2>1. req[r] \in GenerateReq
    BY <1>13, RequestByOp DEF SelectStudents
  <2>2. [req[r] EXCEPT !.at = "insert", !.students = toCreate]
          \in RequestState
    BY <2>1 DEF RequestState, GenerateReq
  <2> QED BY <1>13, <2>2, ContinueSlot, ReplySlot DEF SelectStudents
<1>14. ASSUME NEW r \in Requests, InsertInvoices(r) PROVE TypeOK'
  <2>1. req[r] \in GenerateReq
    BY <1>14, RequestByOp DEF InsertInvoices
  <2>2. NewInvoice(req[r].amountDue) \in InvoiceRow
    BY <2>1, AmountsAssumption
    DEF NewInvoice, InvoiceRow, Statuses, GenerateReq
  <2>3. invoice' \in [Invoices -> InvoiceRow]
    BY <1>14, <2>2 DEF InsertInvoices
  <2>4. {Event("FeeInvoice", req[r].structure)} \subseteq AuditEvents
    BY <2>1, EventTypes DEF GenerateReq
  <2> QED BY <1>14, <2>3, <2>4, ThenAuditSlot, ReplySlot DEF InsertInvoices
<1>15. ASSUME NEW r \in Requests, NEW i \in Invoices, NEW a \in Amounts,
              CollectPayment(r, i, a)
       PROVE TypeOK'
  <2> DEFINE total == invoice[i].amountPaid + a
  <2>1. total \in Nat /\ StatusFor(total, invoice[i].amountDue)
                             \in {"PARTIAL", "PAID"}
    BY AmountsAssumption DEF StatusFor, InvoiceRow
  <2>2. [op |-> "collect", invoice |-> i, amount |-> a,
         newAmountPaid |-> total,
         newStatus |-> StatusFor(total, invoice[i].amountDue)]
           \in RequestState
    BY <2>1 DEF RequestState, CollectReq
  <2> QED BY <1>15, <2>2, ContinueSlot DEF CollectPayment, Collect
<1>16. ASSUME NEW r \in Requests, CommitPayment(r) PROVE TypeOK'
  <2>1. req[r] \in CollectReq
    BY <1>16, RequestByOp DEF CommitPayment
  <2>2. invoice' \in [Invoices -> InvoiceRow]
    BY <1>16, <2>1 DEF CommitPayment, CollectReq, InvoiceRow, Statuses
  <2>3. received' \in [Invoices -> Nat]
    BY <1>16, <2>1, AmountsAssumption DEF CommitPayment, CollectReq
  <2>4. {Event("FeePayment", req[r].invoice)} \subseteq AuditEvents
    BY <2>1, EventTypes DEF CollectReq
  <2> QED BY <1>16, <2>2, <2>3, <2>4, ThenAuditSlot DEF CommitPayment
<1>17. ASSUME NEW r \in Requests, Fail(r) PROVE TypeOK'
  BY <1>17, ReplySlot DEF Fail
<1> QED
  BY <1>1, <1>2, <1>3, <1>4, <1>5, <1>6, <1>7, <1>8, <1>9, <1>10, <1>11,
     <1>12, <1>13, <1>14, <1>15, <1>16, <1>17 DEF Next, Handler, Arrive, Proceed

\* Every table and every handler keeps its shape.
THEOREM TypeCorrect == Spec => []TypeOK
  BY TypeInit, TypeNext, PTL DEF Spec

-----------------------------------------------------------------------------
(* Money *)

\* The two columns of one row, with the payments it received.
RowInv(i) ==
  /\ ~ invoice[i].exists => invoice[i] = NoInvoice /\ received[i] = 0
  /\ invoice[i].exists => invoice[i].amountDue \in Amounts
  /\ invoice[i].status = "PENDING" =>
       invoice[i].amountPaid = 0 /\ received[i] = 0
  /\ invoice[i].status # "PENDING" =>
       /\ received[i] > 0
       /\ invoice[i].status = StatusFor(invoice[i].amountPaid,
                                        invoice[i].amountDue)
  /\ invoice[i].amountPaid <= received[i]

\* A collection in flight, judged against the row it will overwrite.
CollectionInv(q) ==
  /\ invoice[q.invoice].exists
  /\ q.amount <= q.newAmountPaid
  /\ q.newAmountPaid <= received[q.invoice] + q.amount
  /\ q.newStatus = StatusFor(q.newAmountPaid, invoice[q.invoice].amountDue)

\* The inductive invariant.  The row part alone is not inductive: a commit
\* writes what the handler computed earlier, so that must be bounded too.
MoneyInv ==
  /\ \A i \in Invoices : RowInv(i)
  /\ \A r \in Requests : req[r].op = "collect" => CollectionInv(req[r])

LEMMA MoneyInit == Init => MoneyInv
  BY DEF Init, MoneyInv, RowInv, CollectionInv, NoInvoice, Idle

\* Steps that write neither invoices nor payments and start no collection.
LEMMA MoneyQuiet ==
  ASSUME MoneyInv, UNCHANGED <<invoice, received>>,
         \A q \in Requests : req'[q].op = "collect" => req'[q] = req[q]
  PROVE  MoneyInv'
  BY DEF MoneyInv, RowInv, CollectionInv, StatusFor

\* The same, for a step of one handler.
LEMMA MoneyQuietStep ==
  ASSUME MoneyInv, UNCHANGED <<invoice, received>>, NEW r \in Requests,
         req'[r].op # "collect",
         \A q \in Requests : q # r => req'[q] = req[q]
  PROVE  MoneyInv'
  BY MoneyQuiet

LEMMA MoneyCollect ==
  ASSUME TypeOK, MoneyInv, NEW r \in Requests, NEW i \in Invoices,
         NEW a \in Amounts, CollectPayment(r, i, a)
  PROVE  MoneyInv'
<1> DEFINE total == invoice[i].amountPaid + a
           state == [op |-> "collect", invoice |-> i, amount |-> a,
                     newAmountPaid |-> total,
                     newStatus |-> StatusFor(total, invoice[i].amountDue)]
<1>1. /\ total \in Nat /\ a <= total /\ total <= received[i] + a
      /\ invoice[i].exists
  BY AmountsAssumption
  DEF CollectPayment, TypeOK, InvoiceRow, MoneyInv, RowInv
<1>2. state \in RequestState
  BY <1>1, AmountsAssumption
  DEF RequestState, CollectReq, StatusFor, TypeOK, InvoiceRow
<1>3. req'[r] = state /\ \A q \in Requests : q # r => req'[q] = req[q]
  BY <1>2, ContinueSlot DEF CollectPayment, Collect, TypeOK
<1>4. UNCHANGED <<invoice, received>>
  BY DEF CollectPayment
<1>5. CollectionInv(req[r])'
  BY <1>1, <1>3, <1>4 DEF CollectionInv, StatusFor
<1>6. ASSUME NEW q \in Requests, q # r, req'[q].op = "collect"
      PROVE CollectionInv(req[q])'
  BY <1>3, <1>4, <1>6 DEF MoneyInv, CollectionInv, StatusFor
<1>7. ASSUME NEW j \in Invoices PROVE RowInv(j)'
  BY <1>4 DEF MoneyInv, RowInv, StatusFor
<1> QED
  BY <1>5, <1>6, <1>7 DEF MoneyInv

LEMMA MoneyCommit ==
  ASSUME TypeOK, MoneyInv, NEW r \in Requests, CommitPayment(r)
  PROVE  MoneyInv'
<1>1. req[r] \in CollectReq
  BY RequestByOp DEF CommitPayment, TypeOK
<1>i. PICK i \in Invoices : i = req[r].invoice
  BY <1>1 DEF CollectReq
<1>2. /\ req[r].amount \in Nat /\ req[r].amount > 0
      /\ req[r].newAmountPaid \in Nat /\ received[i] \in Nat
  BY <1>1, <1>i, AmountsAssumption DEF CollectReq, TypeOK
<1>3. CollectionInv(req[r])
  BY DEF CommitPayment, MoneyInv
<1>4. /\ received' = [received EXCEPT ![i] = received[i] + req[r].amount]
      /\ invoice'[i].exists = invoice[i].exists
      /\ invoice'[i].amountDue = invoice[i].amountDue
      /\ invoice'[i].amountPaid = req[r].newAmountPaid
      /\ invoice'[i].status = req[r].newStatus
      /\ \A j \in Invoices : j # i => invoice'[j] = invoice[j]
  BY <1>2, <1>i DEF CommitPayment, TypeOK, InvoiceRow
<1>5. /\ req'[r].op = "audit"
      /\ \A q \in Requests : q # r => req'[q] = req[q]
  <2>1. {Event("FeePayment", i)} \subseteq AuditEvents
    BY EventTypes
  <2>2. ThenAudit(r, {Event("FeePayment", i)})
    BY <1>i DEF CommitPayment
  <2>3. req'[r] = [op |-> "audit", events |-> {Event("FeePayment", i)}]
    BY <2>1, <2>2, ThenAuditSlot DEF TypeOK
  <2>4. \A q \in Requests : q # r => req'[q] = req[q]
    BY <2>1, <2>2, ThenAuditSlot DEF TypeOK
  <2> QED BY <2>3, <2>4
<1>6. RowInv(i)'
  <2>1. received'[i] = received[i] + req[r].amount
    BY <1>2, <1>4 DEF TypeOK
  <2>2. invoice'[i].status # "PENDING"
    BY <1>1, <1>4 DEF CollectReq
  <2> QED
    BY <1>2, <1>3, <1>4, <1>i, <2>1, <2>2
    DEF RowInv, MoneyInv, CollectionInv, StatusFor
<1>7. ASSUME NEW j \in Invoices, j # i PROVE RowInv(j)'
  BY <1>4, <1>7 DEF RowInv, MoneyInv, StatusFor, TypeOK
<1>8. ASSUME NEW q \in Requests, req'[q].op = "collect"
      PROVE CollectionInv(req[q])'
  <2>1. q # r /\ req'[q] = req[q]
    BY <1>5, <1>8
  <2>2. req[q] \in CollectReq /\ CollectionInv(req[q])
    BY <1>8, <2>1, RequestByOp DEF TypeOK, MoneyInv
  <2>3. /\ req[q].invoice \in Invoices /\ req[q].amount \in Nat
        /\ req[q].newAmountPaid \in Nat /\ received[req[q].invoice] \in Nat
    BY <2>2, AmountsAssumption DEF CollectReq, TypeOK
  <2>4. /\ received'[req[q].invoice] >= received[req[q].invoice]
        /\ received'[req[q].invoice] \in Nat
    BY <1>2, <1>4, <2>3 DEF TypeOK
  <2>5. /\ invoice'[req[q].invoice].exists
        /\ invoice'[req[q].invoice].amountDue
             = invoice[req[q].invoice].amountDue
    BY <1>4, <2>2, <2>3 DEF CollectionInv
  <2> QED
    BY <2>1, <2>2, <2>3, <2>4, <2>5 DEF CollectionInv, StatusFor
<1> QED
  BY <1>6, <1>7, <1>8 DEF MoneyInv

LEMMA MoneyInsert ==
  ASSUME TypeOK, MoneyInv, NEW r \in Requests, InsertInvoices(r)
  PROVE  MoneyInv'
<1> DEFINE batch == req[r].students \X {req[r].structure}
<1>1. req[r] \in GenerateReq
  BY RequestByOp DEF InsertInvoices, TypeOK
<1>2. {Event("FeeInvoice", req[r].structure)} \subseteq AuditEvents
  BY <1>1, EventTypes DEF GenerateReq
<1>3. /\ req'[r].op # "collect"
      /\ \A q \in Requests : q # r => req'[q] = req[q]
  <2>1. Reply(r) \/ ThenAudit(r, {Event("FeeInvoice", req[r].structure)})
    BY DEF InsertInvoices
  <2>2. CASE Reply(r)
    BY <2>2, ReplySlot DEF TypeOK, Idle
  <2>3. CASE ThenAudit(r, {Event("FeeInvoice", req[r].structure)})
    <3>1. req'[r] = [op |-> "audit",
                     events |-> {Event("FeeInvoice", req[r].structure)}]
      BY <1>2, <2>3, ThenAuditSlot DEF TypeOK
    <3> QED BY <1>2, <2>3, <3>1, ThenAuditSlot DEF TypeOK
  <2> QED BY <2>1, <2>2, <2>3
<1>4. CASE UNCHANGED invoice
  BY <1>3, <1>4, MoneyQuietStep DEF InsertInvoices
<1>5. CASE ~ UNCHANGED invoice
  <2>1. /\ invoice' = [i \in Invoices |->
                         IF i \in batch THEN NewInvoice(req[r].amountDue)
                                        ELSE invoice[i]]
        /\ \A i \in batch : ~ invoice[i].exists
        /\ UNCHANGED received
    BY <1>5 DEF InsertInvoices
  <2>2. ASSUME NEW i \in Invoices PROVE RowInv(i)'
    <3>1. CASE i \in batch
      <4>1. received[i] = 0
        BY <2>1, <3>1 DEF MoneyInv, RowInv
      <4>2. invoice'[i] = NewInvoice(req[r].amountDue)
        BY <2>1, <3>1
      <4> QED
        BY <1>1, <2>1, <4>1, <4>2 DEF RowInv, NewInvoice, GenerateReq
    <3>2. CASE i \notin batch
      BY <2>1, <3>2 DEF MoneyInv, RowInv, StatusFor
    <3> QED BY <3>1, <3>2
  <2>3. ASSUME NEW q \in Requests, req'[q].op = "collect"
        PROVE CollectionInv(req[q])'
    <3>1. req'[q] = req[q] /\ CollectionInv(req[q]) /\ req[q] \in CollectReq
      BY <1>3, <2>3, RequestByOp DEF MoneyInv, TypeOK
    <3>2. invoice'[req[q].invoice] = invoice[req[q].invoice]
      BY <2>1, <3>1 DEF CollectionInv, CollectReq
    <3> QED BY <2>1, <3>1, <3>2 DEF CollectionInv, StatusFor
  <2> QED BY <2>2, <2>3 DEF MoneyInv
<1> QED BY <1>4, <1>5

\* Every other action leaves the money alone.
LEMMA MoneyNext == TypeOK /\ MoneyInv /\ [Next]_vars => MoneyInv'
<1> SUFFICES ASSUME TypeOK, MoneyInv, [Next]_vars PROVE MoneyInv'
  OBVIOUS
<1> DEFINE Quiet(r) == /\ UNCHANGED <<invoice, received>>
                       /\ req'[r].op # "collect"
                       /\ \A q \in Requests : q # r => req'[q] = req[q]
<1>1. CASE UNCHANGED vars
  BY <1>1, MoneyQuiet DEF vars
<1>2. ASSUME NEW r \in Requests, PublishAudit(r) \/ Fail(r) PROVE Quiet(r)
  BY <1>2, ReplySlot DEF PublishAudit, Fail, TypeOK, Idle
<1>3. ASSUME NEW r \in Requests, NEW s \in Structures, NEW k \in Keys,
             NEW a \in Amounts \cup {Null},
             CreateFeeStructure(r, s, k, a) \/ UpdateFeeStructure(r, s, k, a)
      PROVE Quiet(r)
  BY <1>3 DEF CreateFeeStructure, UpdateFeeStructure, ThenAudit, Continue,
              TypeOK
<1>4. ASSUME NEW r \in Requests,
             \/ \E s \in Structures : DeleteFeeStructure(r, s)
             \/ \E k \in Keys : SeedFind(r, k)
      PROVE Quiet(r)
  BY <1>4 DEF DeleteFeeStructure, SeedFind, Continue, TypeOK
<1>5. ASSUME NEW r \in Requests, CountInvoices(r) PROVE Quiet(r)
  <2>1. req[r] \in DeleteReq
    BY <1>5, RequestByOp DEF CountInvoices, TypeOK
  <2> DEFINE next == [req[r] EXCEPT !.at = "update"]
  <2>2. next.op = "delete"
    BY <2>1 DEF DeleteReq
  <2>3. Reply(r) \/ Continue(r, next)
    BY <1>5 DEF CountInvoices
  <2> HIDE DEF next
  <2> QED BY <1>5, <2>2, <2>3 DEF CountInvoices, Reply, Continue, TypeOK, Idle
<1>6. ASSUME NEW r \in Requests,
             SoftDeleteFeeStructure(r) \/ SeedFeeStructures(r)
               \/ SeedDone(r) \/ SeedWrite(r)
      PROVE Quiet(r)
  BY <1>6 DEF SoftDeleteFeeStructure, SeedFeeStructures, SeedDone, SeedWrite,
              ThenAudit, Reply, Continue, TypeOK, Idle
<1>7. ASSUME NEW r \in Requests, NEW s \in Structures, NEW c \in Classes,
             GenerateInvoices(r, s, c)
      PROVE Quiet(r)
  BY <1>7 DEF GenerateInvoices, Continue, TypeOK
<1>8. ASSUME NEW r \in Requests, SelectStudents(r) PROVE Quiet(r)
  <2> DEFINE toCreate == {st \in req[r].students :
                            ~ invoice[<<st, req[r].structure>>].exists}
  <2>1. req[r] \in GenerateReq
    BY <1>8, RequestByOp DEF SelectStudents, TypeOK
  <2> DEFINE next == [req[r] EXCEPT !.at = "insert", !.students = toCreate]
  <2>2. next.op = "generate"
    BY <2>1 DEF GenerateReq
  <2>3. Reply(r) \/ Continue(r, next)
    BY <1>8 DEF SelectStudents
  <2> HIDE DEF next
  <2> QED BY <1>8, <2>2, <2>3 DEF SelectStudents, Reply, Continue, TypeOK, Idle
<1> QED
  BY <1>1, <1>2, <1>3, <1>4, <1>5, <1>6, <1>7, <1>8,
     MoneyQuietStep, MoneyCollect, MoneyCommit, MoneyInsert
  DEF Next, Handler, Arrive, Proceed

LEMMA MoneyCorrect == Spec => []MoneyInv
  BY MoneyInit, MoneyNext, TypeCorrect, PTL DEF Spec

\* No invoice shows more money than was paid into it, however many
\* collections overlap.
THEOREM NeverOverstated == Spec => []BooksNeverOverstate
<1>1. MoneyInv => BooksNeverOverstate
  BY DEF MoneyInv, RowInv, BooksNeverOverstate
<1> QED BY <1>1, MoneyCorrect, PTL

\* The status of an invoice always fits its amounts and payments.
THEOREM StatusCorrect == Spec => []StatusMatchesMoney
<1>1. TypeOK /\ MoneyInv => StatusMatchesMoney
  BY AmountsAssumption
  DEF MoneyInv, RowInv, StatusMatchesMoney, StatusFor, TypeOK, InvoiceRow,
      Statuses
<1> QED BY <1>1, MoneyCorrect, TypeCorrect, PTL

\* Money is only ever booked on an invoice that exists.
THEOREM PaymentsCorrect == Spec => []PaymentsHaveInvoices
<1>1. TypeOK /\ MoneyInv => PaymentsHaveInvoices
  BY DEF MoneyInv, RowInv, CollectionInv, PaymentsHaveInvoices, TypeOK
<1> QED BY <1>1, MoneyCorrect, TypeCorrect, PTL

\* What a collection in flight holds can be committed later.
THEOREM InFlightCorrect == Spec => []InFlightCollections
<1>1. TypeOK /\ MoneyInv => InFlightCollections
  BY DEF MoneyInv, CollectionInv, InFlightCollections
<1> QED BY <1>1, MoneyCorrect, TypeCorrect, PTL

-----------------------------------------------------------------------------
(* Refinement of the lossy fee book *)

LEMMA BookInit == Init => LossyBook!Init
<1> SUFFICES ASSUME Init PROVE LossyBook!Init
  OBVIOUS
<1>1. ASSUME NEW i \in Invoices PROVE Book[i] = LossyBook!Unissued
  <2>1. invoice[i] = NoInvoice
    BY DEF Init
  <2>2. (invoice[i].status = "PAID") = FALSE
    BY <2>1 DEF NoInvoice
  <2>3. /\ invoice[i].exists = FALSE
        /\ invoice[i].amountDue = 0 /\ invoice[i].amountPaid = 0
    BY <2>1 DEF NoInvoice
  <2>4. Book[i] = [open |-> invoice[i].exists, due |-> invoice[i].amountDue,
                   paid |-> invoice[i].amountPaid,
                   settled |-> (invoice[i].status = "PAID")]
    BY DEF Book
  <2> QED BY <2>2, <2>3, <2>4, Zenon DEF LossyBook!Unissued
<1>2. Book = [i \in Invoices |-> LossyBook!Unissued]
  BY <1>1 DEF Book
<1> QED BY <1>2 DEF Init, LossyBook!Init

\* A committed payment is a payment received and credited at least with its
\* own amount and at most with all the money received.
LEMMA BookReceive ==
  ASSUME TypeOK, MoneyInv, NEW r \in Requests, CommitPayment(r)
  PROVE  LossyBook!Next
<1>1. req[r] \in CollectReq
  BY RequestByOp DEF CommitPayment, TypeOK
<1>2. PICK i \in Invoices : i = req[r].invoice
  BY <1>1 DEF CollectReq
<1>3. PICK a \in Amounts : a = req[r].amount
  BY <1>1 DEF CollectReq
<1>4. PICK paid \in Nat : paid = req[r].newAmountPaid
  BY <1>1 DEF CollectReq
<1>5. /\ a \in Nat /\ a > 0 /\ received[i] \in Nat
      /\ invoice[i] \in InvoiceRow
  BY AmountsAssumption DEF TypeOK
<1>6. /\ invoice[i].exists /\ a <= paid /\ paid <= received[i] + a
      /\ req[r].newStatus = StatusFor(paid, invoice[i].amountDue)
  BY <1>2, <1>3, <1>4 DEF CommitPayment, MoneyInv, CollectionInv
<1>7. /\ received' = [received EXCEPT ![i] = received[i] + a]
      /\ invoice' = [invoice EXCEPT
                       ![i].amountPaid = paid,
                       ![i].status = StatusFor(paid, invoice[i].amountDue)]
  BY <1>2, <1>3, <1>4, <1>6 DEF CommitPayment
<1>8. paid \in LossyBook!Credits(i, a)
  BY <1>5, <1>6 DEF LossyBook!Credits
<1>9. Book' = [Book EXCEPT ![i].paid = paid,
                           ![i].settled = paid >= Book[i].due]
  <2>1. /\ invoice'[i] = [invoice[i] EXCEPT
                            !.amountPaid = paid,
                            !.status = StatusFor(paid, invoice[i].amountDue)]
        /\ \A j \in Invoices : j # i => invoice'[j] = invoice[j]
    BY <1>7 DEF TypeOK
  <2>2. /\ invoice'[i].exists = invoice[i].exists
        /\ invoice'[i].amountDue = invoice[i].amountDue
        /\ invoice'[i].amountPaid = paid
        /\ invoice'[i].status = StatusFor(paid, invoice[i].amountDue)
    BY <1>5, <2>1 DEF InvoiceRow
  <2>3. (invoice'[i].status = "PAID") = (paid >= invoice[i].amountDue)
    BY <2>2 DEF StatusFor
  <2> QED BY <2>1, <2>2, <2>3 DEF Book
<1>10. LossyBook!Receive(i, a)
  BY <1>6, <1>7, <1>8, <1>9 DEF LossyBook!Receive, Book
<1> QED BY <1>10 DEF LossyBook!Next

\* A batch of invoices is issued in one step, or not at all.
LEMMA IssuedBatch ==
  ASSUME TypeOK, NEW r \in Requests, InsertInvoices(r), ~ UNCHANGED invoice
  PROVE  \E batch \in SUBSET Invoices, due \in Amounts :
           LossyBook!Issue(batch, due)
<1>1. req[r] \in GenerateReq
  BY RequestByOp DEF InsertInvoices, TypeOK
<1>2. PICK batch \in SUBSET Invoices :
        batch = req[r].students \X {req[r].structure}
  BY <1>1 DEF GenerateReq, Invoices
<1>3. PICK due \in Amounts : due = req[r].amountDue
  BY <1>1 DEF GenerateReq
<1>4. /\ invoice' = [i \in Invoices |-> IF i \in batch THEN NewInvoice(due)
                                                       ELSE invoice[i]]
      /\ \A i \in batch : ~ invoice[i].exists
      /\ UNCHANGED received
  BY <1>2, <1>3 DEF InsertInvoices
<1>5. ASSUME NEW i \in Invoices
      PROVE Book'[i] = IF i \in batch
                         THEN [open |-> TRUE, due |-> due, paid |-> 0,
                               settled |-> FALSE]
                         ELSE Book[i]
  BY <1>4 DEF Book, NewInvoice
<1>6. Book' = [i \in Invoices |->
                IF i \in batch
                  THEN [open |-> TRUE, due |-> due, paid |-> 0,
                        settled |-> FALSE]
                  ELSE Book[i]]
  BY <1>5 DEF Book
<1> QED BY <1>4, <1>6 DEF LossyBook!Issue, Book

\* Only these two actions touch an invoice or the money.
LEMMA MoneySteps ==
  ASSUME [Next]_vars, ~ UNCHANGED <<invoice, received>>
  PROVE  \E r \in Requests : InsertInvoices(r) \/ CommitPayment(r)
  BY DEF Next, Handler, vars, Arrive, Proceed, PublishAudit, Fail, CreateFeeStructure,
         UpdateFeeStructure, DeleteFeeStructure, CountInvoices,
         SoftDeleteFeeStructure, SeedFeeStructures, SeedFind, SeedWrite,
         SeedDone, GenerateInvoices, SelectStudents, CollectPayment

LEMMA BookNext ==
  TypeOK /\ MoneyInv /\ [Next]_vars => [LossyBook!Next]_<<Book, received>>
<1> SUFFICES ASSUME TypeOK, MoneyInv, [Next]_vars
             PROVE  LossyBook!Next \/ UNCHANGED <<Book, received>>
  OBVIOUS
<1>1. CASE UNCHANGED <<invoice, received>>
  BY <1>1 DEF Book
<1>2. ASSUME NEW r \in Requests, InsertInvoices(r)
      PROVE  LossyBook!Next \/ UNCHANGED <<Book, received>>
  <2>1. CASE UNCHANGED invoice
    BY <1>2, <2>1 DEF InsertInvoices, Book
  <2>2. CASE ~ UNCHANGED invoice
    BY <1>2, <2>2, IssuedBatch DEF LossyBook!Next
  <2> QED BY <2>1, <2>2
<1> QED BY <1>1, <1>2, BookReceive, MoneySteps

\* Any number of overlapping handlers implements the lossy fee book.
THEOREM RefinesLossyBook == Spec => ImplementsLossyBook
<1>1. Spec => LossyBook!Init /\ [][LossyBook!Next]_<<Book, received>>
  BY BookInit, BookNext, TypeCorrect, MoneyCorrect, PTL DEF Spec
<1> QED BY <1>1 DEF ImplementsLossyBook, LossyBook!Spec, LossyBook!bookVars

-----------------------------------------------------------------------------
(* The audit trail *)

\* What each handler holds: an event about to be published is committed, a
\* structure being deleted exists, a batch about to be inserted is not empty,
\* and a seed that has dealt with a key leaves a row.
SomeMade == \E s \in Structures : structure[s].state # "absent"

SlotInv(q) ==
  /\ q.op = "generate" => q.at = "select" \/ q.students # {}
  /\ q.op = "audit" => \A e \in q.events : Committed(e)
  /\ q.op = "delete" => structure[q.structure].state # "absent"
  /\ q.op = "seed" => q.todo = Keys \/ SomeMade

\* The inductive invariant.
AuditInv ==
  /\ AuditImpliesEffect
  /\ \A r \in Requests : SlotInv(req[r])

\* No step undoes what an audit event reports.
Durable ==
  /\ \A s \in Structures :
       structure[s].state # "absent" => structure'[s].state # "absent"
  /\ \A i \in Invoices : invoice[i].exists => invoice'[i].exists
  /\ \A i \in Invoices : received[i] > 0 => received'[i] > 0

LEMMA CommittedDurable ==
  ASSUME Durable, NEW e \in AuditEvents, Committed(e) PROVE Committed(e)'
  BY DEF Durable, Committed, AuditEvents, Invoices

LEMMA NextDurable == TypeOK /\ AuditInv /\ [Next]_vars => Durable
<1> SUFFICES ASSUME TypeOK, AuditInv, [Next]_vars PROVE Durable
  OBVIOUS
<1>1. CASE UNCHANGED <<structure, invoice, received>>
  BY <1>1 DEF Durable
<1>2. ASSUME NEW r \in Requests, CommitPayment(r) PROVE Durable
  <2>1. req[r] \in CollectReq
    BY <1>2, RequestByOp DEF CommitPayment, TypeOK
  <2> QED BY <1>2, <2>1, AmountsAssumption
          DEF CommitPayment, Durable, TypeOK, InvoiceRow, CollectReq
<1>3. ASSUME NEW r \in Requests, InsertInvoices(r) PROVE Durable
  BY <1>3 DEF InsertInvoices, Durable, NewInvoice, TypeOK
<1>4. ASSUME NEW r \in Requests, NEW s \in Structures, NEW k \in Keys,
             NEW a \in Amounts \cup {Null},
             CreateFeeStructure(r, s, k, a) \/ UpdateFeeStructure(r, s, k, a)
      PROVE Durable
  BY <1>4 DEF CreateFeeStructure, UpdateFeeStructure, Durable, TypeOK,
              StructureRow
<1>5. ASSUME NEW r \in Requests, SoftDeleteFeeStructure(r) \/ SeedWrite(r)
      PROVE Durable
  BY <1>5 DEF SoftDeleteFeeStructure, SeedWrite, Durable, TypeOK, StructureRow
<1> QED
  BY <1>1, <1>2, <1>3, <1>4, <1>5
  DEF Next, Handler, vars, Arrive, Proceed, PublishAudit, Fail, DeleteFeeStructure,
      CountInvoices, SeedFeeStructures, SeedFind, SeedDone, GenerateInvoices,
      SelectStudents, CollectPayment

LEMMA AuditInit == Init => AuditInv
  BY DEF Init, AuditInv, AuditImpliesEffect, SlotInv, Idle

LEMMA SlotDurable ==
  ASSUME Durable, NEW q \in RequestState, SlotInv(q),
         NEW r \in Requests, req'[r] = q
  PROVE  SlotInv(req[r])'
<1>1. q.op = "audit" => \A e \in q.events : Committed(e)'
  BY RequestByOp, CommittedDurable DEF SlotInv, AuditReq
<1>2. q.op = "delete" => structure'[q.structure].state # "absent"
  BY RequestByOp DEF SlotInv, Durable, DeleteReq
<1>3. q.op = "seed" => q.todo = Keys \/ SomeMade'
  BY DEF SlotInv, Durable, SomeMade
<1>4. q.op = "generate" => q.at = "select" \/ q.students # {}
  BY DEF SlotInv
<1> QED BY <1>1, <1>2, <1>3, <1>4 DEF SlotInv

\* It is enough that a step is durable, publishes only what is committed, and
\* leaves its own slot in order.
LEMMA AuditStep ==
  ASSUME TypeOK, AuditInv, Durable, NEW r \in Requests,
         \A q \in Requests : q # r => req'[q] = req[q],
         \/ audited' = audited
         \/ req[r].op = "audit" /\ audited' = audited \cup req[r].events,
         SlotInv(req[r])'
  PROVE  AuditInv'
<1>1. \A e \in audited' : e \in AuditEvents /\ Committed(e)
  BY RequestByOp DEF TypeOK, AuditInv, AuditImpliesEffect, SlotInv, AuditReq
<1>2. AuditImpliesEffect'
  BY <1>1, CommittedDurable DEF AuditImpliesEffect
<1>3. ASSUME NEW q \in Requests, q # r PROVE SlotInv(req[q])'
  BY <1>3, SlotDurable DEF TypeOK, AuditInv
<1> QED BY <1>2, <1>3 DEF AuditInv

\* A slot that is not publishing, deleting or seeding has nothing to keep.
LEMMA SlotIdle ==
  ASSUME NEW r \in Requests, req'[r].op \in {"idle", "collect"}
  PROVE  SlotInv(req[r])'
  BY DEF SlotInv

LEMMA AuditNext == TypeOK /\ AuditInv /\ [Next]_vars => AuditInv'
<1> SUFFICES ASSUME TypeOK, AuditInv, [Next]_vars PROVE AuditInv'
  OBVIOUS
<1>d. Durable
  BY NextDurable
<1>1. CASE UNCHANGED vars
  BY <1>1 DEF vars, AuditInv, AuditImpliesEffect, Committed, SlotInv, SomeMade
<1>2. ASSUME NEW r \in Requests, PublishAudit(r) \/ Fail(r) PROVE AuditInv'
  <2>1. req'[r].op = "idle" /\ \A q \in Requests : q # r => req'[q] = req[q]
    BY <1>2, ReplySlot DEF PublishAudit, Fail, TypeOK, Idle
  <2> QED BY <1>d, <1>2, <2>1, SlotIdle, AuditStep DEF PublishAudit, Fail
<1>3. ASSUME NEW r \in Requests, NEW s \in Structures, NEW k \in Keys,
             NEW a \in Amounts \cup {Null},
             CreateFeeStructure(r, s, k, a) \/ UpdateFeeStructure(r, s, k, a)
      PROVE AuditInv'
  <2>1. /\ req'[r] = [op |-> "audit", events |-> {Event("FeeStructure", s)}]
        /\ \A q \in Requests : q # r => req'[q] = req[q]
    BY <1>3, EventTypes, ThenAuditSlot
    DEF CreateFeeStructure, UpdateFeeStructure, TypeOK
  <2>2. structure'[s].state # "absent"
    BY <1>3 DEF CreateFeeStructure, UpdateFeeStructure, TypeOK, StructureRow
  <2>3. SlotInv(req[r])'
    BY <2>1, <2>2 DEF SlotInv, Committed, Event
  <2> QED BY <1>d, <1>3, <2>1, <2>3, AuditStep
          DEF CreateFeeStructure, UpdateFeeStructure
<1>4. ASSUME NEW r \in Requests, NEW s \in Structures,
             DeleteFeeStructure(r, s)
      PROVE AuditInv'
  <2>1. /\ req'[r] = [op |-> "delete", at |-> "count", structure |-> s]
        /\ \A q \in Requests : q # r => req'[q] = req[q]
    BY <1>4 DEF DeleteFeeStructure, Continue, TypeOK
  <2>2. SlotInv(req[r])'
    BY <1>4, <2>1 DEF SlotInv, DeleteFeeStructure
  <2> QED BY <1>d, <1>4, <2>1, <2>2, AuditStep DEF DeleteFeeStructure
<1>5. ASSUME NEW r \in Requests, CountInvoices(r) PROVE AuditInv'
  <2>1. req[r] \in DeleteReq /\ SlotInv(req[r])
    BY <1>5, RequestByOp DEF CountInvoices, TypeOK, AuditInv
  <2> DEFINE next == [req[r] EXCEPT !.at = "update"]
  <2>2. next.op = "delete" /\ next.structure = req[r].structure
    BY <2>1 DEF DeleteReq
  <2>3. Reply(r) \/ Continue(r, next)
    BY <1>5 DEF CountInvoices
  <2> HIDE DEF next
  <2>4. /\ \/ req'[r].op = "idle"
           \/ req'[r].op = "delete" /\ req'[r].structure = req[r].structure
        /\ \A q \in Requests : q # r => req'[q] = req[q]
    BY <2>2, <2>3 DEF Reply, Continue, TypeOK, Idle
  <2>5. SlotInv(req[r])'
    BY <1>5, <2>1, <2>4 DEF SlotInv, CountInvoices
  <2> QED BY <1>d, <1>5, <2>4, <2>5, AuditStep DEF CountInvoices
<1>6. ASSUME NEW r \in Requests, SoftDeleteFeeStructure(r) PROVE AuditInv'
  <2>1. req[r] \in DeleteReq
    BY <1>6, RequestByOp DEF SoftDeleteFeeStructure, TypeOK
  <2>2. PICK s \in Structures : s = req[r].structure
    BY <2>1 DEF DeleteReq
  <2>3. /\ req'[r] = [op |-> "audit", events |-> {Event("FeeStructure", s)}]
        /\ \A q \in Requests : q # r => req'[q] = req[q]
    BY <1>6, <2>2, EventTypes, ThenAuditSlot
    DEF SoftDeleteFeeStructure, TypeOK
  <2>4. structure'[s].state # "absent"
    BY <1>6, <2>2 DEF SoftDeleteFeeStructure, TypeOK, StructureRow
  <2>5. SlotInv(req[r])'
    BY <2>3, <2>4 DEF SlotInv, Committed, Event
  <2> QED BY <1>d, <1>6, <2>3, <2>5, AuditStep DEF SoftDeleteFeeStructure
<1>7. ASSUME NEW r \in Requests, SeedFeeStructures(r) PROVE AuditInv'
  <2>1. /\ req'[r] = [op |-> "seed", todo |-> Keys]
        /\ \A q \in Requests : q # r => req'[q] = req[q]
    BY <1>7 DEF SeedFeeStructures, Continue, TypeOK
  <2>2. SlotInv(req[r])'
    BY <2>1 DEF SlotInv
  <2> QED BY <1>d, <1>7, <2>1, <2>2, AuditStep DEF SeedFeeStructures
<1>8. ASSUME NEW r \in Requests, NEW k \in Keys, SeedFind(r, k)
      PROVE AuditInv'
  <2>1. UNCHANGED structure
    BY <1>8 DEF SeedFind
  <2>2. /\ \/ req'[r].op = "seed" /\ SomeMade
           \/ req'[r].op = "seedWrite"
        /\ \A q \in Requests : q # r => req'[q] = req[q]
    BY <1>8 DEF SeedFind, Continue, TypeOK, SomeMade
  <2>3. SlotInv(req[r])'
    BY <2>1, <2>2 DEF SlotInv, SomeMade
  <2> QED BY <1>d, <1>8, <2>2, <2>3, AuditStep DEF SeedFind
<1>9. ASSUME NEW r \in Requests, SeedWrite(r) PROVE AuditInv'
  <2>1. req[r] \in SeedWriteReq
    BY <1>9, RequestByOp DEF SeedWrite, TypeOK
  <2>2. /\ \/ req'[r] = Idle
           \/ req'[r].op = "seed" /\ SomeMade'
        /\ \A q \in Requests : q # r => req'[q] = req[q]
    BY <1>9, <2>1
    DEF SeedWrite, Reply, Continue, TypeOK, SeedWriteReq, SomeMade
  <2>3. SlotInv(req[r])'
    BY <2>2 DEF SlotInv, Idle
  <2> QED BY <1>d, <1>9, <2>2, <2>3, AuditStep DEF SeedWrite
<1>10. ASSUME NEW r \in Requests, SeedDone(r) PROVE AuditInv'
  <2>0. /\ {Event("FeeStructure", "BULK")} \in SUBSET AuditEvents
        /\ ThenAudit(r, {Event("FeeStructure", "BULK")})
    BY <1>10, EventTypes DEF SeedDone
  <2>1. /\ req'[r] = [op |-> "audit",
                      events |-> {Event("FeeStructure", "BULK")}]
        /\ \A q \in Requests : q # r => req'[q] = req[q]
    BY <2>0, ThenAuditSlot DEF TypeOK
  <2>2. SomeMade'
    BY <1>10, NullAssumption DEF SeedDone, AuditInv, SlotInv, SomeMade
  <2>3. SlotInv(req[r])'
    BY <2>1, <2>2 DEF SlotInv, Committed, Event, SomeMade
  <2> QED BY <1>d, <1>10, <2>1, <2>3, AuditStep DEF SeedDone
<1>11. ASSUME NEW r \in Requests, NEW s \in Structures, NEW c \in Classes,
              GenerateInvoices(r, s, c)
       PROVE AuditInv'
  <2>1. /\ req'[r].op = "generate" /\ req'[r].at = "select"
        /\ \A q \in Requests : q # r => req'[q] = req[q]
    BY <1>11 DEF GenerateInvoices, Continue, TypeOK
  <2>2. SlotInv(req[r])'
    BY <2>1 DEF SlotInv
  <2> QED BY <1>d, <1>11, <2>1, <2>2, AuditStep DEF GenerateInvoices
<1>12. ASSUME NEW r \in Requests, SelectStudents(r) PROVE AuditInv'
  <2> DEFINE toCreate == {st \in req[r].students :
                            ~ invoice[<<st, req[r].structure>>].exists}
             next == [req[r] EXCEPT !.at = "insert", !.students = toCreate]
  <2>1. next.op = "generate" /\ next.students = toCreate
    BY <1>12, RequestByOp DEF SelectStudents, TypeOK, GenerateReq
  <2>2. Reply(r) \/ (toCreate # {} /\ Continue(r, next))
    BY <1>12 DEF SelectStudents
  <2> HIDE DEF next, toCreate
  <2>3. /\ \/ req'[r].op = "idle"
           \/ req'[r].op = "generate" /\ req'[r].students # {}
        /\ \A q \in Requests : q # r => req'[q] = req[q]
    BY <2>1, <2>2 DEF Reply, Continue, TypeOK, Idle
  <2>4. SlotInv(req[r])'
    BY <2>3 DEF SlotInv
  <2> QED BY <1>d, <1>12, <2>3, <2>4, AuditStep DEF SelectStudents
<1>13. ASSUME NEW r \in Requests, InsertInvoices(r) PROVE AuditInv'
  <2>1. req[r] \in GenerateReq
    BY <1>13, RequestByOp DEF InsertInvoices, TypeOK
  <2>2. CASE Reply(r)
    BY <1>d, <1>13, <2>2, ReplySlot, SlotIdle, AuditStep
    DEF InsertInvoices, TypeOK, Idle
  <2>3. CASE ~ Reply(r)
    <3> DEFINE event == Event("FeeInvoice", req[r].structure)
    <3>1. /\ req'[r] = [op |-> "audit", events |-> {event}]
          /\ \A q \in Requests : q # r => req'[q] = req[q]
      BY <1>13, <2>1, <2>3, EventTypes, ThenAuditSlot
      DEF InsertInvoices, TypeOK, GenerateReq
    <3>2. \E st \in Students : invoice'[<<st, req[r].structure>>].exists
      <4>1. PICK st \in req[r].students : TRUE
        BY <1>13 DEF InsertInvoices, AuditInv, SlotInv
      <4>2. invoice'[<<st, req[r].structure>>] = NewInvoice(req[r].amountDue)
        BY <1>13, <2>1, <2>3, <4>1 DEF InsertInvoices, Invoices, GenerateReq
      <4> QED BY <2>1, <4>1, <4>2 DEF NewInvoice, GenerateReq
    <3>3. SlotInv(req[r])'
      BY <3>1, <3>2 DEF SlotInv, Committed, Event
    <3> QED BY <1>d, <1>13, <3>1, <3>3, AuditStep DEF InsertInvoices
  <2> QED BY <2>2, <2>3
<1>14. ASSUME NEW r \in Requests, NEW i \in Invoices, NEW a \in Amounts,
              CollectPayment(r, i, a)
       PROVE AuditInv'
  <2>1. /\ req'[r].op = "collect"
        /\ \A q \in Requests : q # r => req'[q] = req[q]
    BY <1>14 DEF CollectPayment, Collect, Continue, TypeOK
  <2> QED BY <1>d, <1>14, <2>1, SlotIdle, AuditStep DEF CollectPayment
<1>15. ASSUME NEW r \in Requests, CommitPayment(r) PROVE AuditInv'
  <2>1. req[r] \in CollectReq
    BY <1>15, RequestByOp DEF CommitPayment, TypeOK
  <2>2. PICK i \in Invoices : i = req[r].invoice
    BY <2>1 DEF CollectReq
  <2>3. /\ req'[r] = [op |-> "audit", events |-> {Event("FeePayment", i)}]
        /\ \A q \in Requests : q # r => req'[q] = req[q]
    BY <1>15, <2>2, EventTypes, ThenAuditSlot DEF CommitPayment, TypeOK
  <2>4. received'[i] > 0
    BY <1>15, <2>1, <2>2, AmountsAssumption
    DEF CommitPayment, TypeOK, CollectReq
  <2>5. SlotInv(req[r])'
    BY <2>3, <2>4 DEF SlotInv, Committed, Event
  <2> QED BY <1>d, <1>15, <2>3, <2>5, AuditStep DEF CommitPayment
<1> QED
  BY <1>1, <1>2, <1>3, <1>4, <1>5, <1>6, <1>7, <1>8, <1>9, <1>10, <1>11,
     <1>12, <1>13, <1>14, <1>15 DEF Next, Handler, Arrive, Proceed

\* Nothing is ever audited that was not committed first.
THEOREM AuditCorrect == Spec => []AuditImpliesEffect
<1>1. AuditInv => AuditImpliesEffect
  BY DEF AuditInv
<1> QED BY <1>1, AuditInit, AuditNext, TypeCorrect, PTL DEF Spec

-----------------------------------------------------------------------------
(* Action property *)

\* An issued invoice is never removed, re-priced or returned to PENDING.
THEOREM InvoicesKept == Spec => InvoicesAreKept
<1> DEFINE Kept == \A i \in Invoices : invoice[i].exists =>
                     /\ invoice'[i].exists
                     /\ invoice'[i].amountDue = invoice[i].amountDue
                     /\ invoice'[i].status = "PENDING" =>
                          invoice[i].status = "PENDING"
<1>1. TypeOK /\ [Next]_vars => [Kept]_vars
  <2> SUFFICES ASSUME TypeOK, [Next]_vars PROVE Kept
    OBVIOUS
  <2>1. CASE UNCHANGED invoice
    BY <2>1
  <2>2. ASSUME NEW r \in Requests, CommitPayment(r) PROVE Kept
    <3>1. req[r] \in CollectReq
      BY <2>2, RequestByOp DEF CommitPayment, TypeOK
    <3> QED BY <2>2, <3>1 DEF CommitPayment, TypeOK, InvoiceRow, CollectReq
  <2>3. ASSUME NEW r \in Requests, InsertInvoices(r) PROVE Kept
    BY <2>3 DEF InsertInvoices
  <2> QED
    BY <2>1, <2>2, <2>3, MoneySteps
<1> QED BY <1>1, TypeCorrect, PTL DEF Spec, InvoicesAreKept
-----------------------------------------------------------------------------
(***************************************************************************)
(* What one handler does whose reads still hold, whoever else is about.    *)
(***************************************************************************)
\* What InvoicedStructuresStayLive asks of a step of handler r.
StructureKept(r) ==
  /\ StructureStands(req[r])'
  /\ InvoicedAreLive => InvoicedAreLive'

\* A step that leaves the tables alone need only look to its own slot ...
LEMMA StructuresQuiet ==
  ASSUME NEW r \in Requests, UNCHANGED <<structure, invoice>>,
         StructureStands(req[r])'
  PROVE  StructureKept(r)
  BY DEF StructureKept, InvoicedAreLive

\* ... and one that keeps no structure only to the tables.
LEMMA StructuresEnd ==
  ASSUME NEW r \in Requests, InvoicedAreLive => InvoicedAreLive',
         req'[r].op \in {"idle", "audit", "seed", "seedWrite", "collect"}
  PROVE  StructureKept(r)
  BY DEF StructureKept, StructureStands

LEMMA StructuresStep ==
  ASSUME NEW r \in Requests, TypeOK, StructureStands(req[r]), Handler(r)
  PROVE  StructureKept(r)
<1>t. UNCHANGED <<structure, invoice>> => (InvoicedAreLive => InvoicedAreLive')
  BY DEF InvoicedAreLive
<1>l. UNCHANGED invoice /\ (\A u \in Structures : structure[u].state = "live"
                              => structure'[u].state = "live")
        => (InvoicedAreLive => InvoicedAreLive')
  BY DEF InvoicedAreLive
<1>2. CASE PublishAudit(r) \/ Fail(r)
  BY <1>2, <1>t, StructuresEnd, ReplySlot DEF PublishAudit, Fail, TypeOK, Idle
<1>3. ASSUME NEW s \in Structures, NEW k \in Keys,
             NEW a \in Amounts \cup {Null},
             CreateFeeStructure(r, s, k, a) \/ UpdateFeeStructure(r, s, k, a)
      PROVE  StructureKept(r)
  <2>1. req'[r].op = "audit"
    BY <1>3
    DEF CreateFeeStructure, UpdateFeeStructure, ThenAudit, Continue, TypeOK
  <2>2. \A u \in Structures :
          structure[u].state = "live" => structure'[u].state = "live"
    BY <1>3
    DEF CreateFeeStructure, UpdateFeeStructure, TypeOK, StructureRow
  <2> QED BY <1>3, <1>l, <2>1, <2>2, StructuresEnd
          DEF CreateFeeStructure, UpdateFeeStructure
<1>4. ASSUME NEW s \in Structures, DeleteFeeStructure(r, s)
      PROVE  StructureKept(r)
  <2>1. req'[r] = [op |-> "delete", at |-> "count", structure |-> s]
    BY <1>4 DEF DeleteFeeStructure, Continue, TypeOK
  <2>2. StructureStands(req[r])'
    BY <2>1 DEF StructureStands
  <2> QED BY <1>4, <2>2, StructuresQuiet DEF DeleteFeeStructure
<1>5. CASE CountInvoices(r)
  <2>1. req[r] \in DeleteReq
    BY <1>5, RequestByOp DEF CountInvoices, TypeOK
  <2> DEFINE next == [req[r] EXCEPT !.at = "update"]
  <2>2. next.op = "delete" /\ next.structure = req[r].structure
    BY <2>1 DEF DeleteReq
  <2>3. \/ Reply(r)
        \/ ~ HasInvoices(req[r].structure) /\ Continue(r, next)
    BY <1>5 DEF CountInvoices
  <2> HIDE DEF next
  <2>4. \/ req'[r].op = "idle"
        \/ /\ req'[r].op = "delete" /\ req'[r].structure = req[r].structure
           /\ ~ HasInvoices(req[r].structure)
    BY <2>2, <2>3 DEF Reply, Continue, TypeOK, Idle
  <2>5. StructureStands(req[r])'
    BY <1>5, <2>4 DEF StructureStands, CountInvoices, HasInvoices
  <2> QED BY <1>5, <2>5, StructuresQuiet DEF CountInvoices
<1>6. CASE SoftDeleteFeeStructure(r)
  <2>1. req[r] \in DeleteReq
    BY <1>6, RequestByOp DEF SoftDeleteFeeStructure, TypeOK
  <2>2. PICK s \in Structures : s = req[r].structure
    BY <2>1 DEF DeleteReq
  <2>3. ~ HasInvoices(s)
    BY <1>6, <2>2 DEF SoftDeleteFeeStructure, StructureStands
  <2>4. \A u \in Structures \ {s} : structure'[u] = structure[u]
    BY <1>6, <2>2 DEF SoftDeleteFeeStructure, TypeOK
  <2>5. InvoicedAreLive => InvoicedAreLive'
    BY <1>6, <2>3, <2>4
    DEF SoftDeleteFeeStructure, InvoicedAreLive, HasInvoices
  <2>6. req'[r].op = "audit"
    BY <1>6 DEF SoftDeleteFeeStructure, ThenAudit, Continue, TypeOK
  <2> QED BY <2>5, <2>6, StructuresEnd
<1>7. CASE SeedFeeStructures(r) \/ SeedDone(r)
  <2>1. req'[r].op \in {"seed", "audit"}
    BY <1>7 DEF SeedFeeStructures, SeedDone, ThenAudit, Continue, TypeOK
  <2> QED BY <1>7, <1>t, <2>1, StructuresEnd DEF SeedFeeStructures, SeedDone
<1>8. ASSUME NEW k \in Keys, SeedFind(r, k) PROVE StructureKept(r)
  <2>1. req'[r].op \in {"seed", "seedWrite"}
    BY <1>8 DEF SeedFind, Continue, TypeOK
  <2> QED BY <1>8, <1>t, <2>1, StructuresEnd DEF SeedFind
<1>9. CASE SeedWrite(r)
  <2>1. req[r] \in SeedWriteReq
    BY <1>9, RequestByOp DEF SeedWrite, TypeOK
  <2>2. \A u \in Structures :
          structure[u].state = "live" => structure'[u].state = "live"
    BY <1>9, <2>1 DEF SeedWrite, TypeOK, SeedWriteReq
  <2>3. req'[r].op \in {"seed", "idle"}
    BY <1>9 DEF SeedWrite, Reply, Continue, TypeOK, Idle
  <2> QED BY <1>9, <1>l, <2>2, <2>3, StructuresEnd DEF SeedWrite
<1>10. ASSUME NEW s \in Structures, NEW c \in Classes,
              GenerateInvoices(r, s, c)
       PROVE  StructureKept(r)
  <2>1. req'[r].op = "generate" /\ req'[r].structure = s
    BY <1>10 DEF GenerateInvoices, Continue, TypeOK
  <2>2. StructureStands(req[r])'
    BY <1>10, <2>1 DEF StructureStands, GenerateInvoices
  <2> QED BY <1>10, <2>2, StructuresQuiet DEF GenerateInvoices
<1>11. CASE SelectStudents(r)
  <2> DEFINE toCreate == {st \in req[r].students :
                            ~ invoice[<<st, req[r].structure>>].exists}
             next == [req[r] EXCEPT !.at = "insert", !.students = toCreate]
  <2>1. next.op = "generate" /\ next.structure = req[r].structure
    BY <1>11, RequestByOp DEF SelectStudents, TypeOK, GenerateReq
  <2>2. Reply(r) \/ Continue(r, next)
    BY <1>11 DEF SelectStudents
  <2> HIDE DEF next, toCreate
  <2>3. \/ req'[r].op = "idle"
        \/ req'[r].op = "generate" /\ req'[r].structure = req[r].structure
    BY <2>1, <2>2 DEF Reply, Continue, TypeOK, Idle
  <2>4. StructureStands(req[r])'
    BY <1>11, <2>3 DEF SelectStudents, StructureStands
  <2> QED BY <1>11, <2>4, StructuresQuiet DEF SelectStudents
<1>12. CASE InsertInvoices(r)
  <2>1. req[r] \in GenerateReq
    BY <1>12, RequestByOp DEF InsertInvoices, TypeOK
  <2>2. PICK s \in Structures : s = req[r].structure
    BY <2>1 DEF GenerateReq
  <2>3. structure[s].state = "live"
    BY <1>12, <2>2 DEF InsertInvoices, StructureStands
  <2>4. \A i \in Invoices : invoice'[i] = invoice[i] \/ i[2] = s
    BY <1>12, <2>2 DEF InsertInvoices
  <2>5. InvoicedAreLive => InvoicedAreLive'
    BY <1>12, <2>3, <2>4 DEF InsertInvoices, InvoicedAreLive, Invoices
  <2>6. req'[r].op \in {"idle", "audit"}
    BY <1>12 DEF InsertInvoices, ThenAudit, Reply, Continue, TypeOK, Idle
  <2> QED BY <2>5, <2>6, StructuresEnd
<1>13. ASSUME NEW i \in Invoices, NEW a \in Amounts, CollectPayment(r, i, a)
       PROVE  StructureKept(r)
  <2>1. req'[r].op = "collect"
    BY <1>13 DEF CollectPayment, Collect, Continue, TypeOK
  <2> QED BY <1>13, <1>t, <2>1, StructuresEnd DEF CollectPayment
<1>14. CASE CommitPayment(r)
  <2>1. req[r] \in CollectReq
    BY <1>14, RequestByOp DEF CommitPayment, TypeOK
  <2>2. \A j \in Invoices : invoice'[j].exists = invoice[j].exists
    BY <1>14, <2>1 DEF CommitPayment, TypeOK, InvoiceRow, CollectReq
  <2>3. InvoicedAreLive => InvoicedAreLive'
    BY <1>14, <2>2 DEF CommitPayment, InvoicedAreLive, Invoices
  <2>4. req'[r].op = "audit"
    BY <1>14 DEF CommitPayment, ThenAudit, Continue, TypeOK
  <2> QED BY <2>3, <2>4, StructuresEnd
<1> QED
  BY <1>2, <1>3, <1>4, <1>5, <1>6, <1>7, <1>8, <1>9, <1>10, <1>11,
     <1>12, <1>13, <1>14 DEF Handler, Arrive, Proceed

\* However many handlers overlap, only a deletion that was overtaken by a
\* batch of invoices, or a batch that was overtaken by a deletion, leaves an
\* invoice without its structure (deleteFeeStructure, generateInvoices).
THEOREM InvoicedLive == Spec => InvoicedStructuresStayLive
<1> DEFINE Kept == \A r \in Requests :
                     \/ ~ StructureStands(req[r])
                     \/ /\ StructureStands(req[r])'
                        /\ InvoicedAreLive => InvoicedAreLive'
                     \/ ~ Handler(r)
<1>1. TypeOK => Kept
  BY StructuresStep DEF StructureKept
<1> HIDE DEF Kept
<1>2. Spec => [][Kept]_vars
  BY <1>1, TypeCorrect, PTL
<1> QED
  BY <1>2 DEF InvoicedStructuresStayLive, Kept

-----------------------------------------------------------------------------
(* The exact fee book *)

LEMMA CollectionStep ==
  ASSUME NEW r \in Requests, TypeOK, CollectionStands(req[r]), Handler(r)
  PROVE  CollectionStands(req[r])'
<1>1. ASSUME NEW i \in Invoices, NEW a \in Amounts, CollectPayment(r, i, a)
      PROVE  CollectionStands(req[r])'
  <2>1. /\ req'[r].op = "collect" /\ req'[r].invoice = i
        /\ req'[r].newAmountPaid = invoice[i].amountPaid + a
        /\ req'[r].amount = a
    BY <1>1 DEF CollectPayment, Collect, Continue, TypeOK
  <2> QED BY <1>1, <2>1 DEF CollectPayment, CollectionStands
<1>2. ASSUME req'[r].op # "collect"
      PROVE  CollectionStands(req[r])'
  BY <1>2 DEF CollectionStands
<1>3. ASSUME \/ PublishAudit(r) \/ Fail(r) \/ SoftDeleteFeeStructure(r)
             \/ SeedFeeStructures(r) \/ SeedWrite(r) \/ SeedDone(r)
             \/ InsertInvoices(r) \/ CommitPayment(r)
      PROVE  req'[r].op # "collect"
  BY <1>3
  DEF PublishAudit, Fail, SoftDeleteFeeStructure, SeedFeeStructures, SeedWrite,
      SeedDone, InsertInvoices, CommitPayment, ThenAudit, Reply, Continue,
      TypeOK, Idle
<1>4. ASSUME CountInvoices(r)
      PROVE  req'[r].op # "collect"
  <2>1. PICK next : next = [req[r] EXCEPT !.at = "update"]
    OBVIOUS
  <2>2. next.op = "delete"
    BY <1>4, <2>1, RequestByOp DEF CountInvoices, TypeOK, DeleteReq
  <2>3. Reply(r) \/ Continue(r, next)
    BY <1>4, <2>1 DEF CountInvoices
  <2> QED BY <2>2, <2>3 DEF Reply, Continue, TypeOK, Idle
<1>5. ASSUME SelectStudents(r)
      PROVE  req'[r].op # "collect"
  <2> DEFINE toCreate == {st \in req[r].students :
                            ~ invoice[<<st, req[r].structure>>].exists}
  <2>1. PICK next : next = [req[r] EXCEPT !.at = "insert",
                                          !.students = toCreate]
    OBVIOUS
  <2>2. next.op = "generate"
    BY <1>5, <2>1, RequestByOp DEF SelectStudents, TypeOK, GenerateReq
  <2>3. Reply(r) \/ Continue(r, next)
    BY <1>5, <2>1 DEF SelectStudents
  <2> QED BY <2>2, <2>3 DEF Reply, Continue, TypeOK, Idle
<1>6. ASSUME NEW s \in Structures, NEW k \in Keys,
             NEW a \in Amounts \cup {Null},
             CreateFeeStructure(r, s, k, a) \/ UpdateFeeStructure(r, s, k, a)
      PROVE  req'[r].op # "collect"
  BY <1>6 DEF CreateFeeStructure, UpdateFeeStructure, ThenAudit, Continue, TypeOK
<1>7. ASSUME NEW s \in Structures, DeleteFeeStructure(r, s)
      PROVE  req'[r].op # "collect"
  BY <1>7 DEF DeleteFeeStructure, Continue, TypeOK
<1>8. ASSUME NEW s \in Structures, NEW c \in Classes, GenerateInvoices(r, s, c)
      PROVE  req'[r].op # "collect"
  BY <1>8 DEF GenerateInvoices, Continue, TypeOK
<1>9. ASSUME NEW k \in Keys, SeedFind(r, k)
       PROVE  req'[r].op # "collect"
  BY <1>9 DEF SeedFind, Continue, TypeOK
<1> QED
  BY <1>1, <1>2, <1>3, <1>4, <1>5, <1>6, <1>7, <1>8, <1>9
  DEF Handler, Arrive, Proceed

\* A collection whose read still holds is credited in full, on an invoice that
\* is not settled.
LEMMA ExactReceive ==
  ASSUME NEW r \in Requests, TypeOK, MoneyInv,
         CollectionStands(req[r]), CommitPayment(r)
  PROVE  ExactBook!Next
<1>1. req[r] \in CollectReq
  BY RequestByOp DEF CommitPayment, TypeOK
<1>2. PICK i \in Invoices : i = req[r].invoice
  BY <1>1 DEF CollectReq
<1>3. PICK a \in Amounts : a = req[r].amount
  BY <1>1 DEF CollectReq
<1>4. PICK paid \in Nat : paid = req[r].newAmountPaid
  BY <1>1 DEF CollectReq
<1>5. invoice[i] \in InvoiceRow
  BY DEF TypeOK
<1>6. /\ invoice[i].exists /\ invoice[i].status # "PAID"
      /\ paid = invoice[i].amountPaid + a
      /\ req[r].newStatus = StatusFor(paid, invoice[i].amountDue)
  BY <1>2, <1>3, <1>4
  DEF CommitPayment, MoneyInv, CollectionInv, CollectionStands, Settled
<1>7. /\ received' = [received EXCEPT ![i] = received[i] + a]
      /\ invoice' = [invoice EXCEPT
                       ![i].amountPaid = paid,
                       ![i].status = StatusFor(paid, invoice[i].amountDue)]
  BY <1>2, <1>3, <1>4, <1>6 DEF CommitPayment
<1>8. paid \in ExactBook!Credits(i, a)
  BY <1>6 DEF ExactBook!Credits, Book
<1>9. Book' = [Book EXCEPT ![i].paid = paid,
                           ![i].settled = paid >= Book[i].due]
  <2>1. /\ invoice'[i] = [invoice[i] EXCEPT
                            !.amountPaid = paid,
                            !.status = StatusFor(paid, invoice[i].amountDue)]
        /\ \A j \in Invoices : j # i => invoice'[j] = invoice[j]
    BY <1>7 DEF TypeOK
  <2>2. /\ invoice'[i].exists = invoice[i].exists
        /\ invoice'[i].amountDue = invoice[i].amountDue
        /\ invoice'[i].amountPaid = paid
        /\ invoice'[i].status = StatusFor(paid, invoice[i].amountDue)
    BY <1>5, <2>1 DEF InvoiceRow
  <2>3. (invoice'[i].status = "PAID") = (paid >= invoice[i].amountDue)
    BY <2>2 DEF StatusFor
  <2> QED BY <2>1, <2>2, <2>3 DEF Book
<1>10. Book[i].open /\ ~ Book[i].settled
  BY <1>6 DEF Book
<1>11. ExactBook!Receive(i, a)
  BY <1>7, <1>8, <1>9, <1>10 DEF ExactBook!Receive
<1> QED BY <1>11 DEF ExactBook!Next

LEMMA ExactInit == Init => ExactBook!Init
  BY BookInit DEF LossyBook!Init, ExactBook!Init, LossyBook!Unissued,
                  ExactBook!Unissued

LEMMA ExactIssue ==
  ASSUME TypeOK, NEW r \in Requests, InsertInvoices(r)
  PROVE  ExactBook!Next \/ UNCHANGED <<Book, received>>
<1>1. CASE UNCHANGED invoice
  BY <1>1 DEF InsertInvoices, Book
<1>2. CASE ~ UNCHANGED invoice
  <2>1. PICK batch \in SUBSET Invoices, due \in Amounts :
          LossyBook!Issue(batch, due)
    BY <1>2, IssuedBatch
  <2>2. ExactBook!Issue(batch, due)
    BY <2>1 DEF LossyBook!Issue, ExactBook!Issue
  <2> QED BY <2>2 DEF ExactBook!Next
<1> QED BY <1>1, <1>2

LEMMA ExactNext ==
  ASSUME TypeOK, MoneyInv, [Next]_vars
  PROVE  \/ ExactBook!Next
         \/ UNCHANGED <<Book, received>>
         \/ OvertakenCommit
<1>1. CASE UNCHANGED <<invoice, received>>
  BY <1>1 DEF Book
<1>2. CASE ~ UNCHANGED <<invoice, received>>
  <2>1. \E r \in Requests : InsertInvoices(r) \/ CommitPayment(r)
    BY <1>2, MoneySteps
  <2> QED BY <2>1, ExactReceive, ExactIssue DEF OvertakenCommit
<1> QED BY <1>1, <1>2

\* However many handlers overlap, every payment is credited in full and no
\* settled invoice takes one, except by a collection that was overtaken
\* between its read and its commit (collectPayment).
THEOREM RefinesExactBook == Spec => ImplementsExactBook
<1> DEFINE Exactly == /\ \A r \in Requests :
                           Handler(r) /\ CollectionStands(req[r]) =>
                             CollectionStands(req[r])'
                      /\ \/ ExactBook!Next
                         \/ UNCHANGED <<Book, received>>
                         \/ OvertakenCommit
<1>1. TypeOK /\ MoneyInv /\ [Next]_vars => Exactly
  BY CollectionStep, ExactNext
<1> HIDE DEF Exactly
<1>2. Spec => [][Exactly]_vars
  BY <1>1, TypeCorrect, MoneyCorrect, PTL DEF Spec
<1>3. Spec => ExactBook!Init
  BY ExactInit DEF Spec
<1> QED
  BY <1>2, <1>3 DEF ImplementsExactBook, Exactly
=============================================================================
