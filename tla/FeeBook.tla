------------------------------ MODULE FeeBook ------------------------------
(***************************************************************************)
(* What the finance engine promises about invoices and payments: an        *)
(* abstract fee book in which issuing invoices and receiving a payment are *)
(* single steps.  Exact selects the promise of the code's comments (every  *)
(* payment is credited in full and settled invoices take none); otherwise  *)
(* a payment may be credited only in part, which is all that overlapping   *)
(* collectPayment calls keep.                                              *)
(***************************************************************************)
EXTENDS Naturals

CONSTANTS
  Invoices,
  Amounts,
  Exact       \* TRUE or FALSE

VARIABLES
  book,       \* per invoice: open, due, paid and whether it is settled
  received    \* per invoice: the money received

bookVars == <<book, received>>

Unissued == [open |-> FALSE, due |-> 0, paid |-> 0, settled |-> FALSE]

Init ==
  /\ book = [i \in Invoices |-> Unissued]
  /\ received = [i \in Invoices |-> 0]

Issue(batch, amountDue) ==
  /\ \A i \in batch : ~ book[i].open
  /\ book' = [i \in Invoices |->
                IF i \in batch
                  THEN [open |-> TRUE, due |-> amountDue, paid |-> 0,
                        settled |-> FALSE]
                  ELSE book[i]]
  /\ UNCHANGED received

\* The amounts an invoice may show after receiving amount.
Credits(i, amount) ==
  IF Exact THEN {book[i].paid + amount}
           ELSE amount .. (received[i] + amount)

Receive(i, amount) ==
  /\ book[i].open
  /\ Exact => ~ book[i].settled
  /\ received' = [received EXCEPT ![i] = @ + amount]
  /\ \E paid \in Credits(i, amount) :
       book' = [book EXCEPT ![i].paid = paid,
                            ![i].settled = paid >= book[i].due]

Next ==
  \/ \E batch \in SUBSET Invoices, amountDue \in Amounts :
       Issue(batch, amountDue)
  \/ \E i \in Invoices, amount \in Amounts : Receive(i, amount)

Spec == Init /\ [][Next]_bookVars
=============================================================================
