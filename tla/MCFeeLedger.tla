---------------------------- MODULE MCFeeLedger ----------------------------
(* Small instances of FeeLedger for TLC. *)
EXTENDS FeeLedger, TLC

CONSTANTS k1, k2, st1, st2, c1, c2

\* The first class has every student, the second only one: a second run of
\* generateInvoices overlaps the first in part.
MCEnrolled == c1 :> Students @@ c2 :> {st2}

MCSeedAmount == [k \in Keys |-> IF k = k1 THEN 2 ELSE Null]

\* The handlers are interchangeable, and so are the ids of the rows.
Interchangeable == Permutations(Requests) \cup Permutations(Structures)
=============================================================================
